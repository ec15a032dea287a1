-------------------------- MODULE Artifacts_proofs --------------------------
(***************************************************************************)
(* What Artifacts promises for any number of daemons, files, commands and  *)
(* faults.                                                                 *)
(*                                                                         *)
(* The argument: the only bytes a store starts from are a source file or a *)
(* payload whose digest was checked, and the digest in a payload is copied *)
(* from a manifest; so if no manifest vouches for torn bytes, no payload   *)
(* does, and no store is ever started with them.  What is on its way has a *)
(* row in the outbox of its sender, so a payload that answers a fetch can  *)
(* be traced to the label of that fetch, and one sent by hand to its own.  *)
(* Rows stay, and blobs are truncated but never removed, so the source of  *)
(* a payload on its way still has the file.                                *)
(* A file is incomplete only while a store is between the truncation and   *)
(* the write of it, unless something failed.                               *)
(***************************************************************************)
EXTENDS Artifacts, TLAPS

-----------------------------------------------------------------------------
\* The inductive invariant

\* A payload that answers a fetch of its addressee, with a label its sender
\* admitted, from a spool with the file.
Answers(m) ==
  /\ \E f \in outbox[m.to] : /\ f.kind = "fetch" /\ f.artifact = m.artifact
                           /\ f.to = m.from /\ Admits(f.to, m.to, f.cap)
  /\ blob[m.from][m.artifact] # None

\* The payloads that give the digest of the whole file, and answer a fetch unless
\* they were sent by hand.
SoundPayload == {m \in Payload : m.digest = "whole" /\ (m.id # 0 => Answers(m))}

\* The stores that the loop of n may be at.
SoundIncoming(n) == {w \in Writer : w.bytes = "whole" /\ AdmittedWay(n, w.artifact)}

\* The stores that offer_artifact may be at on n.
SoundOutgoing(n) ==
  {w \in Writer : /\ w.bytes = "whole"
                  /\ \E o \in offered : o[1] = n /\ o[2] = w.artifact}

\* What n may have in its channel or as a reply.
SoundFrom(n) == {m \in Message : m.from = n /\ (m \in Payload => m \in SoundPayload)}

PayloadsAreSound ==
  /\ \A m \in sent : m \in SoundFrom(m.from) /\ m \in outbox[m.from]
  /\ \A n \in Node : \A i \in 1..Len(mailbox[n]) : mailbox[n][i] \in SoundFrom(n)
  /\ \A n \in Node : loop[n] \in Payload => loop[n] \in SoundFrom(n)

StoresAreSound ==
  /\ \A n \in Node : loop[n] \in Writer => loop[n] \in SoundIncoming(n)
  /\ \A n \in Node : task[n] # None => task[n] \in SoundOutgoing(n)

IInv == TypeOK /\ PayloadsAreSound /\ StoresAreSound /\ DamageIsContained /\ CopyIsAdmitted

\* Blobs are not removed, rows and offers are not forgotten.
Kept ==
  /\ \A n \in Node, x \in Artifact : blob[n][x] # None => blob'[n][x] # None
  /\ \A n \in Node : outbox[n] \subseteq outbox'[n]
  /\ offered \subseteq offered'

-----------------------------------------------------------------------------
\* Types

\* A message is not a store in progress.
LEMMA Disjoint ==
  /\ \A m \in Payload : m \notin Writer /\ m \notin Offer /\ m \notin Fetch
  /\ \A m \in Offer \cup Fetch : m \notin Payload
  /\ None \notin Payload /\ None \notin Writer /\ None \notin Content
<1>1. \A m \in Payload : m.kind = "payload" /\ "kind" \in DOMAIN m
  BY DEF Payload
<1>2. \A m \in Offer \cup Fetch : m.kind # "payload"
  BY DEF Offer, Fetch
<1>3. \A w \in Writer : "kind" \notin DOMAIN w
  BY DEF Writer
<1>4. None \notin Payload /\ None \notin Writer /\ None \notin Content
  BY NoneAssumption DEF Message
<1> QED
  BY <1>1, <1>2, <1>3, <1>4

\* The command channel after a send: the old commands and the new one, within
\* the capacity.
LEMMA Enqueued ==
  ASSUME TypeOK, NEW n \in Node, NEW command \in Message, Enqueue(n, command)
  PROVE  /\ mailbox' \in [Node -> Seq(Message)]
         /\ \A m \in Node : Len(mailbox'[m]) <= Capacity
         /\ \A m \in Node : \A i \in 1..Len(mailbox'[m]) :
              \/ mailbox'[m][i] = command
              \/ i \in 1..Len(mailbox[m]) /\ mailbox'[m][i] = mailbox[m][i]
<1> USE DEF TypeOK
<1>1. mailbox[n] \in Seq(Message) /\ Len(mailbox[n]) < Capacity
  BY DEF Enqueue, HasRoom
<1>2. mailbox' = [mailbox EXCEPT ![n] = Append(mailbox[n], command)]
  BY DEF Enqueue
<1>3. /\ Append(mailbox[n], command) \in Seq(Message)
      /\ Len(Append(mailbox[n], command)) = Len(mailbox[n]) + 1
      /\ \A i \in 1..Len(mailbox[n]) : Append(mailbox[n], command)[i] = mailbox[n][i]
      /\ Append(mailbox[n], command)[Len(mailbox[n]) + 1] = command
  BY <1>1
<1>4. mailbox' \in [Node -> Seq(Message)]
  BY <1>2, <1>3
<1>5. ASSUME NEW m \in Node
      PROVE  /\ Len(mailbox'[m]) <= Capacity
             /\ \A i \in 1..Len(mailbox'[m]) :
                  \/ mailbox'[m][i] = command
                  \/ i \in 1..Len(mailbox[m]) /\ mailbox'[m][i] = mailbox[m][i]
  <2>1. CASE m = n
    <3>1. mailbox'[m] = Append(mailbox[n], command)
      BY <1>2, <2>1
    <3>2. Len(mailbox[n]) \in Nat
      BY <1>1
    <3> QED
      BY <1>1, <1>3, <2>1, <3>1, <3>2, ArtifactsAssumption
  <2>2. CASE m # n
    BY <1>2, <2>2
  <2> QED
    BY <2>1, <2>2
<1> QED
  BY <1>4, <1>5

\* The command channel after a command was taken from it.
LEMMA Dequeued ==
  ASSUME TypeOK, NEW n \in Node, mailbox[n] # <<>>,
         mailbox' = [mailbox EXCEPT ![n] = Tail(@)]
  PROVE  /\ mailbox' \in [Node -> Seq(Message)]
         /\ \A m \in Node : Len(mailbox'[m]) <= Capacity
         /\ \A m \in Node : \A i \in 1..Len(mailbox'[m]) :
              \E j \in 1..Len(mailbox[m]) : mailbox'[m][i] = mailbox[m][j]
         /\ Head(mailbox[n]) \in Message
         /\ 1 \in 1..Len(mailbox[n]) /\ Head(mailbox[n]) = mailbox[n][1]
<1> USE DEF TypeOK
<1>1. mailbox[n] \in Seq(Message)
  OBVIOUS
<1>2. /\ Tail(mailbox[n]) \in Seq(Message)
      /\ Len(mailbox[n]) \in Nat /\ Len(mailbox[n]) > 0
      /\ Len(Tail(mailbox[n])) = Len(mailbox[n]) - 1
      /\ \A i \in 1..Len(Tail(mailbox[n])) :
           i + 1 \in 1..Len(mailbox[n]) /\ Tail(mailbox[n])[i] = mailbox[n][i + 1]
      /\ Head(mailbox[n]) \in Message
      /\ 1 \in 1..Len(mailbox[n]) /\ Head(mailbox[n]) = mailbox[n][1]
  BY <1>1
<1>3. mailbox' \in [Node -> Seq(Message)]
  BY <1>2
<1>4. ASSUME NEW m \in Node
      PROVE  /\ Len(mailbox'[m]) <= Capacity
             /\ \A i \in 1..Len(mailbox'[m]) :
                  \E j \in 1..Len(mailbox[m]) : mailbox'[m][i] = mailbox[m][j]
  <2>1. CASE m = n
    <3>1. mailbox'[m] = Tail(mailbox[n]) /\ Len(mailbox[n]) <= Capacity
      BY <2>1
    <3> QED
      BY <1>2, <2>1, <3>1, ArtifactsAssumption
  <2>2. CASE m # n
    BY <2>2
  <2> QED
    BY <2>1, <2>2
<1> QED
  BY <1>2, <1>3, <1>4

\* A write keeps the files typed (store_artifact_bytes_with_id).
LEMMA WrittenType ==
  ASSUME TypeOK, NEW n \in Node, NEW w \in Writer, Written(n, w)
  PROVE  /\ blob' \in [Node -> [Artifact -> Content \cup {None}]]
         /\ manifest' \in [Node -> [Artifact -> Manifest]]
         /\ Following(w) \in Writer
<1>1. w.artifact \in Artifact /\ w.bytes \in Content
  BY DEF Writer
<1>2. blob' \in [Node -> [Artifact -> Content \cup {None}]]
  BY <1>1 DEF Written, TypeOK, Content
<1>3. manifest' \in [Node -> [Artifact -> Manifest]]
  BY <1>1 DEF Written, TypeOK, Manifest, Content
<1>4. Following(w) \in Writer
  BY DEF Following, Writer
<1> QED
  BY <1>2, <1>3, <1>4

\* No step takes a variable out of its type.
LEMMA TypeStep ==
  ASSUME TypeOK, [Next]_vars
  PROVE  TypeOK'
<1>1. ASSUME NEW o \in Offers, OfferArtifact(o)
      PROVE  TypeOK'
  <2>1. o[1] \in Node /\ o[2] \in Artifact /\ o[3] \in Node
    BY ArtifactsAssumption
  <2>2. [artifact |-> o[2], bytes |-> "whole", peer |-> o[3], at |-> "blob"] \in Writer
    BY <2>1 DEF Writer, Content
  <2>3. task' \in [Node -> Writer \cup {None}]
    BY <1>1, <2>1, <2>2 DEF OfferArtifact, TypeOK
  <2> QED
    BY <1>1, <2>3 DEF OfferArtifact, TypeOK, disk
<1>2. ASSUME NEW n \in Node, StoreOutgoing(n)
      PROVE  TypeOK'
  <2>1. task[n] \in Writer
    BY <1>2 DEF StoreOutgoing, TypeOK
  <2>2. /\ blob' \in [Node -> [Artifact -> Content \cup {None}]]
        /\ manifest' \in [Node -> [Artifact -> Manifest]]
        /\ Following(task[n]) \in Writer
    BY <1>2, <2>1, WrittenType DEF StoreOutgoing
  <2>3. task' \in [Node -> Writer \cup {None}]
    BY <1>2, <2>2 DEF StoreOutgoing, TypeOK
  <2> QED
    BY <1>2, <2>2, <2>3 DEF StoreOutgoing, TypeOK, count
<1>3. ASSUME NEW n \in Node, AnnounceOffer(n)
      PROVE  TypeOK'
  <2>1. task[n] \in Writer
    BY <1>3 DEF AnnounceOffer, TypeOK
  <2>2. [kind |-> "offer", from |-> n, to |-> task[n].peer, artifact |-> task[n].artifact]
          \in Message
    BY <2>1 DEF Writer, Message, Offer
  <2>3. /\ mailbox' \in [Node -> Seq(Message)]
        /\ \A m \in Node : Len(mailbox'[m]) <= Capacity
    <3>1. CASE <<n, task[n].peer>> \in Peer
      BY <1>3, <2>2, <3>1, Enqueued DEF AnnounceOffer
    <3>2. CASE <<n, task[n].peer>> \notin Peer
      BY <1>3, <3>2 DEF AnnounceOffer, TypeOK
    <3> QED
      BY <3>1, <3>2
  <2>4. task' \in [Node -> Writer \cup {None}]
    BY <1>3 DEF AnnounceOffer, TypeOK
  <2> QED
    BY <1>3, <2>3, <2>4 DEF AnnounceOffer, TypeOK, disk, count
<1>4. ASSUME NEW q \in Asks, FetchArtifact(q[1], q[2], q[3], q[4])
      PROVE  TypeOK'
  <2>1. q[1] \in Node /\ q[2] \in Node /\ q[3] \in Artifact /\ q[4] \in Label \cup {None}
    BY ArtifactsAssumption
  <2>2. fetches' \in Nat /\ fetches' \in 1..MaxFetches
    BY <1>4, ArtifactsAssumption DEF FetchArtifact, TypeOK
  <2>3. [kind |-> "fetch", from |-> q[1], to |-> q[2], artifact |-> q[3], cap |-> q[4],
         id |-> fetches'] \in Message
    BY <2>1, <2>2 DEF Message, Fetch
  <2>4. /\ mailbox' \in [Node -> Seq(Message)]
        /\ \A m \in Node : Len(mailbox'[m]) <= Capacity
    BY <1>4, <2>1, <2>3, Enqueued DEF FetchArtifact
  <2> QED
    BY <1>4, <2>2, <2>4 DEF FetchArtifact, TypeOK, disk
<1>5. ASSUME NEW q \in Pushes, PushPayload(q[1], q[2], q[3], q[4])
      PROVE  TypeOK'
  <2>1. /\ q[1] \in Node /\ q[2] \in Node /\ q[3] \in Artifact /\ q[4] \in Label \cup {None}
        /\ q = <<q[1], q[2], q[3], q[4]>>
    BY ArtifactsAssumption
  <2>2. [kind |-> "payload", from |-> q[1], to |-> q[2], artifact |-> q[3], cap |-> q[4],
         id |-> 0, digest |-> "whole", bytes |-> "whole"] \in Message
    BY <2>1, ArtifactsAssumption DEF Message, Payload, Content
  <2>3. /\ mailbox' \in [Node -> Seq(Message)]
        /\ \A m \in Node : Len(mailbox'[m]) <= Capacity
    BY <1>5, <2>1, <2>2, Enqueued DEF PushPayload
  <2>4. pushed' \subseteq Pushes
    BY <1>5, <2>1 DEF PushPayload, TypeOK
  <2> QED
    BY <1>5, <2>3, <2>4 DEF PushPayload, TypeOK, disk
<1>6. ASSUME NEW n \in Node, HandleCommand(n)
      PROVE  TypeOK'
  <2>1. /\ mailbox' \in [Node -> Seq(Message)]
        /\ \A m \in Node : Len(mailbox'[m]) <= Capacity
        /\ Head(mailbox[n]) \in Message
    BY <1>6, Dequeued DEF HandleCommand
  <2>2. sent' \subseteq Message
    BY <1>6, <2>1 DEF HandleCommand, TypeOK
  <2>3. outbox' \in [Node -> SUBSET Message]
    BY <1>6, <2>1 DEF HandleCommand, TypeOK
  <2> QED
    BY <1>6, <2>1, <2>2, <2>3 DEF HandleCommand, TypeOK, count
<1>7. ASSUME NEW m \in sent, ReceiveOffer(m)
      PROVE  TypeOK'
  <2>1. m.to \in Node /\ m.artifact \in Artifact
    BY DEF TypeOK, Message, Offer, Fetch, Payload
  <2>2. inbox' \in [Node -> SUBSET Artifact] /\ sent' \subseteq Message
    BY <1>7, <2>1 DEF ReceiveOffer, Receives, TypeOK
  <2> QED
    BY <1>7, <2>2 DEF ReceiveOffer, TypeOK, process, count
<1>8. ASSUME NEW m \in sent, ReceiveFetch(m)
      PROVE  TypeOK'
  <2>1. m \in Fetch
    BY <1>8 DEF ReceiveFetch, TypeOK, Message, Offer, Payload
  <2>2. /\ m.to \in Node /\ m.from \in Node /\ m.artifact \in Artifact
        /\ m.id \in 1..MaxFetches
    BY <2>1 DEF Fetch
  <2>3. ASSUME CanLoad(m.to, m.artifact)
        PROVE  [kind |-> "payload", from |-> m.to, to |-> m.from, artifact |-> m.artifact,
                cap |-> Exchange, id |-> m.id, digest |-> manifest[m.to][m.artifact],
                bytes |-> blob[m.to][m.artifact]] \in Payload
    BY <2>2, <2>3, ArtifactsAssumption DEF CanLoad, Payload, TypeOK
  <2>4. loop' \in [Node -> Payload \cup Writer \cup {None}] /\ sent' \subseteq Message
    BY <1>8, <2>2, <2>3 DEF ReceiveFetch, Receives, TypeOK
  <2> QED
    BY <1>8, <2>4 DEF ReceiveFetch, TypeOK, disk, count
<1>9. ASSUME NEW n \in Node, QueueReply(n)
      PROVE  TypeOK'
  <2>1. /\ mailbox' \in [Node -> Seq(Message)]
        /\ \A m \in Node : Len(mailbox'[m]) <= Capacity
    BY <1>9, Enqueued DEF QueueReply
  <2>2. loop' \in [Node -> Payload \cup Writer \cup {None}]
    BY <1>9 DEF QueueReply, TypeOK
  <2> QED
    BY <1>9, <2>1, <2>2 DEF QueueReply, TypeOK, disk, count
<1>10. ASSUME NEW m \in sent, ReceivePayload(m)
      PROVE  TypeOK'
  <2>1. m \in Payload
    BY <1>10 DEF ReceivePayload, TypeOK, Message, Offer, Fetch
  <2>2. /\ m.to \in Node
        /\ [artifact |-> m.artifact, bytes |-> m.bytes, peer |-> m.from, at |-> "blob"] \in Writer
    BY <2>1 DEF Payload, Writer
  <2>3. loop' \in [Node -> Payload \cup Writer \cup {None}] /\ sent' \subseteq Message
    BY <1>10, <2>2 DEF ReceivePayload, Receives, TypeOK
  <2> QED
    BY <1>10, <2>3 DEF ReceivePayload, TypeOK, disk, count
<1>11. ASSUME NEW n \in Node, StoreIncoming(n)
      PROVE  TypeOK'
  <2>1. /\ blob' \in [Node -> [Artifact -> Content \cup {None}]]
        /\ manifest' \in [Node -> [Artifact -> Manifest]]
        /\ Following(loop[n]) \in Writer
    BY <1>11, WrittenType DEF StoreIncoming
  <2>2. loop' \in [Node -> Payload \cup Writer \cup {None}]
    BY <1>11, <2>1 DEF StoreIncoming, TypeOK
  <2> QED
    BY <1>11, <2>1, <2>2 DEF StoreIncoming, TypeOK, count
<1>12. ASSUME NEW n \in Node, WriteFails(n)
      PROVE  TypeOK'
  <2>1. /\ loop' \in [Node -> Payload \cup Writer \cup {None}]
        /\ task' \in [Node -> Writer \cup {None}]
    BY <1>12 DEF WriteFails, TypeOK
  <2> QED
    BY <1>12, <2>1 DEF WriteFails, TypeOK, disk
<1>13. ASSUME NEW n \in Node, Crash(n)
      PROVE  TypeOK'
  <2>1. /\ loop' \in [Node -> Payload \cup Writer \cup {None}]
        /\ task' \in [Node -> Writer \cup {None}]
        /\ sent' \subseteq Message
    BY <1>13 DEF Crash, TypeOK
  <2>2. <<>> \in Seq(Message) /\ Len(<<>>) = 0
    OBVIOUS
  <2>3. mailbox' \in [Node -> Seq(Message)]
    BY <1>13, <2>2 DEF Crash, TypeOK
  <2>4. \A m \in Node : Len(mailbox'[m]) <= Capacity
    BY <1>13, <2>2, ArtifactsAssumption DEF Crash, TypeOK
  <2> QED
    BY <1>13, <2>1, <2>3, <2>4 DEF Crash, TypeOK, disk
<1>14. ASSUME NEW n \in Node, LookupFails(n)
       PROVE  TypeOK'
  <2>1. /\ mailbox' \in [Node -> Seq(Message)]
        /\ \A m \in Node : Len(mailbox'[m]) <= Capacity
    BY <1>14, Dequeued DEF LookupFails
  <2> QED
    BY <1>14, <2>1 DEF LookupFails, TypeOK, disk
<1>15. CASE UNCHANGED vars
  BY <1>15 DEF TypeOK, vars, disk, process, count
<1> QED
  BY <1>1, <1>2, <1>3, <1>4, <1>5, <1>6, <1>7, <1>8, <1>9, <1>10, <1>11, <1>12, <1>13, <1>14, <1>15
     DEF Next, OfferTask, Receive

-----------------------------------------------------------------------------
\* Nothing is removed

\* A write leaves a file where it writes, and touches no other.
LEMMA WrittenKeeps ==
  ASSUME TypeOK, NEW n \in Node, NEW w \in Writer, Written(n, w)
  PROVE  \A m \in Node, x \in Artifact :
           /\ blob[m][x] # None => blob'[m][x] # None
           /\ blob'[m][x] # blob[m][x] => m = n /\ x = w.artifact
           /\ manifest'[m][x] # manifest[m][x] =>
                manifest'[m][x] \in {"unreadable", w.bytes}
<1>1. w.artifact \in Artifact /\ w.bytes \in Content /\ w.bytes # None /\ "torn" # None
  BY Disjoint DEF Writer, Content
<1>2. \A m \in Node, x \in Artifact :
        /\ blob[m][x] # None => blob'[m][x] # None
        /\ blob'[m][x] # blob[m][x] => m = n /\ x = w.artifact
  BY <1>1 DEF Written, TypeOK
<1>3. \A m \in Node, x \in Artifact :
        manifest'[m][x] # manifest[m][x] => manifest'[m][x] \in {"unreadable", w.bytes}
  BY <1>1 DEF Written, TypeOK
<1> QED
  BY <1>2, <1>3

\* No step removes a blob or forgets a row or an offer.
LEMMA KeptStep ==
  ASSUME TypeOK, [Next]_vars
  PROVE  Kept
<1>1. ASSUME NEW n \in Node, StoreOutgoing(n)
      PROVE  Kept
  <2>1. task[n] \in Writer
    BY <1>1 DEF StoreOutgoing, TypeOK
  <2> QED
    BY <1>1, <2>1, WrittenKeeps DEF StoreOutgoing, Kept, count
<1>2. ASSUME NEW n \in Node, StoreIncoming(n)
      PROVE  Kept
  BY <1>2, WrittenKeeps DEF StoreIncoming, Kept, count
<1>3. ASSUME NEW n \in Node, HandleCommand(n)
      PROVE  Kept
  BY <1>3 DEF HandleCommand, Kept, TypeOK, count
<1>4. ASSUME UNCHANGED <<blob, outbox>>, offered \subseteq offered'
      PROVE  Kept
  BY <1>4 DEF Kept
<1> QED
  BY <1>1, <1>2, <1>3, <1>4
     DEF Next, OfferTask, Receive, OfferArtifact, AnnounceOffer, FetchArtifact, PushPayload,
         HandleCommand, ReceiveOffer, ReceiveFetch, QueueReply, ReceivePayload, WriteFails, LookupFails,
         Crash, vars, disk, count

\* A way into a spool stays open.
LEMMA WayStays ==
  ASSUME TypeOK, Kept, NEW n \in Node, NEW x \in Artifact, AdmittedWay(n, x)
  PROVE  AdmittedWay(n, x)'
<1>1. CASE \E o \in offered : o[1] = n /\ o[2] = x
  BY <1>1 DEF AdmittedWay, Kept
<1>2. CASE \E f \in outbox[n] : /\ f.kind = "fetch" /\ f.artifact = x
                              /\ Admits(f.to, n, f.cap) /\ blob[f.to][x] # None
  <2>1. PICK f \in outbox[n] : /\ f.kind = "fetch" /\ f.artifact = x
                             /\ Admits(f.to, n, f.cap) /\ blob[f.to][x] # None
    BY <1>2
  <2>2. f.to \in Node
    BY DEF TypeOK, Message, Offer, Fetch, Payload
  <2>3. f \in outbox'[n] /\ blob'[f.to][x] # None
    BY <2>1, <2>2 DEF Kept
  <2> QED
    BY <2>1, <2>3 DEF AdmittedWay
<1>3. CASE \E p \in Node : \E m \in outbox[p] :
             /\ m.kind = "payload" /\ m.id = 0 /\ m.to = n /\ m.artifact = x
             /\ Admits(n, p, m.cap)
  BY <1>3 DEF AdmittedWay, Kept
<1> QED
  BY <1>1, <1>2, <1>3 DEF AdmittedWay

\* What was sound stays sound while nothing is removed.
LEMMA SoundStays ==
  ASSUME TypeOK, Kept
  PROVE  /\ \A n \in Node : SoundFrom(n) \subseteq SoundFrom(n)'
         /\ \A n \in Node : SoundIncoming(n) \subseteq SoundIncoming(n)'
         /\ \A n \in Node : SoundOutgoing(n) \subseteq SoundOutgoing(n)'
<1>1. ASSUME NEW m \in SoundPayload
      PROVE  m \in SoundPayload'
  <2>1. m \in Payload /\ m.to \in Node /\ m.from \in Node /\ m.artifact \in Artifact
    BY DEF SoundPayload, Payload
  <2>2. Answers(m) => Answers(m)'
    BY <2>1 DEF Answers, Kept
  <2> QED
    BY <2>1, <2>2 DEF SoundPayload
<1>2. \A n \in Node : SoundFrom(n) \subseteq SoundFrom(n)'
  BY <1>1 DEF SoundFrom
<1>3. ASSUME NEW n \in Node, NEW w \in SoundIncoming(n)
      PROVE  w \in SoundIncoming(n)'
  <2>1. w \in Writer /\ w.artifact \in Artifact
    BY DEF SoundIncoming, Writer
  <2> QED
    BY <2>1, WayStays DEF SoundIncoming
<1>4. \A n \in Node : SoundOutgoing(n) \subseteq SoundOutgoing(n)'
  BY DEF Kept, SoundOutgoing
<1> QED
  BY <1>2, <1>3, <1>4

-----------------------------------------------------------------------------
\* Payloads

\* The loops, the channels and the network hold old messages or sound new ones.
LEMMA PayloadStep ==
  ASSUME IInv, [Next]_vars, Kept
  PROVE  PayloadsAreSound'
<1> USE DEF IInv
<1>1. \A n \in Node : SoundFrom(n) \subseteq SoundFrom(n)'
  BY SoundStays
<1>2. \A m \in Message : m.from \in Node
  BY DEF Message, Offer, Fetch, Payload
<1> DEFINE SentKept == \A m \in sent' : m \in SoundFrom(m.from) /\ m \in outbox'[m.from]
           MailKept == \A n \in Node : \A i \in 1..Len(mailbox'[n]) :
                         mailbox'[n][i] \in SoundFrom(n)
           LoopKept == \A n \in Node : loop'[n] \in Payload => loop'[n] \in SoundFrom(n)
<1>3. /\ sent' \subseteq sent => SentKept
      /\ mailbox' = mailbox => MailKept
      /\ loop' = loop => LoopKept
      /\ (\A n \in Node : loop'[n] \in Payload => loop'[n] = loop[n]) => LoopKept
  <2>1. sent' \subseteq sent => SentKept
    BY <1>2 DEF PayloadsAreSound, Kept, TypeOK
  <2> QED
    BY <2>1 DEF PayloadsAreSound
<1>4. SentKept /\ MailKept /\ LoopKept => PayloadsAreSound'
  <2>1. \A m \in sent' : m.from \in Node
    BY <1>2, TypeStep DEF TypeOK
  <2> QED
    BY <1>1, <2>1 DEF PayloadsAreSound
<1>5. ASSUME NEW n \in Node, NEW command \in SoundFrom(n), Enqueue(n, command)
      PROVE  MailKept
  <2>1. command \in Message
    BY DEF SoundFrom
  <2>2. mailbox' = [mailbox EXCEPT ![n] = Append(@, command)]
    BY <1>5 DEF Enqueue
  <2>3. \A m \in Node : m # n => mailbox'[m] = mailbox[m]
    BY <2>2 DEF TypeOK
  <2>4. \A m \in Node : \A i \in 1..Len(mailbox'[m]) :
          \/ mailbox'[m][i] = command
          \/ i \in 1..Len(mailbox[m]) /\ mailbox'[m][i] = mailbox[m][i]
    BY <1>5, <2>1, Enqueued
  <2>5. ASSUME NEW m \in Node, NEW i \in 1..Len(mailbox'[m])
        PROVE  mailbox'[m][i] \in SoundFrom(m)
    <3>1. CASE m = n
      BY <2>4, <3>1 DEF PayloadsAreSound
    <3>2. CASE m # n
      BY <2>3, <3>2 DEF PayloadsAreSound
    <3> QED
      BY <3>1, <3>2
  <2> QED
    BY <2>5
<1>6. ASSUME NEW n \in Node, mailbox[n] # <<>>, mailbox' = [mailbox EXCEPT ![n] = Tail(@)]
      PROVE  MailKept /\ Head(mailbox[n]) \in SoundFrom(n)
  <2>1. /\ \A m \in Node : \A i \in 1..Len(mailbox'[m]) :
             \E j \in 1..Len(mailbox[m]) : mailbox'[m][i] = mailbox[m][j]
        /\ 1 \in 1..Len(mailbox[n]) /\ Head(mailbox[n]) = mailbox[n][1]
    BY <1>6, Dequeued
  <2> QED
    BY <2>1 DEF PayloadsAreSound
<1> HIDE DEF SentKept, MailKept, LoopKept
<1>7. ASSUME NEW n \in Node, AnnounceOffer(n)
      PROVE  PayloadsAreSound'
  <2>1. task[n] \in Writer
    BY <1>7 DEF AnnounceOffer, TypeOK
  <2>2. [kind |-> "offer", from |-> n, to |-> task[n].peer, artifact |-> task[n].artifact]
          \in Offer
    BY <2>1 DEF Writer, Offer
  <2>3. [kind |-> "offer", from |-> n, to |-> task[n].peer, artifact |-> task[n].artifact]
          \in SoundFrom(n)
    BY <2>2, Disjoint DEF SoundFrom, Message
  <2>4. MailKept
    BY <1>3, <1>5, <1>7, <2>3 DEF AnnounceOffer
  <2> QED
    BY <1>3, <1>4, <1>7, <2>4 DEF AnnounceOffer
<1>8. ASSUME NEW q \in Asks, FetchArtifact(q[1], q[2], q[3], q[4])
      PROVE  PayloadsAreSound'
  <2>1. q[1] \in Node /\ q[2] \in Node /\ q[3] \in Artifact /\ q[4] \in Label \cup {None}
    BY ArtifactsAssumption
  <2>2. fetches' \in 1..MaxFetches
    BY <1>8, ArtifactsAssumption DEF FetchArtifact, TypeOK
  <2>3. [kind |-> "fetch", from |-> q[1], to |-> q[2], artifact |-> q[3], cap |-> q[4],
         id |-> fetches'] \in Fetch
    BY <2>1, <2>2 DEF Fetch
  <2>4. [kind |-> "fetch", from |-> q[1], to |-> q[2], artifact |-> q[3], cap |-> q[4],
         id |-> fetches'] \in SoundFrom(q[1])
    BY <2>3, Disjoint DEF SoundFrom, Message
  <2>5. MailKept
    BY <1>5, <1>8, <2>1, <2>4 DEF FetchArtifact
  <2> QED
    BY <1>3, <1>4, <1>8, <2>5 DEF FetchArtifact
<1>9. ASSUME NEW q \in Pushes, PushPayload(q[1], q[2], q[3], q[4])
      PROVE  PayloadsAreSound'
  <2>1. q[1] \in Node /\ q[2] \in Node /\ q[3] \in Artifact /\ q[4] \in Label \cup {None}
    BY ArtifactsAssumption
  <2>2. [kind |-> "payload", from |-> q[1], to |-> q[2], artifact |-> q[3], cap |-> q[4],
         id |-> 0, digest |-> "whole", bytes |-> "whole"] \in Payload
    BY <2>1, ArtifactsAssumption DEF Payload, Content
  <2>3. [kind |-> "payload", from |-> q[1], to |-> q[2], artifact |-> q[3], cap |-> q[4],
         id |-> 0, digest |-> "whole", bytes |-> "whole"] \in SoundFrom(q[1])
    BY <2>2 DEF SoundFrom, SoundPayload, Message
  <2>4. MailKept
    BY <1>5, <1>9, <2>1, <2>3 DEF PushPayload
  <2> QED
    BY <1>3, <1>4, <1>9, <2>4 DEF PushPayload
<1>10. ASSUME NEW n \in Node, HandleCommand(n)
      PROVE  PayloadsAreSound'
  <2>1. MailKept /\ Head(mailbox[n]) \in SoundFrom(n) /\ loop' = loop
    BY <1>6, <1>10 DEF HandleCommand
  <2>2. Head(mailbox[n]).from = n
    BY <2>1 DEF SoundFrom
  <2>3. \/ sent' \subseteq sent
        \/ sent' = sent \cup {Head(mailbox[n])} /\ Head(mailbox[n]) \in outbox'[n]
    BY <1>10 DEF HandleCommand, TypeOK
  <2>4. SentKept
    <3>1. ASSUME NEW m \in sent
          PROVE  m \in SoundFrom(m.from) /\ m \in outbox'[m.from]
      BY <1>2 DEF PayloadsAreSound, Kept, TypeOK
    <3> QED
      BY <2>1, <2>2, <2>3, <3>1 DEF SentKept
  <2> QED
    BY <1>3, <1>4, <2>1, <2>4
<1>11. ASSUME NEW m \in sent, ReceiveOffer(m)
      PROVE  PayloadsAreSound'
  BY <1>3, <1>4, <1>11 DEF ReceiveOffer, Receives, process
<1>12. ASSUME NEW m \in sent, ReceiveFetch(m)
      PROVE  PayloadsAreSound'
  <2>1. sent' \subseteq sent /\ mailbox' = mailbox
    BY <1>12 DEF ReceiveFetch, Receives
  <2>2. m \in Fetch
    BY <1>12 DEF ReceiveFetch, TypeOK, Message, Offer, Payload
  <2>3. m.to \in Node /\ m.from \in Node /\ m.artifact \in Artifact /\ m.kind = "fetch"
    BY <2>2 DEF Fetch
  <2>4. ASSUME NEW n \in Node, loop'[n] # loop[n], loop'[n] \in Payload
        PROVE  loop'[n] \in SoundFrom(n)
    <3>1. /\ n = m.to /\ HasGrant(n, m.from, m.cap) /\ CanLoad(n, m.artifact)
          /\ loop'[n] = [kind |-> "payload", from |-> n, to |-> m.from, artifact |-> m.artifact,
                cap |-> Exchange, id |-> m.id, digest |-> manifest[n][m.artifact],
                bytes |-> blob[n][m.artifact]]
      BY <1>12, <2>3, <2>4 DEF ReceiveFetch, TypeOK
    <3>2. manifest[n][m.artifact] = "whole"
      BY <2>3, <3>1 DEF CanLoad, Content, DamageIsContained
    <3>3. m \in outbox[m.from] /\ Admits(m.to, m.from, m.cap)
      BY <3>1 DEF PayloadsAreSound, HasGrant, Admits
    <3>4. Answers(loop'[n])
      BY <2>3, <3>1, <3>3 DEF Answers, CanLoad
    <3>5. loop'[n].digest = "whole" /\ loop'[n].from = n
      BY <3>1, <3>2
    <3> QED
      BY <2>4, <3>4, <3>5 DEF SoundFrom, SoundPayload, Message
  <2>5. LoopKept
    BY <2>4 DEF PayloadsAreSound, LoopKept
  <2> QED
    BY <1>3, <1>4, <2>1, <2>5
<1>13. ASSUME NEW n \in Node, QueueReply(n)
      PROVE  PayloadsAreSound'
  <2>1. loop[n] \in Payload
    <3>1. loop[n] \notin Writer /\ loop[n] # None
      BY <1>13, Disjoint, NoneAssumption DEF QueueReply, Message, Offer, Fetch, Writer
    <3> QED
      BY <3>1 DEF TypeOK
  <2>2. MailKept
    BY <1>5, <1>13, <2>1 DEF QueueReply, PayloadsAreSound
  <2>3. \A m \in Node : loop'[m] \in Payload => loop'[m] = loop[m]
    BY <1>13, Disjoint DEF QueueReply, TypeOK
  <2> QED
    BY <1>3, <1>4, <1>13, <2>2, <2>3 DEF QueueReply
<1>14. ASSUME NEW m \in sent, ReceivePayload(m)
      PROVE  PayloadsAreSound'
  <2>1. sent' \subseteq sent /\ mailbox' = mailbox
    BY <1>14 DEF ReceivePayload, Receives
  <2>2. m \in Payload
    BY <1>14 DEF ReceivePayload, TypeOK, Message, Offer, Fetch
  <2>3. [artifact |-> m.artifact, bytes |-> m.bytes, peer |-> m.from, at |-> "blob"] \in Writer
    BY <2>2 DEF Payload, Writer
  <2>4. \A n \in Node : loop'[n] \in Payload => loop'[n] = loop[n]
    BY <1>14, <2>3, Disjoint DEF ReceivePayload, TypeOK
  <2> QED
    BY <1>3, <1>4, <2>1, <2>4
<1>15. ASSUME NEW n \in Node, StoreIncoming(n)
      PROVE  PayloadsAreSound'
  <2>1. Following(loop[n]) \in Writer
    BY <1>15, WrittenType DEF StoreIncoming
  <2>2. \A m \in Node : loop'[m] \in Payload => loop'[m] = loop[m]
    BY <1>15, <2>1, Disjoint DEF StoreIncoming, TypeOK
  <2> QED
    BY <1>3, <1>4, <1>15, <2>2 DEF StoreIncoming
<1>16. ASSUME NEW n \in Node, WriteFails(n) \/ Crash(n)
      PROVE  PayloadsAreSound'
  <2>1. sent' \subseteq sent
    BY <1>16 DEF WriteFails, Crash
  <2>2. \A m \in Node : loop'[m] \in Payload => loop'[m] = loop[m]
    BY <1>16, Disjoint DEF WriteFails, Crash, TypeOK
  <2>3. \A m \in Node : mailbox'[m] = mailbox[m] \/ mailbox'[m] = <<>>
    BY <1>16 DEF WriteFails, Crash, TypeOK
  <2>4. MailKept
    BY <2>3 DEF PayloadsAreSound, MailKept
  <2> QED
    BY <1>3, <1>4, <2>1, <2>2, <2>4
<1>17. ASSUME NEW n \in Node, LookupFails(n)
      PROVE  PayloadsAreSound'
  BY <1>3, <1>4, <1>6, <1>17 DEF LookupFails
<1>18. ASSUME \/ \E o \in Offers : OfferArtifact(o)
              \/ \E n \in Node : StoreOutgoing(n)
              \/ UNCHANGED vars
       PROVE  PayloadsAreSound'
  BY <1>3, <1>4, <1>18 DEF OfferArtifact, StoreOutgoing, vars, process
<1> QED
  BY <1>7, <1>8, <1>9, <1>10, <1>11, <1>12, <1>13, <1>14, <1>15, <1>16, <1>17, <1>18
     DEF Next, OfferTask, Receive

-----------------------------------------------------------------------------
\* Stores

\* The next step of a store is of the same bytes, for the same artifact.
LEMMA FollowingKeeps ==
  ASSUME NEW n \in Node
  PROVE  /\ \A w \in SoundIncoming(n) : Following(w) \in SoundIncoming(n)
         /\ \A w \in SoundOutgoing(n) : Following(w) \in SoundOutgoing(n)
<1>1. \A w \in Writer : /\ Following(w) \in Writer
                        /\ Following(w).artifact = w.artifact
                        /\ Following(w).bytes = w.bytes
                        /\ Following(w).peer = w.peer
  BY DEF Following, Writer
<1> QED
  BY <1>1 DEF SoundIncoming, SoundOutgoing

\* A store starts from the owner's file or from a payload that was checked.
LEMMA StoreStep ==
  ASSUME IInv, [Next]_vars, Kept
  PROVE  StoresAreSound'
<1> USE DEF IInv
<1>1. \A n \in Node : /\ SoundIncoming(n) \subseteq SoundIncoming(n)'
                      /\ SoundOutgoing(n) \subseteq SoundOutgoing(n)'
  BY SoundStays
<1> DEFINE LoopKept == \A n \in Node : loop'[n] \in Writer => loop'[n] \in SoundIncoming(n)
           TaskKept == \A n \in Node : task'[n] # None => task'[n] \in SoundOutgoing(n)'
<1>2. /\ (\A n \in Node : loop'[n] \in Writer => loop'[n] = loop[n]) => LoopKept
      /\ (\A n \in Node : task'[n] # None => task'[n] = task[n]) => TaskKept
      /\ loop' = loop => LoopKept
      /\ task' = task => TaskKept
  BY <1>1 DEF StoresAreSound
<1>3. LoopKept /\ TaskKept => StoresAreSound'
  BY <1>1 DEF StoresAreSound
<1> HIDE DEF LoopKept, TaskKept
<1>4. ASSUME NEW o \in Offers, OfferArtifact(o)
      PROVE  StoresAreSound'
  <2>1. o[1] \in Node /\ o[2] \in Artifact /\ o[3] \in Node
    BY ArtifactsAssumption
  <2>2. [artifact |-> o[2], bytes |-> "whole", peer |-> o[3], at |-> "blob"]
          \in SoundOutgoing(o[1])'
    BY <1>4, <2>1 DEF OfferArtifact, SoundOutgoing, Writer, Content
  <2>3. ASSUME NEW n \in Node, task'[n] # None
        PROVE  task'[n] \in SoundOutgoing(n)'
    <3>1. CASE n = o[1]
      <4>1. task'[n] = [artifact |-> o[2], bytes |-> "whole", peer |-> o[3], at |-> "blob"]
        BY <1>4, <2>1, <3>1 DEF OfferArtifact, TypeOK
      <4> QED
        BY <2>2, <3>1, <4>1
    <3>2. CASE n # o[1]
      BY <1>1, <1>4, <2>1, <2>3, <3>2 DEF OfferArtifact, TypeOK, StoresAreSound
    <3> QED
      BY <3>1, <3>2
  <2> QED
    BY <1>2, <1>3, <1>4, <2>3 DEF OfferArtifact, TaskKept
<1>5. ASSUME NEW n \in Node, StoreOutgoing(n)
      PROVE  StoresAreSound'
  <2>1. task[n] \in SoundOutgoing(n)
    BY <1>5 DEF StoreOutgoing, StoresAreSound
  <2>2. Following(task[n]) \in SoundOutgoing(n)'
    BY <1>1, <2>1, FollowingKeeps
  <2>3. TaskKept
    BY <1>1, <1>5, <2>2 DEF StoreOutgoing, TypeOK, StoresAreSound, TaskKept
  <2> QED
    BY <1>2, <1>3, <1>5, <2>3 DEF StoreOutgoing
<1>6. ASSUME NEW n \in Node, AnnounceOffer(n)
      PROVE  StoresAreSound'
  <2>1. \A m \in Node : task'[m] # None => task'[m] = task[m]
    BY <1>6 DEF AnnounceOffer, TypeOK
  <2> QED
    BY <1>2, <1>3, <1>6, <2>1 DEF AnnounceOffer
<1>7. ASSUME NEW m \in sent, ReceiveFetch(m)
      PROVE  StoresAreSound'
  <2>1. m \in Fetch
    BY <1>7 DEF ReceiveFetch, TypeOK, Message, Offer, Payload
  <2>2. ASSUME NEW n \in Node, loop'[n] \in Writer
        PROVE  loop'[n] = loop[n]
    <3>1. \/ loop'[n] = loop[n]
          \/ loop'[n] = [kind |-> "payload", from |-> m.to, to |-> m.from,
               artifact |-> m.artifact, cap |-> Exchange, id |-> m.id,
               digest |-> manifest[m.to][m.artifact], bytes |-> blob[m.to][m.artifact]]
      BY <1>7, <2>1 DEF ReceiveFetch, TypeOK, Fetch
    <3> QED
      BY <2>2, <3>1 DEF Writer
  <2> QED
    BY <1>2, <1>3, <1>7, <2>2 DEF ReceiveFetch
<1>8. ASSUME NEW n \in Node, QueueReply(n)
      PROVE  StoresAreSound'
  <2>1. \A m \in Node : loop'[m] \in Writer => loop'[m] = loop[m]
    BY <1>8, Disjoint DEF QueueReply, TypeOK
  <2> QED
    BY <1>2, <1>3, <1>8, <2>1 DEF QueueReply
<1>9. ASSUME NEW m \in sent, ReceivePayload(m)
      PROVE  StoresAreSound'
  <2>1. m \in Payload /\ m \in SoundPayload /\ m \in outbox[m.from]
    BY <1>9 DEF ReceivePayload, TypeOK, Message, Offer, Fetch, PayloadsAreSound, SoundFrom
  <2>2. ASSUME Storable(m)
        PROVE  [artifact |-> m.artifact, bytes |-> m.bytes, peer |-> m.from, at |-> "blob"]
                 \in SoundIncoming(m.to)
    <3>1. m.to \in Node /\ m.from \in Node /\ m.kind = "payload"
      BY <2>1 DEF Payload
    <3>2. ASSUME m.id # 0
          PROVE  AdmittedWay(m.to, m.artifact)
      <4>1. PICK f \in outbox[m.to] : /\ f.kind = "fetch" /\ f.artifact = m.artifact
                                    /\ f.to = m.from /\ Admits(f.to, m.to, f.cap)
        BY <2>1, <3>2 DEF SoundPayload, Answers
      <4>2. blob[f.to][m.artifact] # None
        BY <2>1, <3>2, <4>1 DEF SoundPayload, Answers
      <4> QED
        BY <4>1, <4>2 DEF AdmittedWay
    <3>3. ASSUME m.id = 0
          PROVE  AdmittedWay(m.to, m.artifact)
      <4>1. ASSUME NEW f \in outbox[m.to], f.kind = "fetch"
            PROVE  f.id # 0
        <5>1. f \in Fetch
          BY <3>1, <4>1 DEF TypeOK, Message, Offer, Fetch, Payload
        <5> QED
          BY <5>1, ArtifactsAssumption DEF Fetch
      <4>2. Admits(m.to, m.from, m.cap)
        BY <2>2, <3>3, <4>1 DEF Storable, Solicited, HasGrant, Admits
      <4> QED
        BY <2>1, <3>1, <3>3, <4>2 DEF AdmittedWay
    <3>4. AdmittedWay(m.to, m.artifact)
      BY <3>2, <3>3
    <3>5. m.bytes = "whole"
      BY <2>1, <2>2 DEF Storable, SoundPayload
    <3> QED
      BY <2>1, <3>4, <3>5 DEF SoundIncoming, Payload, Writer
  <2>3. m.to \in Node
    BY <2>1 DEF Payload
  <2>4. LoopKept
    BY <1>9, <2>2, <2>3 DEF ReceivePayload, TypeOK, StoresAreSound, LoopKept
  <2> QED
    BY <1>2, <1>3, <1>9, <2>4 DEF ReceivePayload
<1>10. ASSUME NEW n \in Node, StoreIncoming(n)
      PROVE  StoresAreSound'
  <2>1. Following(loop[n]) \in SoundIncoming(n)
    BY <1>10, FollowingKeeps DEF StoreIncoming, StoresAreSound
  <2>2. LoopKept
    BY <1>10, <2>1, Disjoint DEF StoreIncoming, TypeOK, StoresAreSound, LoopKept
  <2> QED
    BY <1>2, <1>3, <1>10, <2>2 DEF StoreIncoming
<1>11. ASSUME NEW n \in Node, WriteFails(n) \/ Crash(n)
      PROVE  StoresAreSound'
  <2>1. \A m \in Node : loop'[m] \in Writer => loop'[m] = loop[m]
    BY <1>11, Disjoint DEF WriteFails, Crash, TypeOK
  <2>2. \A m \in Node : task'[m] # None => task'[m] = task[m]
    BY <1>11 DEF WriteFails, Crash, TypeOK
  <2> QED
    BY <1>2, <1>3, <2>1, <2>2
<1>12. ASSUME UNCHANGED <<loop, task>>
       PROVE  StoresAreSound'
  BY <1>2, <1>3, <1>12
<1> QED
  BY <1>4, <1>5, <1>6, <1>7, <1>8, <1>9, <1>10, <1>11, <1>12
     DEF Next, OfferTask, Receive, FetchArtifact, PushPayload, HandleCommand, ReceiveOffer,
         LookupFails, vars, process

-----------------------------------------------------------------------------
\* The files

\* A write of a sound store vouches for no torn bytes, and its blob has come an
\* admitted way.
LEMMA FileStep ==
  ASSUME IInv, [Next]_vars, Kept
  PROVE  DamageIsContained' /\ CopyIsAdmitted'
<1> USE DEF IInv
<1>1. \A n \in Node, x \in Artifact : AdmittedWay(n, x) => AdmittedWay(n, x)'
  BY WayStays
<1>2. ASSUME NEW n \in Node, NEW w \in Writer, Written(n, w), w.bytes = "whole",
             AdmittedWay(n, w.artifact)
      PROVE  DamageIsContained' /\ CopyIsAdmitted'
  <2>1. DamageIsContained'
    BY <1>2, WrittenKeeps DEF DamageIsContained
  <2>2. ASSUME NEW m \in Node, NEW x \in Artifact, blob'[m][x] # None
        PROVE  AdmittedWay(m, x)'
    <3>1. CASE blob[m][x] # None
      BY <1>1, <3>1 DEF CopyIsAdmitted
    <3>2. CASE blob[m][x] = None
      BY <1>1, <1>2, <2>2, <3>2, WrittenKeeps
    <3> QED
      BY <3>1, <3>2
  <2> QED
    BY <2>1, <2>2 DEF CopyIsAdmitted
<1>3. ASSUME NEW n \in Node, StoreOutgoing(n)
      PROVE  DamageIsContained' /\ CopyIsAdmitted'
  <2>1. task[n] \in SoundOutgoing(n)
    BY <1>3 DEF StoreOutgoing, StoresAreSound
  <2> QED
    BY <1>2, <1>3, <2>1 DEF StoreOutgoing, SoundOutgoing, AdmittedWay
<1>4. ASSUME NEW n \in Node, StoreIncoming(n)
      PROVE  DamageIsContained' /\ CopyIsAdmitted'
  <2>1. loop[n] \in SoundIncoming(n)
    BY <1>4 DEF StoreIncoming, StoresAreSound
  <2> QED
    BY <1>2, <1>4, <2>1 DEF StoreIncoming, SoundIncoming
<1>5. ASSUME UNCHANGED <<blob, manifest>>
      PROVE  DamageIsContained' /\ CopyIsAdmitted'
  <2>1. DamageIsContained'
    BY <1>5 DEF DamageIsContained
  <2>2. CopyIsAdmitted'
    BY <1>1, <1>5 DEF CopyIsAdmitted
  <2> QED
    BY <2>1, <2>2
<1> QED
  BY <1>3, <1>4, <1>5
     DEF Next, OfferTask, Receive, OfferArtifact, AnnounceOffer, FetchArtifact, PushPayload,
         HandleCommand, ReceiveOffer, ReceiveFetch, QueueReply, ReceivePayload, WriteFails, LookupFails,
         Crash, vars, disk

-----------------------------------------------------------------------------
\* The theorems

\* The invariant holds at the start and every step preserves it.
LEMMA Invariance == Spec => []IInv
<1>1. Init => IInv
  <2> SUFFICES ASSUME Init PROVE IInv
    OBVIOUS
  <2>1. TypeOK
    <3>1. <<>> \in Seq(Message) /\ Len(<<>>) = 0
      OBVIOUS
    <3> QED
      BY <3>1, ArtifactsAssumption DEF Init, TypeOK, Manifest, Content
  <2>2. PayloadsAreSound /\ StoresAreSound
    BY Disjoint DEF Init, PayloadsAreSound, StoresAreSound
  <2>3. DamageIsContained /\ CopyIsAdmitted
    BY Disjoint DEF Init, DamageIsContained, CopyIsAdmitted, AdmittedWay, Content
  <2> QED
    BY <2>1, <2>2, <2>3 DEF IInv
<1>2. IInv /\ [Next]_vars => IInv'
  <2> SUFFICES ASSUME IInv, [Next]_vars PROVE IInv'
    OBVIOUS
  <2>1. TypeOK' /\ Kept
    BY TypeStep, KeptStep DEF IInv
  <2> QED
    BY <2>1, PayloadStep, StoreStep, FileStep DEF IInv
<1> QED
  BY <1>1, <1>2, PTL DEF Spec

\* Type correctness: no sequence of API calls, deliveries, failed writes and
\* crashes takes a variable out of its type.
THEOREM TypeCorrect == Spec => []TypeOK
<1>1. IInv => TypeOK
  BY DEF IInv
<1> QED
  BY <1>1, Invariance, PTL

\* No manifest of any daemon ever vouches for the bytes that an interrupted
\* write left somewhere (store_artifact_payload compares digests before it stores).
THEOREM DamageStaysLocal == Spec => []DamageIsContained
<1>1. IInv => DamageIsContained
  BY DEF IInv
<1> QED
  BY <1>1, Invariance, PTL

\* Every blob was offered by its daemon, fetched by it with a label that a holder
\* admits, or sent to it by hand with a label it admits itself (the policy of
\* accept_inbound_envelope, matches_reply_context).
THEOREM CopiesAreAdmitted == Spec => []CopyIsAdmitted
<1>1. IInv => CopyIsAdmitted
  BY DEF IInv
<1> QED
  BY <1>1, Invariance, PTL

-----------------------------------------------------------------------------
\* Offers

\* The stores in progress on n.
Stores(n) == {loop[n], task[n]} \cap Writer

\* A store has written what precedes the write it is about to do.
FilesFollow ==
  \A n \in Node : \A w \in Stores(n) :
    /\ w.at # "blob" => blob[n][w.artifact] # None
    /\ w.at \in {"record", "announce"} => manifest[n][w.artifact] # None

\* As long as nothing fails, a file is incomplete only between the truncation and
\* the write of a store in progress.
DamageIsPassing ==
  faults = 0 =>
    \A n \in Node, x \in Artifact :
      /\ blob[n][x] = "torn" => \E w \in Stores(n) : w.artifact = x /\ w.at = "fill"
      /\ manifest[n][x] = "unreadable" => \E w \in Stores(n) : w.artifact = x /\ w.at = "record"

\* n offered x and has both files of it.
Backed(n, x) ==
  /\ blob[n][x] # None
  /\ manifest[n][x] # None
  /\ \E o \in offered : o[1] = n /\ o[2] = x

BackedOffer == {m \in Offer : Backed(m.from, m.artifact)}

OffersAreBacked ==
  /\ \A m \in sent : m \in Offer => m \in BackedOffer
  /\ \A n \in Node : \A i \in 1..Len(mailbox[n]) :
       mailbox[n][i] \in Offer => mailbox[n][i] \in BackedOffer
  /\ \A p \in Node : \A x \in inbox[p] : \E n \in Node : Backed(n, x)

OfferInv == FilesFollow /\ DamageIsPassing /\ OffersAreBacked

\* A write changes the two files of its artifact only, as its stage says
\* (fs::write in store_artifact_bytes_with_id).
LEMMA WrittenFiles ==
  ASSUME TypeOK, NEW n \in Node, NEW w \in Writer, Written(n, w)
  PROVE  /\ \A m \in Node, x \in Artifact :
              m # n \/ x # w.artifact =>
                blob'[m][x] = blob[m][x] /\ manifest'[m][x] = manifest[m][x]
         /\ blob'[n][w.artifact] = CASE w.at = "blob" -> "torn" [] w.at = "fill" -> w.bytes
                                     [] OTHER -> blob[n][w.artifact]
         /\ manifest'[n][w.artifact] = CASE w.at = "manifest" -> "unreadable"
                                         [] w.at = "record" -> w.bytes
                                         [] OTHER -> manifest[n][w.artifact]
<1>1. w.artifact \in Artifact
  BY DEF Writer
<1> QED
  BY <1>1 DEF Written, TypeOK

\* No file is taken for missing.
LEMMA Present ==
  ASSUME NEW w \in Writer
  PROVE  w.bytes # None /\ "torn" # None /\ "unreadable" # None
  BY NoneAssumption DEF Writer, Content

\* Manifests are not removed either.
LEMMA WrittenKeepsManifest ==
  ASSUME TypeOK, NEW n \in Node, NEW w \in Writer, Written(n, w)
  PROVE  \A m \in Node, x \in Artifact : manifest[m][x] # None => manifest'[m][x] # None
<1>1. ASSUME NEW m \in Node, NEW x \in Artifact, manifest[m][x] # None
      PROVE  manifest'[m][x] # None
  <2>1. CASE m = n /\ x = w.artifact
    BY <1>1, <2>1, WrittenFiles, Present
  <2>2. CASE m # n \/ x # w.artifact
    BY <1>1, <2>2, WrittenFiles
  <2> QED
    BY <2>1, <2>2
<1> QED
  BY <1>1

\* No step removes one.
LEMMA ManifestKept ==
  ASSUME TypeOK, [Next]_vars
  PROVE  \A n \in Node, x \in Artifact : manifest[n][x] # None => manifest'[n][x] # None
<1>1. ASSUME NEW n \in Node, StoreOutgoing(n) \/ StoreIncoming(n)
      PROVE  \A m \in Node, x \in Artifact : manifest[m][x] # None => manifest'[m][x] # None
  <2>1. \E w \in Writer : Written(n, w)
    BY <1>1 DEF StoreOutgoing, StoreIncoming, TypeOK
  <2> QED
    BY <2>1, WrittenKeepsManifest
<1>2. \/ \E n \in Node : StoreOutgoing(n) \/ StoreIncoming(n)
      \/ manifest' = manifest
  BY DEF Next, OfferTask, Receive, OfferArtifact, AnnounceOffer, FetchArtifact, PushPayload,
     HandleCommand, ReceiveOffer, ReceiveFetch, QueueReply, ReceivePayload, WriteFails, LookupFails,
     Crash, vars, disk
<1> QED
  BY <1>1, <1>2

\* What is backed stays so.
LEMMA BackedStays ==
  ASSUME TypeOK, [Next]_vars, NEW n \in Node, NEW x \in Artifact, Backed(n, x)
  PROVE  Backed(n, x)'
  BY KeptStep, ManifestKept DEF Backed, Kept

\* The writes of a store w on n: the others go on, w reaches its next write or is
\* done, and every file is complete or about to be completed.
LEMMA WriteStep ==
  ASSUME IInv, FilesFollow, DamageIsPassing, NEW n \in Node, NEW w \in Stores(n), Written(n, w),
         w.bytes = "whole", faults' = faults,
         \A m \in Node : m # n => Stores(m)' = Stores(m),
         \A v \in Stores(n)' : v = Following(w) \/ v \in Stores(n),
         \A v \in Stores(n) : v = w \/ v \in Stores(n)',
         w.at \in {"blob", "manifest"} => Following(w) \in Stores(n)'
  PROVE  FilesFollow' /\ DamageIsPassing'
<1> USE DEF IInv
<1>1. w \in Writer /\ w.artifact \in Artifact
  BY DEF Stores, Writer
<1>2. /\ Following(w).artifact = w.artifact
      /\ w.at = "blob" => Following(w).at = "fill"
      /\ w.at = "fill" => Following(w).at = "manifest"
      /\ w.at = "manifest" => Following(w).at = "record"
      /\ w.at \in {"blob", "fill", "manifest", "record", "announce"}
  BY <1>1 DEF Following, Writer
<1>3. \A m \in Node, x \in Artifact :
        /\ blob[m][x] # None => blob'[m][x] # None
        /\ manifest[m][x] # None => manifest'[m][x] # None
  BY <1>1, WrittenKeeps, WrittenKeepsManifest
<1>4. ASSUME NEW m \in Node, NEW v, v \in Stores(m)'
      PROVE  /\ v.at # "blob" => blob'[m][v.artifact] # None
             /\ v.at \in {"record", "announce"} => manifest'[m][v.artifact] # None
  <2>1. CASE v \in Stores(m)
    <3>1. v.artifact \in Artifact
      BY <2>1 DEF Stores, Writer
    <3> QED
      BY <1>3, <2>1, <3>1 DEF FilesFollow
  <2>2. CASE m = n /\ v = Following(w)
    <3>1. /\ w.at \notin {"blob", "fill"} => blob[n][w.artifact] # None
          /\ w.at \in {"record", "announce"} => manifest[n][w.artifact] # None
      BY DEF FilesFollow
    <3>2. blob'[n][w.artifact] # None
      BY <1>1, <3>1, WrittenFiles, Present
    <3>3. w.at \in {"manifest", "record", "announce"} => manifest'[n][w.artifact] # None
      BY <1>1, <3>1, WrittenFiles, Present
    <3> QED
      BY <1>2, <2>2, <3>2, <3>3
  <2> QED
    BY <1>4, <2>1, <2>2
<1>5. FilesFollow'
  BY <1>4 DEF FilesFollow
<1>6. ASSUME faults' = 0, NEW m \in Node, NEW x \in Artifact, blob'[m][x] = "torn"
      PROVE  \E v \in Stores(m)' : v.artifact = x /\ v.at = "fill"
  <2>1. CASE m = n /\ x = w.artifact
    <3>1. CASE w.at = "blob"
      BY <1>2, <2>1, <3>1
    <3>2. CASE w.at # "blob"
      <4>1. w.at # "fill" /\ blob[n][x] = "torn"
        BY <1>1, <1>6, <2>1, <3>2, WrittenFiles
      <4>2. PICK v \in Stores(n) : v.artifact = x /\ v.at = "fill"
        BY <1>6, <2>1, <4>1 DEF DamageIsPassing
      <4> QED
        BY <2>1, <4>1, <4>2
    <3> QED
      BY <3>1, <3>2
  <2>2. CASE m # n \/ x # w.artifact
    <3>1. blob[m][x] = "torn"
      BY <1>1, <1>6, <2>2, WrittenFiles
    <3>2. PICK v \in Stores(m) : v.artifact = x /\ v.at = "fill"
      BY <1>6, <3>1 DEF DamageIsPassing
    <3> QED
      BY <2>2, <3>2
  <2> QED
    BY <2>1, <2>2
<1>7. ASSUME faults' = 0, NEW m \in Node, NEW x \in Artifact, manifest'[m][x] = "unreadable"
      PROVE  \E v \in Stores(m)' : v.artifact = x /\ v.at = "record"
  <2>1. CASE m = n /\ x = w.artifact
    <3>1. CASE w.at = "manifest"
      BY <1>2, <2>1, <3>1
    <3>2. CASE w.at # "manifest"
      <4>1. w.at # "record" /\ manifest[n][x] = "unreadable"
        BY <1>1, <1>7, <2>1, <3>2, WrittenFiles
      <4>2. PICK v \in Stores(n) : v.artifact = x /\ v.at = "record"
        BY <1>7, <2>1, <4>1 DEF DamageIsPassing
      <4> QED
        BY <2>1, <4>1, <4>2
    <3> QED
      BY <3>1, <3>2
  <2>2. CASE m # n \/ x # w.artifact
    <3>1. manifest[m][x] = "unreadable"
      BY <1>1, <1>7, <2>2, WrittenFiles
    <3>2. PICK v \in Stores(m) : v.artifact = x /\ v.at = "record"
      BY <1>7, <3>1 DEF DamageIsPassing
    <3> QED
      BY <2>2, <3>2
  <2> QED
    BY <2>1, <2>2
<1>8. DamageIsPassing'
  BY <1>6, <1>7 DEF DamageIsPassing
<1> QED
  BY <1>5, <1>8

\* While no file is written, stores only begin, or end with both files written.
LEMMA RestStep ==
  ASSUME FilesFollow, DamageIsPassing, UNCHANGED <<blob, manifest>>,
         faults' = faults \/ faults' # 0,
         \A n \in Node : \A w \in Stores(n)' : w \in Stores(n) \/ w.at = "blob",
         faults' = faults =>
           \A n \in Node : \A w \in Stores(n) : w \in Stores(n)' \/ w.at = "announce"
  PROVE  FilesFollow' /\ DamageIsPassing'
<1>1. FilesFollow'
  BY DEF FilesFollow
<1>2. ASSUME faults' = 0, NEW n \in Node, NEW x \in Artifact, blob'[n][x] = "torn"
      PROVE  \E w \in Stores(n)' : w.artifact = x /\ w.at = "fill"
  <2>1. PICK w \in Stores(n) : w.artifact = x /\ w.at = "fill"
    BY <1>2 DEF DamageIsPassing
  <2> QED
    BY <1>2, <2>1
<1>3. ASSUME faults' = 0, NEW n \in Node, NEW x \in Artifact, manifest'[n][x] = "unreadable"
      PROVE  \E w \in Stores(n)' : w.artifact = x /\ w.at = "record"
  <2>1. PICK w \in Stores(n) : w.artifact = x /\ w.at = "record"
    BY <1>3 DEF DamageIsPassing
  <2> QED
    BY <1>3, <2>1
<1>4. DamageIsPassing'
  BY <1>2, <1>3 DEF DamageIsPassing
<1> QED
  BY <1>1, <1>4

\* Every step keeps the files in step with the stores.
LEMMA StoringStep ==
  ASSUME IInv, FilesFollow, DamageIsPassing, [Next]_vars
  PROVE  FilesFollow' /\ DamageIsPassing'
<1> USE DEF IInv
<1>1. ASSUME NEW n \in Node, StoreOutgoing(n)
      PROVE  FilesFollow' /\ DamageIsPassing'
  <2> DEFINE w == task[n]
  <2>1. w \in Writer /\ w \in Stores(n) /\ w.bytes = "whole"
    BY <1>1 DEF StoreOutgoing, Stores, StoresAreSound, SoundOutgoing
  <2>2. /\ Written(n, w) /\ faults' = faults
        /\ loop' = loop /\ task' = [task EXCEPT ![n] = Following(w)]
    BY <1>1 DEF StoreOutgoing, count
  <2>3. Following(w) \in Writer
    BY <2>1, <2>2, WrittenType
  <2>4. task'[n] = Following(w) /\ \A m \in Node : m # n => task'[m] = task[m]
    BY <2>2 DEF TypeOK
  <2>5. Stores(n)' = {loop[n], Following(w)} \cap Writer
    BY <2>2, <2>4 DEF Stores
  <2>6. \A m \in Node : m # n => Stores(m)' = Stores(m)
    BY <2>2, <2>4 DEF Stores
  <2>7. /\ \A v \in Stores(n)' : v = Following(w) \/ v \in Stores(n)
        /\ \A v \in Stores(n) : v = w \/ v \in Stores(n)'
        /\ Following(w) \in Stores(n)'
    BY <2>3, <2>5 DEF Stores
  <2> HIDE DEF w
  <2> QED
    BY <2>1, <2>2, <2>6, <2>7, WriteStep
<1>2. ASSUME NEW n \in Node, StoreIncoming(n)
      PROVE  FilesFollow' /\ DamageIsPassing'
  <2> DEFINE w == loop[n]
  <2>1. w \in Writer /\ w \in Stores(n) /\ w.bytes = "whole"
    BY <1>2 DEF StoreIncoming, Stores, StoresAreSound, SoundIncoming
  <2>2. /\ Written(n, w) /\ faults' = faults /\ task' = task
        /\ loop' = [loop EXCEPT ![n] = IF w.at = "record" THEN None ELSE Following(w)]
    BY <1>2 DEF StoreIncoming, count
  <2>3. Following(w) \in Writer /\ None \notin Writer
    BY <2>1, <2>2, WrittenType, Disjoint
  <2>4. /\ loop'[n] = IF w.at = "record" THEN None ELSE Following(w)
        /\ \A m \in Node : m # n => loop'[m] = loop[m]
    BY <2>2 DEF TypeOK
  <2>5. Stores(n)' = {IF w.at = "record" THEN None ELSE Following(w), task[n]} \cap Writer
    BY <2>2, <2>4 DEF Stores
  <2>6. \A m \in Node : m # n => Stores(m)' = Stores(m)
    BY <2>2, <2>4 DEF Stores
  <2>7. /\ \A v \in Stores(n)' : v = Following(w) \/ v \in Stores(n)
        /\ \A v \in Stores(n) : v = w \/ v \in Stores(n)'
        /\ w.at # "record" => Following(w) \in Stores(n)'
    BY <2>3, <2>5 DEF Stores
  <2> HIDE DEF w
  <2> QED
    BY <2>1, <2>2, <2>6, <2>7, WriteStep
<1>3. ASSUME NEW o \in Offers, OfferArtifact(o)
      PROVE  FilesFollow' /\ DamageIsPassing'
  <2> DEFINE w == [artifact |-> o[2], bytes |-> "whole", peer |-> o[3], at |-> "blob"]
  <2>1. w.at = "blob"
    OBVIOUS
  <2>2. /\ o[1] \in Node /\ task[o[1]] = None /\ loop' = loop
        /\ task' = [task EXCEPT ![o[1]] = w]
    BY <1>3, ArtifactsAssumption DEF OfferArtifact
  <2> HIDE DEF w
  <2>3. /\ \A n \in Node : \A v \in Stores(n)' : v \in Stores(n) \/ v.at = "blob"
        /\ \A n \in Node : \A v \in Stores(n) : v \in Stores(n)'
    BY <2>1, <2>2, Disjoint DEF Stores, TypeOK
  <2>4. UNCHANGED <<blob, manifest>> /\ faults' = faults
    BY <1>3 DEF OfferArtifact, disk
  <2> QED
    BY <2>3, <2>4, RestStep
<1>4. ASSUME NEW n \in Node, AnnounceOffer(n)
      PROVE  FilesFollow' /\ DamageIsPassing'
  <2>1. /\ task[n].at = "announce" /\ loop' = loop
        /\ task' = [task EXCEPT ![n] = None]
    BY <1>4 DEF AnnounceOffer
  <2>2. /\ \A m \in Node : \A v \in Stores(m)' : v \in Stores(m)
        /\ \A m \in Node : \A v \in Stores(m) : v \in Stores(m)' \/ v.at = "announce"
    BY <2>1, Disjoint DEF Stores, TypeOK
  <2>3. UNCHANGED <<blob, manifest>> /\ faults' = faults
    BY <1>4 DEF AnnounceOffer, disk, count
  <2> QED
    BY <2>2, <2>3, RestStep
<1>5. ASSUME NEW m \in sent, ReceivePayload(m)
      PROVE  FilesFollow' /\ DamageIsPassing'
  <2> DEFINE w == [artifact |-> m.artifact, bytes |-> m.bytes, peer |-> m.from, at |-> "blob"]
  <2>1. w.at = "blob"
    OBVIOUS
  <2>2. /\ loop[m.to] = None /\ task' = task
        /\ loop' = loop \/ loop' = [loop EXCEPT ![m.to] = w]
    BY <1>5 DEF ReceivePayload, Receives
  <2> HIDE DEF w
  <2>3. /\ \A n \in Node : \A v \in Stores(n)' : v \in Stores(n) \/ v.at = "blob"
        /\ \A n \in Node : \A v \in Stores(n) : v \in Stores(n)'
    BY <2>1, <2>2, Disjoint DEF Stores, TypeOK
  <2>4. UNCHANGED <<blob, manifest>> /\ faults' = faults
    BY <1>5 DEF ReceivePayload, disk, count
  <2> QED
    BY <2>3, <2>4, RestStep
<1>6. ASSUME NEW m \in sent, ReceiveFetch(m)
      PROVE  FilesFollow' /\ DamageIsPassing'
  <2> DEFINE w == [kind |-> "payload", from |-> m.to, to |-> m.from, artifact |-> m.artifact,
                   cap |-> Exchange, id |-> m.id, digest |-> manifest[m.to][m.artifact],
                   bytes |-> blob[m.to][m.artifact]]
  <2>1. w \notin Writer
    BY DEF Writer
  <2>2. /\ loop[m.to] = None /\ task' = task
        /\ loop' = loop \/ loop' = [loop EXCEPT ![m.to] = w]
    BY <1>6 DEF ReceiveFetch, Receives
  <2> HIDE DEF w
  <2>3. \A n \in Node : Stores(n)' = Stores(n)
    BY <2>1, <2>2, Disjoint DEF Stores, TypeOK
  <2>4. UNCHANGED <<blob, manifest>> /\ faults' = faults
    BY <1>6 DEF ReceiveFetch, disk, count
  <2> QED
    BY <2>3, <2>4, RestStep
<1>7. ASSUME NEW n \in Node, QueueReply(n)
      PROVE  FilesFollow' /\ DamageIsPassing'
  <2>1. loop[n] \notin Writer
    BY <1>7, Disjoint DEF QueueReply, Message, Offer, Fetch, Writer
  <2>2. task' = task /\ loop' = [loop EXCEPT ![n] = None]
    BY <1>7 DEF QueueReply
  <2>3. \A m \in Node : Stores(m)' = Stores(m)
    BY <2>1, <2>2, Disjoint DEF Stores, TypeOK
  <2>4. UNCHANGED <<blob, manifest>> /\ faults' = faults
    BY <1>7 DEF QueueReply, disk, count
  <2> QED
    BY <2>3, <2>4, RestStep
<1>8. ASSUME NEW n \in Node, WriteFails(n) \/ LookupFails(n) \/ Crash(n)
      PROVE  FilesFollow' /\ DamageIsPassing'
  <2>1. faults' # 0 /\ faults' # faults /\ UNCHANGED <<blob, manifest>>
    BY <1>8 DEF WriteFails, LookupFails, Crash, disk, TypeOK
  <2>2. \A m \in Node : /\ loop'[m] \in {loop[m], None}
                        /\ task'[m] \in {task[m], None}
    BY <1>8 DEF WriteFails, LookupFails, Crash, TypeOK
  <2>3. \A m \in Node : \A v \in Stores(m)' : v \in Stores(m)
    BY <2>2, Disjoint DEF Stores
  <2> QED
    BY <2>1, <2>3, RestStep
<1>9. ASSUME UNCHANGED <<blob, manifest, loop, task, faults>>
      PROVE  FilesFollow' /\ DamageIsPassing'
  <2>1. \A n \in Node : Stores(n)' = Stores(n)
    BY <1>9 DEF Stores
  <2> QED
    BY <1>9, <2>1, RestStep
<1>10. ASSUME \/ \E q \in Asks : FetchArtifact(q[1], q[2], q[3], q[4])
              \/ \E q \in Pushes : PushPayload(q[1], q[2], q[3], q[4])
              \/ \E n \in Node : HandleCommand(n)
              \/ \E m \in sent : ReceiveOffer(m)
              \/ UNCHANGED vars
       PROVE  UNCHANGED <<blob, manifest, loop, task, faults>>
  BY <1>10 DEF FetchArtifact, PushPayload, HandleCommand, ReceiveOffer, vars, disk, process, count
<1> QED
  BY <1>1, <1>2, <1>3, <1>4, <1>5, <1>6, <1>7, <1>8, <1>9, <1>10 DEF Next, OfferTask, Receive

\* Every offer that is queued, sent or received is backed.
LEMMA OffersStep ==
  ASSUME IInv, FilesFollow, OffersAreBacked, [Next]_vars
  PROVE  OffersAreBacked'
<1> USE DEF IInv
<1> DEFINE SentKept == \A m \in sent' : m \in Offer => m \in BackedOffer
           MailKept == \A n \in Node : \A i \in 1..Len(mailbox'[n]) :
                         mailbox'[n][i] \in Offer => mailbox'[n][i] \in BackedOffer
           InboxKept == \A p \in Node : \A x \in inbox'[p] : \E n \in Node : Backed(n, x)
<1>1. \A n \in Node, x \in Artifact : Backed(n, x) => Backed(n, x)'
  BY BackedStays
<1>2. BackedOffer \subseteq BackedOffer'
  BY <1>1 DEF BackedOffer, Offer
<1>3. ASSUME SentKept, MailKept, InboxKept
      PROVE  OffersAreBacked'
  <2>1. \A p \in Node : \A x \in inbox'[p] : x \in Artifact
    BY TypeStep DEF TypeOK
  <2>2. \A p \in Node : \A x \in inbox'[p] : \E n \in Node : Backed(n, x)'
    BY <1>1, <1>3, <2>1
  <2> QED
    BY <1>2, <1>3, <2>2 DEF OffersAreBacked
<1>4. /\ sent' \subseteq sent => SentKept
      /\ mailbox' = mailbox => MailKept
      /\ inbox' = inbox => InboxKept
  BY DEF OffersAreBacked
<1>5. ASSUME NEW n \in Node, NEW command \in Message, Enqueue(n, command),
             command \in Offer => command \in BackedOffer
      PROVE  MailKept
  BY <1>5, Enqueued DEF OffersAreBacked
<1> HIDE DEF SentKept, MailKept, InboxKept
<1>6. ASSUME NEW n \in Node, AnnounceOffer(n)
      PROVE  OffersAreBacked'
  <2> DEFINE m == [kind |-> "offer", from |-> n, to |-> task[n].peer, artifact |-> task[n].artifact]
  <2>1. /\ task[n] \in Writer /\ task[n].at = "announce"
        /\ \E o \in offered : o[1] = n /\ o[2] = task[n].artifact
    BY <1>6 DEF AnnounceOffer, StoresAreSound, SoundOutgoing
  <2>2. Backed(n, task[n].artifact)
    BY <2>1 DEF Backed, FilesFollow, Stores
  <2>3. m \in Offer /\ m.from = n /\ m.artifact = task[n].artifact
    BY <2>1 DEF Offer, Writer
  <2>4. Enqueue(n, m) \/ mailbox' = mailbox
    BY <1>6 DEF AnnounceOffer
  <2>5. UNCHANGED <<sent, inbox>>
    BY <1>6 DEF AnnounceOffer, disk
  <2> HIDE DEF m
  <2>6. m \in BackedOffer
    BY <2>2, <2>3 DEF BackedOffer
  <2>7. MailKept
    BY <1>4, <1>5, <2>3, <2>4, <2>6 DEF Message
  <2> QED
    BY <1>3, <1>4, <2>5, <2>7
<1>7. ASSUME NEW q \in Asks, FetchArtifact(q[1], q[2], q[3], q[4])
      PROVE  OffersAreBacked'
  <2>1. q[1] \in Node /\ q[2] \in Node /\ q[3] \in Artifact /\ q[4] \in Label \cup {None}
    BY ArtifactsAssumption
  <2>2. fetches' \in 1..MaxFetches
    BY <1>7, ArtifactsAssumption DEF FetchArtifact, TypeOK
  <2>3. [kind |-> "fetch", from |-> q[1], to |-> q[2], artifact |-> q[3], cap |-> q[4],
         id |-> fetches'] \in Fetch \ Offer
    BY <2>1, <2>2 DEF Fetch, Offer
  <2>4. MailKept
    BY <1>5, <1>7, <2>1, <2>3 DEF FetchArtifact, Message
  <2> QED
    BY <1>3, <1>4, <1>7, <2>4 DEF FetchArtifact, disk
<1>8. ASSUME NEW q \in Pushes, PushPayload(q[1], q[2], q[3], q[4])
      PROVE  OffersAreBacked'
  <2>1. q[1] \in Node /\ q[2] \in Node /\ q[3] \in Artifact /\ q[4] \in Label \cup {None}
    BY ArtifactsAssumption
  <2>2. [kind |-> "payload", from |-> q[1], to |-> q[2], artifact |-> q[3], cap |-> q[4],
         id |-> 0, digest |-> "whole", bytes |-> "whole"] \in Payload
    BY <2>1, ArtifactsAssumption DEF Payload, Content
  <2>3. MailKept
    BY <1>5, <1>8, <2>1, <2>2, Disjoint DEF PushPayload, Message
  <2> QED
    BY <1>3, <1>4, <1>8, <2>3 DEF PushPayload, disk
<1>9. ASSUME NEW n \in Node, HandleCommand(n)
      PROVE  OffersAreBacked'
  <2>1. /\ \A m \in Node : \A i \in 1..Len(mailbox'[m]) :
             \E j \in 1..Len(mailbox[m]) : mailbox'[m][i] = mailbox[m][j]
        /\ 1 \in 1..Len(mailbox[n]) /\ Head(mailbox[n]) = mailbox[n][1]
    BY <1>9, Dequeued DEF HandleCommand
  <2>2. sent' \subseteq sent \cup {mailbox[n][1]} /\ inbox' = inbox
    BY <1>9, <2>1 DEF HandleCommand
  <2>3. SentKept
    BY <2>1, <2>2 DEF OffersAreBacked, SentKept
  <2>4. MailKept
    BY <2>1 DEF OffersAreBacked, MailKept
  <2> QED
    BY <1>3, <1>4, <2>2, <2>3, <2>4
<1>10. ASSUME NEW m \in sent, ReceiveOffer(m)
       PROVE  OffersAreBacked'
  <2>1. m \in Offer
    BY <1>10 DEF ReceiveOffer, TypeOK, Message, Fetch, Payload
  <2>2. m.from \in Node /\ m.to \in Node /\ Backed(m.from, m.artifact)
    BY <2>1 DEF OffersAreBacked, BackedOffer, Offer
  <2>3. \A p \in Node : \A x \in inbox'[p] : x \in inbox[p] \/ x = m.artifact
    BY <1>10, <2>2 DEF ReceiveOffer, TypeOK
  <2>4. InboxKept
    BY <2>2, <2>3 DEF OffersAreBacked, InboxKept
  <2> QED
    BY <1>3, <1>4, <1>10, <2>4 DEF ReceiveOffer, Receives, process
<1>11. ASSUME NEW m \in sent, ReceiveFetch(m) \/ ReceivePayload(m)
       PROVE  OffersAreBacked'
  BY <1>3, <1>4, <1>11 DEF ReceiveFetch, ReceivePayload, Receives, disk
<1>12. ASSUME NEW n \in Node, QueueReply(n)
       PROVE  OffersAreBacked'
  <2>1. loop[n] \in Message /\ loop[n] \in Payload
    <3>1. loop[n] \in Message /\ loop[n] \notin Writer /\ loop[n] # None
      BY <1>12, Disjoint, NoneAssumption DEF QueueReply, Message, Offer, Fetch, Writer
    <3> QED
      BY <3>1 DEF TypeOK
  <2>2. MailKept
    BY <1>5, <1>12, <2>1, Disjoint DEF QueueReply
  <2> QED
    BY <1>3, <1>4, <1>12, <2>2 DEF QueueReply, disk
<1>13. ASSUME NEW n \in Node, WriteFails(n) \/ Crash(n)
       PROVE  OffersAreBacked'
  <2>1. sent' \subseteq sent /\ inbox' = inbox
    BY <1>13 DEF WriteFails, Crash, disk
  <2>2. \A m \in Node : mailbox'[m] = mailbox[m] \/ mailbox'[m] = <<>>
    BY <1>13 DEF WriteFails, Crash, TypeOK
  <2>3. MailKept
    BY <2>2 DEF OffersAreBacked, MailKept
  <2> QED
    BY <1>3, <1>4, <2>1, <2>3
<1>14. ASSUME NEW n \in Node, LookupFails(n)
       PROVE  OffersAreBacked'
  <2>1. \A m \in Node : \A i \in 1..Len(mailbox'[m]) :
          \E j \in 1..Len(mailbox[m]) : mailbox'[m][i] = mailbox[m][j]
    BY <1>14, Dequeued DEF LookupFails
  <2>2. MailKept
    BY <2>1 DEF OffersAreBacked, MailKept
  <2> QED
    BY <1>3, <1>4, <1>14, <2>2 DEF LookupFails, disk
<1>15. ASSUME UNCHANGED <<sent, mailbox, inbox>>
       PROVE  OffersAreBacked'
  BY <1>3, <1>4, <1>15
<1>16. ASSUME \/ \E o \in Offers : OfferArtifact(o)
              \/ \E n \in Node : StoreOutgoing(n) \/ StoreIncoming(n)
              \/ UNCHANGED vars
       PROVE  UNCHANGED <<sent, mailbox, inbox>>
  BY <1>16 DEF OfferArtifact, StoreOutgoing, StoreIncoming, vars, disk, process
<1> QED
  BY <1>6, <1>7, <1>8, <1>9, <1>10, <1>11, <1>12, <1>13, <1>14, <1>15, <1>16
     DEF Next, OfferTask, Receive

\* A backed artifact is complete, or a store of it is in progress.
LEMMA BackedIsHeld ==
  ASSUME IInv, DamageIsPassing, faults = 0, NEW n \in Node, NEW x \in Artifact, Backed(n, x)
  PROVE  Complete(n, x) \/ Storing(n, x)
<1> USE DEF IInv
<1>1. ASSUME NEW w \in Stores(n), w.artifact = x
      PROVE  Storing(n, x)
  BY <1>1, Disjoint DEF Stores, Storing
<1>2. CASE blob[n][x] = "torn"
  BY <1>1, <1>2 DEF DamageIsPassing
<1>3. CASE manifest[n][x] = "unreadable"
  BY <1>1, <1>3 DEF DamageIsPassing
<1>4. CASE blob[n][x] # "torn" /\ manifest[n][x] # "unreadable"
  BY <1>4 DEF Backed, Complete, TypeOK, Content, Manifest, DamageIsContained
<1> QED
  BY <1>2, <1>3, <1>4

\* The offers are backed by what their daemons hold: OfferInv implies the
\* property, since an id is offered once.
LEMMA OfferInvSuffices ==
  ASSUME IInv, OfferInv
  PROVE  OfferedIsHeld
<1> USE DEF IInv, OfferInv
<1>1. SUFFICES ASSUME faults = 0, NEW n \in Node, NEW p \in Node, NEW x \in Artifact,
                      \/ [kind |-> "offer", from |-> n, to |-> p, artifact |-> x] \in sent
                      \/ x \in inbox[p] /\ <<n, x, p>> \in offered
               PROVE  Complete(n, x) \/ Storing(n, x)
  BY DEF OfferedIsHeld
<1>2. ASSUME [kind |-> "offer", from |-> n, to |-> p, artifact |-> x] \in sent
      PROVE  Backed(n, x)
  <2> DEFINE m == [kind |-> "offer", from |-> n, to |-> p, artifact |-> x]
  <2>1. m \in Offer /\ m.from = n /\ m.artifact = x
    BY DEF Offer
  <2>2. m \in sent
    BY <1>2
  <2> HIDE DEF m
  <2> QED
    BY <2>1, <2>2 DEF OffersAreBacked, BackedOffer
<1>3. ASSUME x \in inbox[p], <<n, x, p>> \in offered
      PROVE  Backed(n, x)
  <2>1. PICK q \in Node : Backed(q, x)
    BY <1>3 DEF OffersAreBacked
  <2>2. PICK o \in offered : o[1] = q /\ o[2] = x
    BY <2>1 DEF Backed
  <2>3. o \in Offers /\ <<n, x, p>> \in Offers /\ <<n, x, p>>[2] = x /\ <<n, x, p>>[1] = n
    BY <1>3 DEF TypeOK
  <2>4. o = <<n, x, p>>
    BY <2>2, <2>3, ArtifactsAssumption
  <2> QED
    BY <2>1, <2>2, <2>3, <2>4
<1> QED
  BY <1>1, <1>2, <1>3, BackedIsHeld

\* As long as nothing fails, whoever sees an offer can count on the file: its
\* daemon holds both parts of it, or is storing them again (offer_artifact stores
\* before it sends; no file is ever removed).
THEOREM OfferedArtifactsAreHeld == Spec => []OfferedIsHeld
<1>1. Init => OfferInv
  BY Disjoint, NoneAssumption
     DEF Init, OfferInv, FilesFollow, DamageIsPassing, OffersAreBacked, Stores, Content
<1>2. IInv /\ OfferInv /\ [Next]_vars => OfferInv'
  BY StoringStep, OffersStep DEF OfferInv
<1>3. IInv /\ OfferInv => OfferedIsHeld
  BY OfferInvSuffices
<1> QED
  BY <1>1, <1>2, <1>3, Invariance, PTL DEF Spec
=============================================================================
