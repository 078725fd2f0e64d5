-------------------------- MODULE PostOfficeProofs --------------------------
(***************************************************************************)
(* Between the wire and the reader of a mailbox no packet is lost,         *)
(* repeated, reordered or put into another box, every Send is owed exactly *)
(* one wake-up, and a MailTest that has come to its end has been heard:    *)
(* for any number of machines, threads, mailboxes and messages, whatever   *)
(* packets are lost and whichever machines stop and start again.           *)
(*                                                                         *)
(* Each machine has its own part of the invariant, OfficeInv.  A step      *)
(* changes one machine, or two when a packet is sent.                      *)
(***************************************************************************)
EXTENDS MailTest, FiniteSetTheorems, SequenceTheorems, TLAPS

Packet == [from : Machines, to : Machines, mailTo : Boxes, mailFrom : Boxes,
           data : {"hello", "ack"}, id : Nat]

\* A machine that is running.
Office == [status : {"up"},
           messageAvailable : Nat, messageSent : Nat,
           due : Nat, sending : SUBSET Threads,
           inHdr : Seq(Packet), worker : {"P", "Receive"},
           boxes : [Boxes -> Seq(Packet)], sock : Seq(Packet),
           wire : Seq(Packet), put : Seq(Packet), got : [Boxes -> Seq(Packet)]]

NodesOK == node \in [Machines -> Office \cup {Down}]

Buffered(n) ==
    /\ n.messageAvailable + (IF n.worker = "Receive" THEN 1 ELSE 0) = Len(n.inHdr)
    /\ Len(n.inHdr) <= 1
Owed(n) == n.due + n.messageSent = Cardinality(n.sending)
Wired(n) == n.wire = n.put \o (n.inHdr \o n.sock)
Exact(put, b, received) ==
    /\ Len(received) = Cardinality(ForBox(put, b))
    /\ \A i \in ForBox(put, b) :
          received[Cardinality({j \in ForBox(put, b) : j <= i})] = put[i]
Boxed(n) == \A b \in Boxes : Exact(n.put, b, n.got[b] \o n.boxes[b])
OfficeInv(n) == Buffered(n) /\ Owed(n) /\ Wired(n) /\ Boxed(n)

OfficesInv == NodesOK /\ sends \in Nat /\ \A m \in Machines : Up(m) => OfficeInv(node[m])

\* From n to r, only the fresh packets come in, and what is in a box was there
\* or was in the network's buffer and addressed to it.
Kept(n, r, fresh) ==
    /\ Range(r.sock) \cup Range(r.inHdr) \subseteq Range(n.sock) \cup Range(n.inHdr) \cup fresh
    /\ \A b \in Boxes : \A p \in Range(r.boxes[b]) :
          p \in Range(n.boxes[b]) \/ (p \in Range(n.inHdr) /\ p.mailTo = b)

\* What a step that sends the packets may do to the machines that run after it.
Moves(packets) ==
    \A k \in Machines : Up(k)' =>
        \/ node'[k] = Fresh
        \/ Up(k) /\ Kept(node[k], node'[k], {p \in packets : p.to = k})

-----------------------------------------------------------------------------
(* Sequences and counting.                                                 *)

\* A sequence that is not empty has a first element and the others.
LEMMA FirstAndOthers ==
  ASSUME NEW D, NEW s \in Seq(D), s # <<>>
  PROVE  /\ Head(s) \in D
         /\ Tail(s) \in Seq(D)
         /\ <<Head(s)>> \o Tail(s) = s
BY HeadTailProperties, ConcatProperties

\* An element appended to the second of two sequences comes last in both.
LEMMA AppendToConcat ==
  ASSUME NEW s \in Seq(Packet), NEW t \in Seq(Packet), NEW x \in Packet
  PROVE  s \o t \in Seq(Packet) /\ Append(s \o t, x) = s \o Append(t, x)
OBVIOUS

\* A sequence may be cut before or after its middle element.
LEMMA AroundElement ==
  ASSUME NEW s \in Seq(Packet), NEW x \in Packet, NEW t \in Seq(Packet)
  PROVE  Append(s, x) \o t = s \o (<<x>> \o t)
OBVIOUS

\* What a sequence holds, when elements come in last and go out first.
LEMMA WhatIsIn ==
  ASSUME NEW s \in Seq(Packet)
  PROVE  /\ \A x \in Packet : Range(Append(s, x)) = Range(s) \cup {x}
         /\ s # <<>> => Head(s) \in Range(s) /\ Range(Tail(s)) \subseteq Range(s)
<1> HIDE DEF Packet
<1>1. ASSUME NEW x \in Packet PROVE Range(Append(s, x)) = Range(s) \cup {x}
  <2>1. /\ DOMAIN Append(s, x) = 1 .. Len(s) + 1 /\ DOMAIN s = 1 .. Len(s) /\ Len(s) \in Nat
        /\ Append(s, x)[Len(s) + 1] = x
        /\ \A i \in 1 .. Len(s) : Append(s, x)[i] = s[i]
    OBVIOUS
  <2> QED BY <2>1 DEF Range
<1>2. ASSUME s # <<>> PROVE Head(s) \in Range(s) /\ Range(Tail(s)) \subseteq Range(s)
  <2>1. Head(s) = s[1] /\ 1 \in DOMAIN s
    BY <1>2
  <2>2. \A i \in DOMAIN Tail(s) : i + 1 \in DOMAIN s /\ Tail(s)[i] = s[i + 1]
    BY <1>2
  <2> QED BY <2>1, <2>2 DEF Range
<1> QED BY <1>1, <1>2

\* The sequences of one element and of none.
LEMMA OneAndNone == Range(<<>>) = {} /\ \A x : Range(<<x>>) = {x}
BY DEF Range

\* The places in a sequence of the packets for a box can be counted.
LEMMA PlacesFinite ==
  ASSUME NEW s \in Seq(Packet), NEW b, NEW S \in SUBSET ForBox(s, b)
  PROVE  IsFiniteSet(S) /\ Cardinality(S) \in Nat
<1>1. IsFiniteSet(1 .. Len(s))
  BY FS_Interval
<1>2. S \in SUBSET (1 .. Len(s))
  BY DEF ForBox
<1> QED BY <1>1, <1>2, FS_Subset, FS_CardinalityType, Zenon

\* One more packet, put into its box and into no other, keeps the box exact.
LEMMA PutOne ==
  ASSUME NEW put \in Seq(Packet), NEW mail \in Packet, NEW b \in Boxes,
         NEW received \in Seq(Packet), Exact(put, b, received)
  PROVE  Exact(Append(put, mail), b,
               IF mail.mailTo = b THEN Append(received, mail) ELSE received)
<1> DEFINE after == Append(put, mail)
           last == Len(put) + 1
           UpTo(S, i) == {j \in S : j <= i}
<1> HIDE DEF Packet
<1>1. /\ after \in Seq(Packet) /\ Len(after) = last /\ after[last] = mail
      /\ \A i \in 1 .. Len(put) : after[i] = put[i]
  OBVIOUS
<1>2. ForBox(put, b) \subseteq 1 .. Len(put) /\ last \notin ForBox(put, b)
  BY DEF ForBox
<1>3. CASE mail.mailTo # b
  <2>1. ForBox(after, b) = ForBox(put, b)
    BY <1>1, <1>3 DEF ForBox
  <2>2. \A i \in ForBox(put, b) : after[i] = put[i]
    BY <1>1, <1>2
  <2> QED BY <1>3, <2>1, <2>2, Zenon DEF Exact
<1>4. CASE mail.mailTo = b
  <2>1. ForBox(after, b) = ForBox(put, b) \cup {last}
    BY <1>1, <1>4 DEF ForBox
  <2>2. /\ Cardinality(ForBox(put, b)) \in Nat
        /\ Cardinality(ForBox(after, b)) = Cardinality(ForBox(put, b)) + 1
    BY <1>2, <2>1, PlacesFinite, FS_AddElement, Zenon
  <2>3. UpTo(ForBox(after, b), last) = ForBox(after, b)
    BY <1>2, <2>1
  <2>4. ASSUME NEW i \in ForBox(put, b)
        PROVE  /\ UpTo(ForBox(after, b), i) = UpTo(ForBox(put, b), i)
               /\ Cardinality(UpTo(ForBox(put, b), i)) \in 1 .. Len(received)
    <3>1. UpTo(ForBox(after, b), i) = UpTo(ForBox(put, b), i)
      BY <1>2, <2>1
    <3>2. UpTo(ForBox(put, b), i) \in SUBSET ForBox(put, b) /\ i \in UpTo(ForBox(put, b), i)
      BY <1>2
    <3> HIDE DEF UpTo
    <3>3. /\ IsFiniteSet(ForBox(put, b)) /\ IsFiniteSet(UpTo(ForBox(put, b), i))
          /\ Cardinality(UpTo(ForBox(put, b), i)) \in Nat
      BY <3>2, PlacesFinite
    <3>4. Cardinality(UpTo(ForBox(put, b), i)) # 0
      BY <3>2, <3>3, FS_EmptySet
    <3>5. Cardinality(UpTo(ForBox(put, b), i)) <= Cardinality(ForBox(put, b))
      BY <3>2, <3>3, FS_Subset
    <3>6. Len(received) = Cardinality(ForBox(put, b))
      BY DEF Exact
    <3> QED BY <2>2, <3>1, <3>3, <3>4, <3>5, <3>6
  <2>5. /\ Append(received, mail)[Len(received) + 1] = mail
        /\ Len(Append(received, mail)) = Len(received) + 1
        /\ \A k \in 1 .. Len(received) : Append(received, mail)[k] = received[k]
    OBVIOUS
  <2>6. Len(Append(received, mail)) = Cardinality(ForBox(after, b))
    BY <2>2, <2>5 DEF Exact
  <2>7. ASSUME NEW i \in ForBox(after, b)
        PROVE  Append(received, mail)[Cardinality(UpTo(ForBox(after, b), i))] = after[i]
    <3>1. CASE i = last
      BY <1>1, <2>2, <2>3, <2>5, <2>6, <3>1, Zenon
    <3>2. CASE i \in ForBox(put, b)
      <4>1. received[Cardinality(UpTo(ForBox(put, b), i))] = put[i]
        BY <3>2, Zenon DEF Exact
      <4> HIDE DEF UpTo
      <4> QED BY <1>1, <1>2, <2>4, <2>5, <3>2, <4>1
    <3> QED BY <2>1, <3>1, <3>2, Zenon
  <2> QED BY <1>4, <2>6, <2>7, Zenon DEF Exact
<1> QED BY <1>3, <1>4

-----------------------------------------------------------------------------
(* What a step does to one machine.                                        *)

\* A machine after PostOffice::PostOffice has nothing to deliver and nobody
\* to wake.
LEMMA FreshOffice == Fresh \in Office /\ OfficeInv(Fresh)
<1>1. \A b : ForBox(<<>>, b) = {}
  BY DEF ForBox
<1>2. \A b \in Boxes : Exact(<<>>, b, <<>>)
  BY <1>1, FS_EmptySet, Zenon DEF Exact
<1>3. <<>> \in Seq(Packet) /\ <<>> \o <<>> = <<>> /\ Len(<<>>) = 0
  OBVIOUS
<1>4. Fresh \in Office
  BY <1>3 DEF Fresh, Office
<1>5. Buffered(Fresh) /\ Owed(Fresh) /\ Wired(Fresh)
  BY <1>3, FS_EmptySet DEF Fresh, Buffered, Owed, Wired
<1>6. Boxed(Fresh)
  BY <1>2, <1>3 DEF Fresh, Boxed
<1> QED BY <1>4, <1>5, <1>6 DEF OfficeInv

\* Network::CheckPktAvail and PostOffice::IncomingPacket: the packet stays the
\* first of those in transit.
LEMMA PacketRead ==
  ASSUME NEW n \in Office, OfficeInv(n), n.inHdr = <<>>, n.sock # <<>>,
         NEW r, r = [n EXCEPT !.inHdr = <<Head(n.sock)>>, !.sock = Tail(@),
                              !.messageAvailable = @ + 1]
  PROVE  r \in Office /\ OfficeInv(r) /\ Kept(n, r, {})
<1>1. /\ n.sock \in Seq(Packet) /\ n.messageAvailable \in Nat
      /\ n.put \in Seq(Packet) /\ n.worker \in {"P", "Receive"}
  BY DEF Office
<1>2. /\ <<Head(n.sock)>> \in Seq(Packet) /\ Tail(n.sock) \in Seq(Packet)
      /\ <<Head(n.sock)>> \o Tail(n.sock) = <<>> \o n.sock
      /\ Len(<<>>) = 0 /\ Len(<<Head(n.sock)>>) = 1
  <2> HIDE DEF Packet
  <2> QED BY <1>1, FirstAndOthers
<1>3. /\ r.inHdr = <<Head(n.sock)>> /\ r.sock = Tail(n.sock)
      /\ r.messageAvailable = n.messageAvailable + 1
      /\ \A f \in {"due", "messageSent", "sending", "worker", "boxes", "wire", "put", "got"} :
             r[f] = n[f]
  BY DEF Office
<1>4. r \in Office
  <2>1. /\ <<Head(n.sock)>> \in Seq(Packet) /\ Tail(n.sock) \in Seq(Packet)
        /\ n.messageAvailable + 1 \in Nat
    BY <1>1, <1>2
  <2> QED BY <2>1, Zenon DEF Office
<1>5. Buffered(r)
  BY <1>1, <1>2, <1>3 DEF OfficeInv, Buffered
<1>6. Wired(r)
  BY <1>2, <1>3, Zenon DEF OfficeInv, Wired
<1>7. Kept(n, r, {})
  <2>1. /\ Head(n.sock) \in Range(n.sock) /\ Range(Tail(n.sock)) \subseteq Range(n.sock)
        /\ Range(<<Head(n.sock)>>) = {Head(n.sock)}
    BY <1>1, WhatIsIn, OneAndNone
  <2>2. Range(r.sock) \cup Range(r.inHdr) \subseteq Range(n.sock)
    BY <1>3, <2>1, Zenon
  <2>3. r.boxes = n.boxes
    BY <1>3
  <2> QED BY <2>2, <2>3 DEF Kept
<1> QED BY <1>3, <1>4, <1>5, <1>6, <1>7 DEF OfficeInv, Owed, Boxed

\* Network::SendDone and PostOffice::PacketSent turn a scheduled wake-up into
\* a counted one.
LEMMA WakeupCounted ==
  ASSUME NEW n \in Office, OfficeInv(n), n.due > 0,
         NEW r, r = [n EXCEPT !.due = @ - 1, !.messageSent = @ + 1]
  PROVE  r \in Office /\ OfficeInv(r) /\ Kept(n, r, {})
<1>1. n.due - 1 \in Nat /\ n.messageSent + 1 \in Nat /\ n.due \in Nat /\ n.messageSent \in Nat
  BY DEF Office
<1>2. /\ r.due = n.due - 1 /\ r.messageSent = n.messageSent + 1
      /\ \A f \in {"messageAvailable", "sending", "inHdr", "worker",
                     "boxes", "sock", "wire", "put", "got"} : r[f] = n[f]
  BY DEF Office
<1>3. r \in Office
  BY <1>1, Zenon DEF Office
<1>4. Owed(r)
  BY <1>1, <1>2 DEF OfficeInv, Owed
<1>5. Kept(n, r, {})
  BY <1>2 DEF Kept
<1> QED BY <1>2, <1>3, <1>4, <1>5, Zenon DEF OfficeInv, Buffered, Wired, Boxed

\* A Send that gets past messageSent->P() takes the wake-up that it is owed.
LEMMA WakeupTaken ==
  ASSUME NEW n \in Office, OfficeInv(n), n.messageSent > 0, NEW t \in n.sending,
         NEW r, r = [n EXCEPT !.messageSent = @ - 1, !.sending = @ \ {t}]
  PROVE  r \in Office /\ OfficeInv(r) /\ Kept(n, r, {})
<1>1. n.messageSent - 1 \in Nat /\ n.messageSent \in Nat /\ n.due \in Nat
  BY DEF Office
<1>2. n.sending \in SUBSET Threads /\ n.sending \ {t} \in SUBSET Threads
  BY DEF Office
<1>3. /\ r.messageSent = n.messageSent - 1 /\ r.sending = n.sending \ {t}
      /\ \A f \in {"messageAvailable", "due", "inHdr", "worker",
                     "boxes", "sock", "wire", "put", "got"} : r[f] = n[f]
  BY DEF Office
<1>4. r \in Office
  BY <1>1, <1>2, Zenon DEF Office
<1>5. Cardinality(n.sending \ {t}) = Cardinality(n.sending) - 1
  BY <1>2, PostAssumption, FS_Subset, FS_RemoveElement
<1>6. Owed(r)
  BY <1>1, <1>3, <1>5 DEF OfficeInv, Owed
<1>7. Kept(n, r, {})
  BY <1>3 DEF Kept
<1> QED BY <1>3, <1>4, <1>6, <1>7, Zenon DEF OfficeInv, Buffered, Wired, Boxed

\* A thread that enters Send is owed a wake-up, and Network::Send schedules it.
LEMMA WakeupScheduled ==
  ASSUME NEW n \in Office, OfficeInv(n), NEW t \in Threads, t \notin n.sending,
         NEW r, r = [n EXCEPT !.sending = @ \union {t}, !.due = @ + 1]
  PROVE  r \in Office /\ OfficeInv(r) /\ Kept(n, r, {})
<1>1. n.due + 1 \in Nat /\ n.messageSent \in Nat /\ n.due \in Nat
  BY DEF Office
<1>2. n.sending \in SUBSET Threads /\ n.sending \union {t} \in SUBSET Threads
  BY DEF Office
<1>3. /\ r.due = n.due + 1 /\ r.sending = n.sending \union {t}
      /\ \A f \in {"messageAvailable", "messageSent", "inHdr", "worker",
                     "boxes", "sock", "wire", "put", "got"} : r[f] = n[f]
  BY DEF Office
<1>4. r \in Office
  BY <1>1, <1>2, Zenon DEF Office
<1>5. Cardinality(n.sending \union {t}) = Cardinality(n.sending) + 1
  BY <1>2, PostAssumption, FS_Subset, FS_AddElement
<1>6. Owed(r)
  BY <1>1, <1>3, <1>5 DEF OfficeInv, Owed
<1>7. Kept(n, r, {})
  BY <1>3 DEF Kept
<1> QED BY <1>3, <1>4, <1>6, <1>7, Zenon DEF OfficeInv, Buffered, Wired, Boxed

\* A packet that is not lost is the last of those in transit.
LEMMA PacketArrives ==
  ASSUME NEW n \in Office, OfficeInv(n), NEW packet \in Packet,
         NEW r, r = [n EXCEPT !.sock = Append(@, packet), !.wire = Append(@, packet)]
  PROVE  r \in Office /\ OfficeInv(r) /\ Kept(n, r, {packet})
<1>1. /\ n.inHdr \in Seq(Packet) /\ n.put \in Seq(Packet)
      /\ n.sock \in Seq(Packet) /\ n.wire \in Seq(Packet)
  BY DEF Office
<1>2. /\ r.sock = Append(n.sock, packet) /\ r.wire = Append(n.wire, packet)
      /\ \A f \in {"messageAvailable", "messageSent", "due", "sending", "inHdr", "worker",
                     "boxes", "put", "got"} : r[f] = n[f]
  BY DEF Office
<1>3. Append(n.sock, packet) \in Seq(Packet) /\ Append(n.wire, packet) \in Seq(Packet)
  <2> HIDE DEF Packet
  <2> QED BY <1>1
<1>4. r \in Office
  BY <1>3, Zenon DEF Office
<1>5. Append(n.put \o (n.inHdr \o n.sock), packet)
        = n.put \o (n.inHdr \o Append(n.sock, packet))
  <2>1. /\ n.inHdr \o n.sock \in Seq(Packet)
        /\ Append(n.inHdr \o n.sock, packet) = n.inHdr \o Append(n.sock, packet)
    BY <1>1, AppendToConcat, Zenon
  <2>2. Append(n.put \o (n.inHdr \o n.sock), packet)
          = n.put \o Append(n.inHdr \o n.sock, packet)
    BY <1>1, <2>1, AppendToConcat, Zenon
  <2> QED BY <2>1, <2>2
<1>6. Wired(r)
  BY <1>2, <1>5, Zenon DEF OfficeInv, Wired
<1>7. Kept(n, r, {packet})
  <2>1. Range(Append(n.sock, packet)) = Range(n.sock) \cup {packet}
    BY <1>1, WhatIsIn
  <2>2. r.sock = Append(n.sock, packet) /\ r.inHdr = n.inHdr /\ r.boxes = n.boxes
    BY <1>2
  <2> QED BY <2>1, <2>2 DEF Kept
<1> QED BY <1>2, <1>4, <1>6, <1>7 DEF OfficeInv, Buffered, Owed, Boxed

\* The worker that gets past messageAvailable->P() knows of one packet less
\* and is about to take it.
LEMMA WorkerAwake ==
  ASSUME NEW n \in Office, OfficeInv(n), n.worker = "P", n.messageAvailable > 0,
         NEW r, r = [n EXCEPT !.messageAvailable = @ - 1, !.worker = "Receive"]
  PROVE  r \in Office /\ OfficeInv(r) /\ Kept(n, r, {})
<1>1. n.messageAvailable - 1 \in Nat /\ n.messageAvailable \in Nat /\ n.inHdr \in Seq(Packet)
  BY DEF Office
<1>2. /\ r.messageAvailable = n.messageAvailable - 1 /\ r.worker = "Receive"
      /\ \A f \in {"messageSent", "due", "sending", "inHdr",
                     "boxes", "sock", "wire", "put", "got"} : r[f] = n[f]
  BY DEF Office
<1>3. r \in Office
  BY <1>1, Zenon DEF Office
<1>4. Buffered(r)
  BY <1>1, <1>2 DEF OfficeInv, Buffered
<1>5. Kept(n, r, {})
  BY <1>2 DEF Kept
<1> QED BY <1>2, <1>3, <1>4, <1>5, Zenon DEF OfficeInv, Owed, Wired, Boxed

\* A worker about to take a packet finds exactly one.
LEMMA OnePacket ==
  ASSUME NEW n \in Office, OfficeInv(n), n.worker = "Receive"
  PROVE  n.messageAvailable = 0 /\ n.inHdr[1] \in Packet /\ n.inHdr = <<n.inHdr[1]>>
<1>1. n.messageAvailable \in Nat /\ n.inHdr \in Seq(Packet) /\ Len(n.inHdr) \in Nat
  BY LenProperties DEF Office
<1>2. n.messageAvailable + 1 = Len(n.inHdr) /\ Len(n.inHdr) <= 1
  BY DEF OfficeInv, Buffered
<1>3. Len(n.inHdr) = 1 /\ n.messageAvailable = 0
  <2> DEFINE a == n.messageAvailable
             l == Len(n.inHdr)
  <2>1. a \in Nat /\ l \in Nat /\ a + 1 = l /\ l <= 1
    BY <1>1, <1>2
  <2> HIDE DEF a, l
  <2>2. l = 1 /\ a = 0
    BY <2>1
  <2> QED BY <2>2 DEF a, l
<1> QED BY <1>1, <1>3

\* PostOffice::PostalDelivery finds the packet that it was told of, the only one
\* buffered, and MailBox::Put adds it to its box.
LEMMA PacketDelivered ==
  ASSUME NEW n \in Office, OfficeInv(n), n.worker = "Receive",
         NEW mail, mail = n.inHdr[1],
         NEW r, r = [n EXCEPT !.inHdr = <<>>, !.worker = "P",
                              !.put = Append(@, mail),
                              !.boxes = Put(@, mail.mailTo, mail)]
  PROVE  mail \in Packet /\ n.inHdr = <<mail>> /\ r \in Office /\ OfficeInv(r)
         /\ Kept(n, r, {})
<1>1. /\ n.messageAvailable \in Nat /\ n.inHdr \in Seq(Packet) /\ n.sock \in Seq(Packet)
      /\ n.put \in Seq(Packet)
      /\ n.boxes \in [Boxes -> Seq(Packet)] /\ n.got \in [Boxes -> Seq(Packet)]
  BY DEF Office
<1>2. n.messageAvailable = 0
  BY OnePacket
<1>3. mail \in Packet /\ n.inHdr = <<mail>>
  BY OnePacket
<1>4. mail.mailTo \in Boxes
  BY <1>3 DEF Packet
<1> HIDE DEF Packet
<1> DEFINE boxes == Put(n.boxes, mail.mailTo, mail)
<1>5. /\ boxes \in [Boxes -> Seq(Packet)]
      /\ \A b \in Boxes : boxes[b] = IF mail.mailTo = b THEN Append(n.boxes[b], mail)
                                                         ELSE n.boxes[b]
  BY <1>1, <1>3, <1>4 DEF Put
<1>6. Append(n.put, mail) \in Seq(Packet) /\ <<>> \in Seq(Packet)
  BY <1>1, <1>3
<1> HIDE DEF boxes
<1>7. r = [n EXCEPT !.inHdr = <<>>, !.worker = "P", !.put = Append(@, mail), !.boxes = boxes]
  BY DEF boxes
<1>8. /\ r.inHdr = <<>> /\ r.worker = "P" /\ r.put = Append(n.put, mail) /\ r.boxes = boxes
      /\ \A f \in {"messageAvailable", "messageSent", "due", "sending",
                     "sock", "wire", "got"} : r[f] = n[f]
  BY <1>7, Zenon DEF Office
<1>9. r \in Office
  BY <1>5, <1>6, <1>7, Zenon DEF Office
<1>10. Buffered(r)
  BY <1>2, <1>8 DEF Buffered
<1>11. Wired(r)
  <2>1. <<>> \o n.sock = n.sock
    BY <1>1, ConcatEmptySeq
  <2>2. Append(n.put, mail) \o n.sock = n.put \o (<<mail>> \o n.sock)
    BY <1>1, <1>3, AroundElement, Zenon
  <2>3. n.wire = n.put \o (<<mail>> \o n.sock)
    BY <1>3, Zenon DEF OfficeInv, Wired
  <2> QED BY <1>8, <2>1, <2>2, <2>3, Zenon DEF Wired
<1>12. ASSUME NEW b \in Boxes
       PROVE  Exact(r.put, b, r.got[b] \o r.boxes[b])
  <2>1. n.got[b] \in Seq(Packet) /\ n.boxes[b] \in Seq(Packet)
    BY <1>1
  <2>2. /\ n.got[b] \o n.boxes[b] \in Seq(Packet)
        /\ Append(n.got[b] \o n.boxes[b], mail) = n.got[b] \o Append(n.boxes[b], mail)
    BY <1>3, <2>1, AppendToConcat, Zenon
  <2>3. Exact(n.put, b, n.got[b] \o n.boxes[b])
    BY DEF OfficeInv, Boxed
  <2>4. Exact(Append(n.put, mail), b,
              IF mail.mailTo = b THEN Append(n.got[b] \o n.boxes[b], mail)
                                 ELSE n.got[b] \o n.boxes[b])
    BY <1>1, <1>3, <2>2, <2>3, PutOne, Zenon
  <2>5. r.put = Append(n.put, mail) /\ r.got[b] = n.got[b] /\ r.boxes[b] = boxes[b]
    BY <1>8
  <2>6. CASE mail.mailTo = b
    <3>1. Exact(Append(n.put, mail), b, Append(n.got[b] \o n.boxes[b], mail))
      BY <2>4, <2>6, Zenon
    <3>2. r.boxes[b] = Append(n.boxes[b], mail)
      BY <1>5, <2>5, <2>6, Zenon
    <3> QED BY <2>2, <2>5, <3>1, <3>2, Zenon
  <2>7. CASE mail.mailTo # b
    BY <1>5, <2>4, <2>5, <2>7, Zenon
  <2> QED BY <2>6, <2>7
<1>13. Owed(r)
  BY <1>8 DEF OfficeInv, Owed
<1>14. Kept(n, r, {})
  <2>1. Range(r.inHdr) = {} /\ Range(n.inHdr) = {mail} /\ r.sock = n.sock
    BY <1>3, <1>8, OneAndNone
  <2>2. ASSUME NEW b \in Boxes, NEW p \in Range(r.boxes[b])
        PROVE  p \in Range(n.boxes[b]) \/ (p \in Range(n.inHdr) /\ p.mailTo = b)
    <3>1. n.boxes[b] \in Seq(Packet) /\ r.boxes[b] = boxes[b]
      BY <1>1, <1>8
    <3>2. Range(Append(n.boxes[b], mail)) = Range(n.boxes[b]) \cup {mail}
      BY <1>3, <3>1, WhatIsIn
    <3>3. CASE mail.mailTo = b
      <4>1. p \in Range(n.boxes[b]) \cup {mail}
        BY <1>5, <2>2, <3>1, <3>2, <3>3, Zenon
      <4> QED BY <2>1, <3>3, <4>1
    <3>4. CASE mail.mailTo # b
      BY <1>5, <2>2, <3>1, <3>4, Zenon
    <3> QED BY <3>3, <3>4
  <2> QED BY <2>1, <2>2 DEF Kept
<1> QED BY <1>3, <1>9, <1>10, <1>11, <1>12, <1>13, <1>14 DEF OfficeInv, Boxed

\* PostOffice::Receive: the oldest message of the box goes to the reader.
LEMMA MessageRead ==
  ASSUME NEW n \in Office, OfficeInv(n), NEW box \in Boxes, n.boxes[box] # <<>>,
         NEW r, r = [n EXCEPT !.boxes = Get(@, box),
                              !.got[box] = Append(@, Head(n.boxes[box]))]
  PROVE  /\ r \in Office /\ OfficeInv(r) /\ Kept(n, r, {})
         /\ Head(n.boxes[box]) \in Packet /\ Head(n.boxes[box]) \in Range(n.boxes[box])
<1>1. n.boxes \in [Boxes -> Seq(Packet)] /\ n.got \in [Boxes -> Seq(Packet)]
  BY DEF Office
<1> DEFINE boxes == Get(n.boxes, box)
           got == [n.got EXCEPT ![box] = Append(@, Head(n.boxes[box]))]
           mail == n.boxes[box]
<1> HIDE DEF Packet
<1>2. /\ mail \in Seq(Packet) /\ Head(mail) \in Packet /\ Tail(mail) \in Seq(Packet)
      /\ <<Head(mail)>> \o Tail(mail) = mail
  BY <1>1, FirstAndOthers
<1>3. /\ boxes \in [Boxes -> Seq(Packet)] /\ boxes[box] = Tail(mail)
      /\ \A b \in Boxes : b # box => boxes[b] = n.boxes[b]
  BY <1>1, <1>2 DEF Get
<1>4. /\ got \in [Boxes -> Seq(Packet)] /\ got[box] = Append(n.got[box], Head(mail))
      /\ \A b \in Boxes : b # box => got[b] = n.got[b]
  BY <1>1, <1>2
<1>5. r = [n EXCEPT !.boxes = boxes, !.got = got]
  BY DEF Office
<1> HIDE DEF boxes, got
<1>6. /\ r.boxes = boxes /\ r.got = got
      /\ \A f \in {"messageAvailable", "messageSent", "due", "sending", "inHdr", "worker",
                     "sock", "wire", "put"} : r[f] = n[f]
  BY <1>5, Zenon DEF Office
<1>7. r \in Office
  BY <1>3, <1>4, <1>5, Zenon DEF Office
<1>8. got[box] \o boxes[box] = n.got[box] \o n.boxes[box]
  <2>1. n.got[box] \in Seq(Packet)
    BY <1>1
  <2>2. Append(n.got[box], Head(mail)) \o Tail(mail)
          = n.got[box] \o (<<Head(mail)>> \o Tail(mail))
    BY <1>2, <2>1, AroundElement, Zenon
  <2> QED BY <1>2, <1>3, <1>4, <2>2, Zenon
<1>9. Boxed(r)
  <2>1. \A b \in Boxes : got[b] \o boxes[b] = n.got[b] \o n.boxes[b]
    BY <1>3, <1>4, <1>8, Zenon
  <2> QED BY <1>6, <2>1, Zenon DEF OfficeInv, Boxed
<1>10. Head(mail) \in Range(mail) /\ Range(Tail(mail)) \subseteq Range(mail)
  BY <1>2, WhatIsIn
<1>11. Kept(n, r, {})
  <2>1. \A b \in Boxes : Range(r.boxes[b]) \subseteq Range(n.boxes[b])
    BY <1>3, <1>6, <1>10, Zenon
  <2>2. r.sock = n.sock /\ r.inHdr = n.inHdr
    BY <1>6
  <2> QED BY <2>1, <2>2 DEF Kept
<1> QED BY <1>2, <1>6, <1>7, <1>9, <1>10, <1>11, Zenon DEF OfficeInv, Buffered, Owed, Wired

-----------------------------------------------------------------------------
(* The actions.                                                            *)

\* A machine that is up has a post office.
LEMMA UpOffice ==
  ASSUME OfficesInv, NEW m \in Machines, Up(m)
  PROVE  node[m] \in Office /\ OfficeInv(node[m])
BY DEF OfficesInv, NodesOK, Down, Up, Office

\* A step that leaves one machine stopped, or running with its part of the
\* invariant, and the others alone, keeps the invariant.
LEMMA OneMachine ==
  ASSUME OfficesInv, NEW m \in Machines, sends' \in Nat,
         NEW r, r = Down \/ (r \in Office /\ OfficeInv(r)),
         r \in {Down, Fresh} \/ (Up(m) /\ Kept(node[m], r, {})),
         node' = [node EXCEPT ![m] = r]
  PROVE  OfficesInv' /\ Moves({})
<1>1. /\ node' \in [Machines -> Office \cup {Down}] /\ node'[m] = r
      /\ \A k \in Machines : k # m => node'[k] = node[k]
  BY DEF OfficesInv, NodesOK
<1>2. r.status = "up" => r # Down /\ OfficeInv(r)
  BY DEF Down
<1>3. ASSUME NEW k \in Machines, Up(k)' PROVE OfficeInv(node'[k])
  <2>1. CASE k = m
    BY <1>1, <1>2, <1>3, <2>1 DEF Up
  <2>2. CASE k # m
    BY <1>1, <1>3, <2>2 DEF Up, OfficesInv
  <2> QED BY <2>1, <2>2
<1>4. OfficesInv'
  BY <1>1, <1>3 DEF OfficesInv, NodesOK
<1>5. ASSUME NEW k \in Machines, Up(k)'
      PROVE  node'[k] = Fresh \/ (Up(k) /\ Kept(node[k], node'[k], {p \in {} : p.to = k}))
  <2>1. {p \in {} : p.to = k} = {}
    OBVIOUS
  <2>2. CASE k = m
    BY <1>1, <1>2, <1>5, <2>1, <2>2, Zenon DEF Up
  <2>3. CASE k # m
    <3>1. node'[k] = node[k] /\ Up(k)
      BY <1>1, <1>5, <2>3 DEF Up
    <3>2. Kept(node[k], node[k], {})
      BY DEF Kept
    <3> QED BY <2>1, <3>1, <3>2, Zenon
  <2> QED BY <2>2, <2>3
<1> QED BY <1>4, <1>5 DEF Moves

\* PostOffice::PostOffice.
LEMMA StartStep ==
  ASSUME OfficesInv, NEW m \in Machines, Start(m)
  PROVE  OfficesInv' /\ Moves({})
BY FreshOffice, OneMachine, Zenon DEF Start, OfficesInv

\* Interrupt::Halt.
LEMMA HaltStep ==
  ASSUME OfficesInv, NEW m \in Machines, Halt(m)
  PROVE  OfficesInv' /\ Moves({})
BY OneMachine, Zenon DEF Halt, OfficesInv

\* Network::CheckPktAvail.
LEMMA CheckPktAvailStep ==
  ASSUME OfficesInv, NEW m \in Machines, CheckPktAvail(m)
  PROVE  OfficesInv' /\ Moves({})
<1> DEFINE r == [node[m] EXCEPT !.inHdr = <<Head(node[m].sock)>>, !.sock = Tail(@),
                                !.messageAvailable = @ + 1]
<1>1. Up(m) /\ node[m] \in Office /\ OfficeInv(node[m])
  BY UpOffice DEF CheckPktAvail
<1>2. /\ node' = [node EXCEPT ![m] = r] /\ sends' = sends
      /\ node[m].inHdr = <<>> /\ node[m].sock # <<>>
  BY Zenon DEF CheckPktAvail, ReadFromSocket, PollSocket
<1>3. r \in Office /\ OfficeInv(r) /\ Kept(node[m], r, {})
  BY <1>1, <1>2, PacketRead, Zenon
<1> HIDE DEF r
<1> QED BY <1>1, <1>2, <1>3, OneMachine, Zenon DEF OfficesInv

\* Network::SendDone.
LEMMA SendDoneStep ==
  ASSUME OfficesInv, NEW m \in Machines, SendDone(m)
  PROVE  OfficesInv' /\ Moves({})
<1> DEFINE r == [node[m] EXCEPT !.due = @ - 1, !.messageSent = @ + 1]
<1>1. Up(m) /\ node[m] \in Office /\ OfficeInv(node[m])
  BY UpOffice DEF SendDone
<1>2. node' = [node EXCEPT ![m] = r] /\ sends' = sends /\ node[m].due > 0
  BY Zenon DEF SendDone
<1>3. r \in Office /\ OfficeInv(r) /\ Kept(node[m], r, {})
  BY <1>1, <1>2, WakeupCounted, Zenon
<1> HIDE DEF r
<1> QED BY <1>1, <1>2, <1>3, OneMachine, Zenon DEF OfficesInv

\* The return of PostOffice::Send.
LEMMA SentStep ==
  ASSUME OfficesInv, NEW m \in Machines, NEW t \in Threads, Sent(m, t)
  PROVE  OfficesInv' /\ Moves({})
<1> DEFINE r == [node[m] EXCEPT !.messageSent = @ - 1, !.sending = @ \ {t}]
<1>1. Up(m) /\ node[m] \in Office /\ OfficeInv(node[m])
  BY UpOffice DEF Sent
<1>2. /\ node' = [node EXCEPT ![m] = r] /\ sends' = sends
      /\ node[m].messageSent > 0 /\ t \in node[m].sending
  BY Zenon DEF Sent
<1>3. r \in Office /\ OfficeInv(r) /\ Kept(node[m], r, {})
  BY <1>1, <1>2, WakeupTaken, Zenon
<1> HIDE DEF r
<1> QED BY <1>1, <1>2, <1>3, OneMachine, Zenon DEF OfficesInv

\* The worker leaves messageAvailable->P().
LEMMA AwakeStep ==
  ASSUME OfficesInv, NEW m \in Machines, Awake(m)
  PROVE  OfficesInv' /\ Moves({})
<1> DEFINE r == [node[m] EXCEPT !.messageAvailable = @ - 1, !.worker = "Receive"]
<1>1. Up(m) /\ node[m] \in Office /\ OfficeInv(node[m])
  BY UpOffice DEF Awake
<1>2. /\ node' = [node EXCEPT ![m] = r] /\ sends' = sends
      /\ node[m].messageAvailable > 0 /\ node[m].worker = "P"
  BY Zenon DEF Awake
<1>3. r \in Office /\ OfficeInv(r) /\ Kept(node[m], r, {})
  BY <1>1, <1>2, WorkerAwake, Zenon
<1> HIDE DEF r
<1> QED BY <1>1, <1>2, <1>3, OneMachine, Zenon DEF OfficesInv

\* PostOffice::PostalDelivery.
LEMMA PostalDeliveryStep ==
  ASSUME OfficesInv, NEW m \in Machines, PostalDelivery(m)
  PROVE  OfficesInv' /\ Moves({})
<1> DEFINE mail == node[m].inHdr[1]
           r == [node[m] EXCEPT !.inHdr = <<>>, !.worker = "P",
                                !.put = Append(@, mail),
                                !.boxes = Put(@, mail.mailTo, mail)]
<1>1. Up(m) /\ node[m] \in Office /\ OfficeInv(node[m])
  BY UpOffice DEF PostalDelivery
<1>2. node' = [node EXCEPT ![m] = r] /\ sends' = sends /\ node[m].worker = "Receive"
  BY Zenon DEF PostalDelivery
<1>3. r \in Office /\ OfficeInv(r) /\ Kept(node[m], r, {})
  <2>1. mail = node[m].inHdr[1]
    OBVIOUS
  <2> HIDE DEF mail
  <2> QED BY <1>1, <1>2, <2>1, PacketDelivered, Zenon
<1> HIDE DEF r
<1> QED BY <1>1, <1>2, <1>3, OneMachine, Zenon DEF OfficesInv

\* PostOffice::Receive: a message is read, or the machine stops.
LEMMA ReceiveStep ==
  ASSUME OfficesInv, NEW m \in Machines, NEW t, NEW box \in Boxes, Receive(m, t, box)
  PROVE  OfficesInv' /\ Moves({})
<1> DEFINE r == [node[m] EXCEPT !.boxes = Get(@, box),
                                !.got[box] = Append(@, Head(node[m].boxes[box]))]
<1>1. Up(m) /\ node[m] \in Office /\ OfficeInv(node[m])
  BY UpOffice DEF Receive
<1>2. sends' = sends
  BY DEF Receive
<1>3. CASE node[m].boxes[box] = <<>>
  <2>1. node' = [node EXCEPT ![m] = Down]
    BY <1>3 DEF Receive, IsEmpty
  <2> QED BY <1>2, <2>1, OneMachine, Zenon DEF OfficesInv
<1>4. CASE node[m].boxes[box] # <<>>
  <2>1. node' = [node EXCEPT ![m] = r]
    BY <1>4, Zenon DEF Receive, IsEmpty
  <2>2. r \in Office /\ OfficeInv(r) /\ Kept(node[m], r, {})
    BY <1>1, <1>4, MessageRead, Zenon
  <2> HIDE DEF r
  <2> QED BY <1>1, <1>2, <2>1, <2>2, OneMachine, Zenon DEF OfficesInv
<1> QED BY <1>3, <1>4

\* PostOffice::Send: the sender's machine, and then the receiver's.
Entered(m, t) == [node[m] EXCEPT !.sending = @ \union {t}, !.due = @ + 1]
Carried(n, packet) == [n EXCEPT !.sock = Append(@, packet), !.wire = Append(@, packet)]
AllEntered(m, t) == [node EXCEPT ![m] = Entered(m, t)]

\* The machine stops, or the packet is lost, or it is carried to a machine that
\* is up, which may be the sender's.
LEMMA SendOutcomes ==
  ASSUME OfficesInv, NEW m \in Machines, NEW t, NEW to \in Machines,
         NEW mailTo, NEW mailFrom, NEW data, Send(m, t, to, mailTo, mailFrom, data)
  PROVE  \/ node' = [node EXCEPT ![m] = Down]
         \/ node' = AllEntered(m, t)
         \/ /\ Up(to)
            /\ node' = [AllEntered(m, t) EXCEPT ![to] =
                           Carried(AllEntered(m, t)[to], Mail(m, to, mailTo, mailFrom, data))]
<1> DEFINE packet == Mail(m, to, mailTo, mailFrom, data)
           entered == AllEntered(m, t)
           began == [node EXCEPT ![m].sending = @ \union {t}]
<1>1. packet.to = to
  BY DEF Mail
<1> HIDE DEF packet
<1>2. entered = [began EXCEPT ![m].due = @ + 1]
  <2>1. DOMAIN node = Machines /\ node[m] \in Office
    BY UpOffice DEF Send, OfficesInv, NodesOK
  <2>2. /\ began[m] = [node[m] EXCEPT !.sending = @ \union {t}]
        /\ [node[m] EXCEPT !.sending = @ \union {t}].due = node[m].due
    BY <2>1 DEF Office
  <2>3. [began EXCEPT ![m].due = @ + 1] = [node EXCEPT ![m] = [began[m] EXCEPT !.due = @ + 1]]
    BY <2>1, Zenon
  <2> QED BY <2>2, <2>3, Zenon DEF Entered, AllEntered
<1>3. PICK lost \in BOOLEAN :
        node' = IF lost \/ Up(to) THEN NetworkSend(began, m, packet, lost)
                ELSE [node EXCEPT ![m] = Down]
  BY DEF Send, packet
<1>4. NetworkSend(began, m, packet, TRUE) = entered
  BY <1>2 DEF NetworkSend
<1>5. ASSUME Up(to)
      PROVE  NetworkSend(began, m, packet, FALSE)
                = [entered EXCEPT ![to] = Carried(entered[to], packet)]
  <2>1. NetworkSend(began, m, packet, FALSE) = SendToSocket(entered, packet)
    BY <1>2 DEF NetworkSend
  <2>2. DOMAIN entered = Machines /\ "wire" \in DOMAIN entered[to]
    BY <1>5, UpOffice DEF OfficesInv, NodesOK, AllEntered, Entered, Office
  <2>3. [entered[to] EXCEPT !.sock = Append(@, packet)].wire = entered[to].wire
    BY <2>2
  <2> HIDE DEF entered
  <2> QED BY <1>1, <2>1, <2>2, <2>3, Zenon DEF SendToSocket, Carried
<1> QED BY <1>3, <1>4, <1>5, Zenon DEF packet

\* PostOffice::Send keeps the invariant of both machines.
LEMMA SendStep ==
  ASSUME OfficesInv, NEW m \in Machines, NEW t \in Threads, NEW to \in Machines,
         NEW mailTo \in Boxes, NEW mailFrom \in Boxes, NEW data \in {"hello", "ack"},
         Send(m, t, to, mailTo, mailFrom, data)
  PROVE  OfficesInv' /\ Moves({Mail(m, to, mailTo, mailFrom, data)})
<1> DEFINE packet == Mail(m, to, mailTo, mailFrom, data)
           entered == AllEntered(m, t)
           For(k) == {p \in {packet} : p.to = k}
<1>1. Up(m) /\ node[m] \in Office /\ OfficeInv(node[m]) /\ t \notin node[m].sending
  BY UpOffice DEF Send
<1>2. sends' \in Nat /\ packet \in Packet /\ packet.to = to
  BY DEF Send, OfficesInv, Mail, Packet
<1>3. /\ Entered(m, t) \in Office /\ OfficeInv(Entered(m, t))
      /\ Kept(node[m], Entered(m, t), {})
  BY <1>1, WakeupScheduled, Zenon DEF Entered
<1> HIDE DEF packet
<1>4. CASE node' = [node EXCEPT ![m] = Down] \/ node' = entered
  <2>1. OfficesInv' /\ Moves({})
    BY <1>1, <1>2, <1>3, <1>4, OneMachine DEF AllEntered
  <2>2. ASSUME NEW n, NEW r, NEW S, Kept(n, r, {}) PROVE Kept(n, r, S)
    BY <2>2 DEF Kept
  <2>3. \A k : {p \in {} : p.to = k} = {}
    OBVIOUS
  <2>4. Moves({packet})
    BY <2>1, <2>2, <2>3, Zenon DEF Moves
  <2> QED BY <2>1, <2>4 DEF packet
<1>5. CASE Up(to) /\ node' = [entered EXCEPT ![to] = Carried(entered[to], packet)]
  <2>1. /\ entered \in [Machines -> Office \cup {Down}] /\ entered[m] = Entered(m, t)
        /\ \A k \in Machines : k # m => entered[k] = node[k]
    BY <1>3 DEF AllEntered, OfficesInv, NodesOK
  <2>2. \A k : Kept(node[k], node[k], {})
    BY DEF Kept
  <2>3. Up(m)
    BY <1>1
  <2> HIDE DEF entered
  <2>4. ASSUME NEW k \in Machines, Up(k)
        PROVE  /\ entered[k] \in Office /\ OfficeInv(entered[k])
               /\ Kept(node[k], entered[k], {})
               /\ \A f \in {"sock", "inHdr", "boxes"} : entered[k][f] = node[k][f]
    <3>1. \A f \in {"sock", "inHdr", "boxes"} : Entered(m, t)[f] = node[m][f]
      BY <1>1, Zenon DEF Entered, Office
    <3> QED BY <1>3, <2>1, <2>2, <2>4, <3>1, UpOffice
  <2> DEFINE r == Carried(entered[to], packet)
  <2>5. r \in Office /\ OfficeInv(r) /\ Kept(entered[to], r, {packet})
    BY <1>2, <1>5, <2>4, PacketArrives, Zenon DEF Carried
  <2>6. Kept(node[to], r, {packet})
    BY <1>5, <2>4, <2>5 DEF Kept
  <2> HIDE DEF r
  <2>7. /\ node' \in [Machines -> Office \cup {Down}] /\ node'[to] = r
        /\ \A k \in Machines : k # to => node'[k] = entered[k]
    BY <1>5, <2>1, <2>5 DEF r
  <2>8. \A k \in Machines : node'[k].status = "up" => Up(k)
    <3>1. \A k \in Machines : entered[k].status = "up" => Up(k)
      BY <2>1, <2>3 DEF Up
    <3> QED BY <1>5, <2>7, <3>1
  <2>9. For(to) = {packet} /\ \A k : k # to => For(k) = {}
    BY <1>2
  <2>10. ASSUME NEW k \in Machines, node'[k].status = "up"
         PROVE  Up(k) /\ OfficeInv(node'[k]) /\ Kept(node[k], node'[k], For(k))
    <3>1. Up(k)
      BY <2>8, <2>10
    <3> HIDE DEF For
    <3>2. CASE k = to
      BY <2>5, <2>6, <2>7, <2>9, <3>1, <3>2, Zenon
    <3>3. CASE k # to
      BY <2>4, <2>7, <2>9, <3>1, <3>3, Zenon
    <3> QED BY <3>1, <3>2, <3>3
  <2>11. OfficesInv'
    BY <1>2, <2>7, <2>10, Zenon DEF OfficesInv, NodesOK, Up
  <2>12. Moves({packet})
    BY <2>10 DEF Moves, Up
  <2> QED BY <2>11, <2>12 DEF packet
<1>6. \/ node' = [node EXCEPT ![m] = Down] \/ node' = entered
      \/ Up(to) /\ node' = [entered EXCEPT ![to] = Carried(entered[to], packet)]
  BY SendOutcomes, Zenon DEF packet
<1> QED BY <1>4, <1>5, <1>6

-----------------------------------------------------------------------------
(* MailTest.                                                               *)

\* Machine m's greeting has been received.
Heard(m, received) == \E x \in received : x[1] # m /\ x[2].from = m /\ x[2].data = "hello"

\* What the test sends to machine k: a greeting for box 0 that asks for an
\* answer in box 1, or an answer for box 1 from a machine that has received the
\* greeting.
Letter(k, p, received) ==
    /\ p.from # k
    /\ p.mailTo = 0 => p.data = "hello" /\ p.mailFrom = 1
    /\ p.mailTo = 1 => p.data = "ack" /\ Heard(k, received)

Letters(k, n, received) ==
    /\ \A p \in Range(n.sock) \cup Range(n.inHdr) : Letter(k, p, received)
    /\ \A b \in Boxes : \A p \in Range(n.boxes[b]) : p.mailTo = b /\ Letter(k, p, received)

\* What a machine that has come to a label of MailTest knows.
Knows(m, label, r, received) ==
    /\ label = "ack" => /\ r[1] \in Packet /\ r[1].from # m
                        /\ r[1].data = "hello" /\ r[1].mailFrom = 1
                        /\ <<m, r[1]>> \in received
    /\ label = "done" => r[1].data = "ack" /\ r[1].from # m /\ Heard(m, received)

TestInv ==
    /\ program \in {"free", "test"}
    /\ pc \in [Machines -> {"send", "receive", "ack", "wait", "done"}]
    /\ reply \in [Machines -> Seq(Packet)]
    /\ program = "free" => \A m \in Machines : pc[m] = "send"
    /\ program = "test" => \A m \in Machines : Up(m) => Letters(m, node[m], taken)
    /\ \A m \in Machines : Knows(m, pc[m], reply[m], taken)

\* What has been received stays received.
LEMMA ReceivedStays ==
  ASSUME NEW S, NEW T, S \subseteq T
  PROVE  /\ \A m, l, r : Knows(m, l, r, S) => Knows(m, l, r, T)
         /\ \A k, p : Letter(k, p, S) => Letter(k, p, T)
BY DEF Knows, Letter, Heard

\* The letters that a machine holds after a step are those that it held and
\* those that were sent to it.
LEMMA LettersStep ==
  ASSUME NEW k, NEW n, NEW r, NEW S, NEW T, NEW fresh, S \subseteq T,
         r = Fresh \/ (Letters(k, n, S) /\ Kept(n, r, fresh)),
         \A p \in fresh : Letter(k, p, T)
  PROVE  Letters(k, r, T)
<1>1. CASE r = Fresh
  BY <1>1, OneAndNone DEF Letters, Fresh
<1>2. CASE Letters(k, n, S) /\ Kept(n, r, fresh)
  <2>1. \A p : Letter(k, p, S) => Letter(k, p, T)
    BY ReceivedStays
  <2>2. ASSUME NEW p \in Range(r.sock) \cup Range(r.inHdr) PROVE Letter(k, p, T)
    BY <1>2, <2>1, <2>2 DEF Kept, Letters
  <2>3. ASSUME NEW b \in Boxes, NEW p \in Range(r.boxes[b])
        PROVE  p.mailTo = b /\ Letter(k, p, T)
    BY <1>2, <2>1, <2>3 DEF Kept, Letters
  <2> QED BY <2>2, <2>3 DEF Letters
<1> QED BY <1>1, <1>2

\* A step keeps the invariant of MailTest when what it sends are letters and
\* the machine that it moves knows what it should.
LEMMA TestStep ==
  ASSUME TestInv, NEW packets, Moves(packets), program' = program, taken \subseteq taken',
         pc' \in [Machines -> {"send", "receive", "ack", "wait", "done"}],
         reply' \in [Machines -> Seq(Packet)],
         program = "free" => \A m \in Machines : pc'[m] = "send",
         program = "test" => \A p \in packets : Letter(p.to, p, taken'),
         \A m \in Machines : \/ pc'[m] = pc[m] /\ reply'[m] = reply[m]
                             \/ Knows(m, pc'[m], reply'[m], taken')
  PROVE  TestInv'
<1>1. ASSUME program = "test", NEW m \in Machines, Up(m)' PROVE Letters(m, node'[m], taken')
  <2> DEFINE fresh == {p \in packets : p.to = m}
  <2>1. node'[m] = Fresh \/ (Up(m) /\ Kept(node[m], node'[m], fresh))
    BY <1>1, Zenon DEF Moves
  <2>2. Up(m) => Letters(m, node[m], taken)
    BY <1>1, Zenon DEF TestInv
  <2>3. \A p \in fresh : Letter(m, p, taken')
    BY <1>1, Zenon
  <2> HIDE DEF fresh
  <2> QED BY <2>1, <2>2, <2>3, LettersStep, Zenon
<1>2. ASSUME NEW m \in Machines PROVE Knows(m, pc'[m], reply'[m], taken')
  <2>1. Knows(m, pc[m], reply[m], taken)
    BY Zenon DEF TestInv
  <2>2. Knows(m, pc[m], reply[m], taken')
    BY <2>1, ReceivedStays, Zenon
  <2> QED BY <2>2, Zenon
<1>3. program' \in {"free", "test"}
  BY Zenon DEF TestInv
<1> QED BY <1>1, <1>2, <1>3, Zenon DEF TestInv

\* The two parts together.
Inv == OfficesInv /\ TestInv

\* A step of the system or of a free program, which leaves MailTest where it is.
LEMMA TestQuiet ==
  ASSUME Inv, NEW packets, Moves(packets), UNCHANGED <<program, pc, reply, taken>>,
         program = "free" \/ packets = {}
  PROVE  TestInv'
<1>1. /\ program' = program /\ taken \subseteq taken' /\ program \in {"free", "test"}
      /\ \A m \in Machines : pc'[m] = pc[m] /\ reply'[m] = reply[m]
      /\ program = "free" => \A m \in Machines : pc'[m] = "send"
      /\ program = "test" => \A p \in packets : Letter(p.to, p, taken')
  BY DEF Inv, TestInv
<1>2. /\ pc' \in [Machines -> {"send", "receive", "ack", "wait", "done"}]
      /\ reply' \in [Machines -> Seq(Packet)]
  BY Zenon DEF Inv, TestInv
<1> QED BY <1>1, <1>2, TestStep, Zenon DEF Inv

\* A machine stops: nothing is known of one that is at its beginning.
LEMMA StopStep ==
  ASSUME Inv, NEW m \in Machines, Stop(m), UNCHANGED program
  PROVE  Inv'
<1>1. OfficesInv' /\ Moves({})
  BY HaltStep DEF Inv, Stop
<1>2. node'[m].status # "up"
  BY DEF Stop, Halt, Inv, OfficesInv, NodesOK, Down
<1>3. /\ pc' = [pc EXCEPT ![m] = "send"] /\ reply' = [reply EXCEPT ![m] = <<>>]
      /\ taken \subseteq taken' /\ program' = program
  BY <1>2 DEF Stop, Goto, Remember
<1>4. /\ pc' \in [Machines -> {"send", "receive", "ack", "wait", "done"}]
      /\ reply' \in [Machines -> Seq(Packet)]
      /\ program = "free" => \A k \in Machines : pc'[k] = "send"
      /\ \A k \in Machines : \/ pc'[k] = pc[k] /\ reply'[k] = reply[k]
                             \/ pc'[k] = "send"
  <2> HIDE DEF Packet
  <2> QED BY <1>3 DEF Inv, TestInv
<1>5. /\ \A k, r, S : Knows(k, "send", r, S)
      /\ \A p \in {} : Letter(p.to, p, taken')
  BY DEF Knows
<1>6. TestInv'
  BY <1>1, <1>3, <1>4, <1>5, TestStep, Zenon DEF Inv
<1> QED BY <1>1, <1>6 DEF Inv

\* A Send of MailTest: what goes out is a letter, and the machine is afterwards
\* at a label where nothing need be known.
LEMMA TestSend ==
  ASSUME Inv, program = "test", UNCHANGED program, NEW m \in Machines, NEW to \in Machines,
         NEW mailTo \in Boxes, NEW data \in {"hello", "ack"},
         Send(m, Main, to, mailTo, 1, data), Letter(to, Mail(m, to, mailTo, 1, data), taken),
         NEW l \in {"receive", "wait"}, Goto(m, l), UNCHANGED <<reply, taken>>
  PROVE  Inv'
<1> DEFINE packet == Mail(m, to, mailTo, 1, data)
<1>1. OfficesInv' /\ Moves({packet})
  <2>1. Main \in Threads /\ 1 \in Boxes
    BY MailAssumption
  <2> QED BY <2>1, SendStep, Zenon DEF Inv
<1>2. packet.to = to
  BY DEF Mail
<1>3. pc' = [pc EXCEPT ![m] = l] \/ pc' = [pc EXCEPT ![m] = "send"]
  BY Zenon DEF Goto
<1>4. /\ pc' \in [Machines -> {"send", "receive", "ack", "wait", "done"}]
      /\ \A k \in Machines : pc'[k] = pc[k] \/ pc'[k] \in {"send", "receive", "wait"}
  BY <1>3, Zenon DEF Inv, TestInv
<1>5. /\ \A k, r, S : \A x \in {"send", "receive", "wait"} : Knows(k, x, r, S)
      /\ program # "free"
  BY DEF Knows
<1>6. reply' \in [Machines -> Seq(Packet)] /\ reply' = reply
  BY Zenon DEF Inv, TestInv
<1>7. \A p \in {packet} : Letter(p.to, p, taken')
  BY <1>2
<1>8. taken \subseteq taken'
  OBVIOUS
<1> HIDE DEF packet
<1>9. \A k \in Machines : \/ pc'[k] = pc[k] /\ reply'[k] = reply[k]
                          \/ Knows(k, pc'[k], reply'[k], taken')
  BY <1>4, <1>5, <1>6, Zenon
<1>10. TestInv'
  BY <1>1, <1>4, <1>5, <1>6, <1>7, <1>8, <1>9, TestStep, Zenon DEF Inv
<1> QED BY <1>1, <1>10 DEF Inv

\* MailTest greets another machine.
LEMMA SendFirstStep ==
  ASSUME Inv, program = "test", UNCHANGED program, NEW m \in Machines, SendFirst(m)
  PROVE  Inv'
<1>1. PICK to \in Others(m) : Send(m, Main, to, 0, 1, "hello")
  BY DEF SendFirst
<1>2. to \in Machines /\ to # m
  BY DEF Others
<1>3. Letter(to, Mail(m, to, 0, 1, "hello"), taken)
  BY <1>2 DEF Letter, Mail
<1>4. Goto(m, "receive") /\ UNCHANGED <<reply, taken>>
  BY DEF SendFirst
<1>5. 0 \in Boxes /\ "hello" \in {"hello", "ack"} /\ "receive" \in {"receive", "wait"}
  BY MailAssumption
<1> QED BY <1>1, <1>2, <1>3, <1>4, <1>5, TestSend, Zenon

\* MailTest answers the machine whose greeting it has received.
LEMMA SendAckStep ==
  ASSUME Inv, program = "test", UNCHANGED program, NEW m \in Machines, SendAck(m)
  PROVE  Inv'
<1> DEFINE r == reply[m][1]
<1>1. Knows(m, "ack", reply[m], taken)
  BY DEF SendAck, Inv, TestInv
<1>2. /\ r \in Packet /\ r.from # m /\ r.data = "hello" /\ r.mailFrom = 1
      /\ <<m, r>> \in taken
  BY <1>1 DEF Knows
<1>3. r.from \in Machines
  BY <1>2 DEF Packet
<1>4. Send(m, Main, r.from, 1, 1, "ack") /\ Goto(m, "wait") /\ UNCHANGED <<reply, taken>>
  BY <1>2 DEF SendAck
<1> HIDE DEF r
<1>5. Heard(r.from, taken)
  <2>1. <<m, r>>[1] = m /\ <<m, r>>[2] = r
    OBVIOUS
  <2> QED BY <1>2, <2>1 DEF Heard
<1>6. Letter(r.from, Mail(m, r.from, 1, 1, "ack"), taken)
  BY <1>2, <1>5 DEF Letter, Mail
<1>7. 1 \in Boxes /\ "ack" \in {"hello", "ack"} /\ "wait" \in {"receive", "wait"}
  BY MailAssumption
<1> QED BY <1>3, <1>4, <1>6, <1>7, TestSend, Zenon

\* A Receive of MailTest: the machine stops, or it reads a letter of the box and
\* then knows what it should.
LEMMA TestTake ==
  ASSUME Inv, program = "test", UNCHANGED program, NEW m \in Machines, NEW box \in Boxes,
         NEW from, NEW to \in {"ack", "done"}, Take(m, box, from, to),
         \A p, T : (p \in Packet /\ p.mailTo = box /\ Letter(m, p, T) /\ <<m, p>> \in T)
                      => Knows(m, to, <<p>>, T)
  PROVE  Inv'
<1> DEFINE mail == node[m].boxes[box]
           oldest == IF mail = <<>> THEN <<>> ELSE <<Head(mail)>>
<1>1. Up(m) /\ node[m] \in Office /\ OfficeInv(node[m]) /\ Letters(m, node[m], taken)
  BY UpOffice DEF Inv, TestInv, Take, Receive
<1>2. OfficesInv' /\ Moves({})
  BY ReceiveStep DEF Take, Inv
<1>3. CASE mail = <<>>
  <2>1. node'[m].status # "up"
    BY <1>3 DEF Take, Receive, IsEmpty, Inv, OfficesInv, NodesOK, Down
  <2>2. /\ pc' = [pc EXCEPT ![m] = "send"] /\ reply' = [reply EXCEPT ![m] = <<>>]
        /\ taken \subseteq taken'
    BY <2>1 DEF Take, Goto, Remember
  <2>3. /\ pc' \in [Machines -> {"send", "receive", "ack", "wait", "done"}]
        /\ reply' \in [Machines -> Seq(Packet)] /\ program # "free"
        /\ \A k \in Machines : \/ pc'[k] = pc[k] /\ reply'[k] = reply[k]
                               \/ pc'[k] = "send"
    <3> HIDE DEF Packet
    <3> QED BY <2>2 DEF Inv, TestInv
  <2>4. /\ \A k, r, S : Knows(k, "send", r, S)
        /\ \A p \in {} : Letter(p.to, p, taken')
    BY DEF Knows
  <2>5. TestInv'
    BY <1>2, <2>2, <2>3, <2>4, TestStep, Zenon DEF Inv
  <2> QED BY <1>2, <2>5 DEF Inv
<1>4. CASE mail # <<>>
  <2> DEFINE p == Head(mail)
  <2>1. p \in Packet /\ p \in Range(mail)
    BY <1>1, <1>4, MessageRead, Zenon
  <2>2. p.mailTo = box /\ Letter(m, p, taken)
    BY <1>1, <2>1 DEF Letters
  <2>3. node'[m].status = "up"
    BY <1>1, <1>4 DEF Take, Receive, IsEmpty, Inv, OfficesInv, NodesOK, Office
  <2>4. /\ pc' = [pc EXCEPT ![m] = to] /\ reply' = [reply EXCEPT ![m] = <<p>>]
        /\ taken' = taken \cup {<<m, x>> : x \in Range(<<p>>)}
    BY <1>4, <2>3 DEF Take, Goto, Remember
  <2> HIDE DEF p
  <2>5. taken \subseteq taken' /\ <<m, p>> \in taken'
    BY <2>4, OneAndNone
  <2>6. Knows(m, to, <<p>>, taken')
    BY <2>1, <2>2, <2>5, ReceivedStays, Zenon
  <2>7. /\ pc' \in [Machines -> {"send", "receive", "ack", "wait", "done"}]
        /\ reply' \in [Machines -> Seq(Packet)] /\ program # "free"
        /\ pc'[m] = to /\ reply'[m] = <<p>>
        /\ \A k \in Machines : k # m => pc'[k] = pc[k] /\ reply'[k] = reply[k]
    <3> HIDE DEF Packet
    <3> QED BY <2>1, <2>4 DEF Inv, TestInv
  <2>8. \A k \in Machines : \/ pc'[k] = pc[k] /\ reply'[k] = reply[k]
                            \/ Knows(k, pc'[k], reply'[k], taken')
    BY <2>6, <2>7, Zenon
  <2>9. \A x \in {} : Letter(x.to, x, taken')
    OBVIOUS
  <2>10. TestInv'
    BY <1>2, <2>5, <2>7, <2>8, <2>9, TestStep, Zenon DEF Inv
  <2> QED BY <1>2, <2>10 DEF Inv
<1> QED BY <1>3, <1>4

\* MailTest receives a greeting.
LEMMA ReceiveFirstStep ==
  ASSUME Inv, program = "test", UNCHANGED program, NEW m \in Machines, ReceiveFirst(m)
  PROVE  Inv'
<1>1. 0 \in Boxes /\ "ack" \in {"ack", "done"} /\ Take(m, 0, "receive", "ack")
  BY MailAssumption DEF ReceiveFirst
<1>2. ASSUME NEW p, NEW T, p \in Packet, p.mailTo = 0, Letter(m, p, T), <<m, p>> \in T
      PROVE  Knows(m, "ack", <<p>>, T)
  <2>1. <<p>>[1] = p /\ "ack" # "done"
    OBVIOUS
  <2> QED BY <1>2, <2>1, Zenon DEF Knows, Letter
<1> QED BY <1>1, <1>2, TestTake, Zenon

\* MailTest receives the answer to its own.
LEMMA ReceiveAckStep ==
  ASSUME Inv, program = "test", UNCHANGED program, NEW m \in Machines, ReceiveAck(m)
  PROVE  Inv'
<1>1. 1 \in Boxes /\ "done" \in {"ack", "done"} /\ Take(m, 1, "wait", "done")
  BY MailAssumption DEF ReceiveAck
<1>2. ASSUME NEW p, NEW T, p \in Packet, p.mailTo = 1, Letter(m, p, T), <<m, p>> \in T
      PROVE  Knows(m, "done", <<p>>, T)
  <2>1. <<p>>[1] = p /\ "ack" # "done"
    OBVIOUS
  <2> QED BY <1>2, <2>1, Zenon DEF Knows, Letter
<1> QED BY <1>1, <1>2, TestTake, Zenon

\* Whatever happens keeps the invariant.
LEMMA InvNext == Inv /\ [Next]_allVars => Inv'
<1> SUFFICES ASSUME Inv, [Next]_allVars PROVE Inv'
  OBVIOUS
<1> DEFINE Rest == UNCHANGED <<program, pc, reply, taken>>
<1>1. CASE UNCHANGED allVars
  BY <1>1 DEF allVars, vars, Inv, OfficesInv, NodesOK, TestInv, Up
<1>2. ASSUME NEW m \in Machines,
             \/ Start(m) /\ Rest
             \/ Stop(m) /\ UNCHANGED program
             \/ System(m) /\ Rest
             \/ MailTest(m)
             \/ FreeProgram(m)
      PROVE  Inv'
  <2>1. CASE Start(m) /\ Rest
    <3>1. OfficesInv' /\ Moves({})
      BY <2>1, StartStep DEF Inv
    <3> QED BY <2>1, <3>1, TestQuiet, Zenon DEF Inv
  <2>2. CASE Stop(m) /\ UNCHANGED program
    BY <2>2, StopStep
  <2>3. CASE System(m) /\ Rest
    <3>1. OfficesInv' /\ Moves({})
      BY <2>3, CheckPktAvailStep, SendDoneStep, AwakeStep, PostalDeliveryStep, SentStep
      DEF Inv, System
    <3> QED BY <2>3, <3>1, TestQuiet, Zenon DEF Inv
  <2>4. CASE MailTest(m)
    BY <2>4, SendFirstStep, ReceiveFirstStep, SendAckStep, ReceiveAckStep DEF MailTest
  <2>5. CASE FreeProgram(m)
    <3>1. Rest /\ program = "free"
      BY <2>5 DEF FreeProgram
    <3>2. PICK t \in Threads, b \in Boxes :
             \/ Receive(m, t, b)
             \/ \E to \in Machines : Send(m, t, to, b, 1, "hello")
      BY <2>5 DEF FreeProgram
    <3>3. CASE Receive(m, t, b)
      <4>1. OfficesInv' /\ Moves({})
        BY <3>3, ReceiveStep DEF Inv
      <4> QED BY <3>1, <4>1, TestQuiet, Zenon DEF Inv
    <3>4. CASE \E to \in Machines : Send(m, t, to, b, 1, "hello")
      <4>1. PICK to \in Machines : Send(m, t, to, b, 1, "hello")
        BY <3>4
      <4>2. 1 \in Boxes /\ "hello" \in {"hello", "ack"}
        BY MailAssumption
      <4>3. OfficesInv' /\ Moves({Mail(m, to, b, 1, "hello")})
        BY <4>1, <4>2, SendStep, Zenon DEF Inv
      <4> QED BY <3>1, <4>3, TestQuiet, Zenon DEF Inv
    <3> QED BY <3>2, <3>3, <3>4
  <2> QED BY <1>2, <2>1, <2>2, <2>3, <2>4, <2>5
<1> QED BY <1>1, <1>2, Zenon DEF Next

\* Before the first machine is started.
LEMMA InvInit == InitTest => Inv
<1> SUFFICES ASSUME InitTest PROVE Inv
  OBVIOUS
<1>1. OfficesInv /\ \A m \in Machines : ~Up(m)
  BY DEF InitTest, Init, OfficesInv, NodesOK, Up, Down
<1>2. TestInv
  BY <1>1 DEF InitTest, TestInv, Knows
<1> QED BY <1>1, <1>2 DEF Inv

\* The invariant holds throughout.
LEMMA InvHolds == Spec => []Inv
BY InvInit, InvNext, PTL DEF Spec

\* PostOffice::Send and PostOffice::PacketSent: a thread inside Send is owed
\* exactly one wake-up, for any number of threads and whatever is lost.
THEOREM WakeupsCorrect == Spec => []OneWakeupEach
<1>1. Inv => OneWakeupEach
  BY DEF Inv, OfficesInv, OfficeInv, Owed, OneWakeupEach, Running
<1> QED BY <1>1, InvHolds, PTL

\* Network::CheckPktAvail, PostOffice::PostalDelivery and MailBox: between the
\* wire and the reader nothing is lost, repeated, reordered or put elsewhere.
THEOREM DeliveryCorrect == Spec => []DeliveryExact
<1>1. Inv => OneBuffered /\ WireExact
  BY Zenon DEF Inv, OfficesInv, OfficeInv, Buffered, Wired, OneBuffered, WireExact, Running,
               InTransit
<1>2. Inv => BoxesExact
  BY Zenon DEF Inv, OfficesInv, OfficeInv, Boxed, Exact, BoxesExact, Running
<1>3. Inv => DeliveryExact
  BY <1>1, <1>2 DEF DeliveryExact
<1> QED BY <1>3, InvHolds, PTL

\* MailTest in network/nettest.cc: a machine at its end has been heard and
\* answered, for any number of machines.
THEOREM EndCorrect == Spec => []EndMeansBothHeard
<1>1. Inv => EndMeansBothHeard
  BY Zenon DEF Inv, TestInv, Knows, Heard, EndMeansBothHeard
<1> QED BY <1>1, InvHolds, PTL
=============================================================================
