----------------------------- MODULE PostOffice -----------------------------
(***************************************************************************)
(* The post offices of several Nachos machines (network/post.cc), on the   *)
(* simulated network (machine/network.cc) that loses packets.  Each        *)
(* machine has user threads that send and receive, the postal worker, and  *)
(* the two interrupt handlers of the network.                              *)
(*                                                                         *)
(* A handler or a thread runs up to its next P without interruption, which *)
(* is one action.  Locks are empty in this source (threads/synch.cc), so   *)
(* that several threads are inside Send at once.  Condition::Wait is       *)
(* ASSERT(FALSE): a Receive on an empty mailbox stops the machine, and so  *)
(* does a packet for a machine that is not running.                        *)
(***************************************************************************)
EXTENDS Integers, Sequences, FiniteSets, Functions

CONSTANTS Machines, Threads, Boxes,
          MaxSends,      \* bound: messages sent
          MaxStarts      \* bound: how often each machine is started

ASSUME PostAssumption == 
    MaxSends \in Nat /\ MaxStarts \in [Machines -> Nat] /\ IsFiniteSet(Threads)

VARIABLES node,          \* each machine's memory and socket
          sends, starts  \* what is bounded

vars == <<node, sends, starts>>

Down == [status |-> "down"]

\* A machine after PostOffice::PostOffice: the values of the two semaphores,
\* the SendDone interrupts scheduled, the threads inside Send, the packet
\* buffered by the network, where the worker is, the mailboxes, and the socket.
\* put and got, what has gone into the mailboxes and come out of them, and
\* wire, what has been put into the socket, are only for the properties.
Fresh == [status |-> "up",
          messageAvailable |-> 0, messageSent |-> 0,
          due |-> 0, sending |-> {},
          inHdr |-> <<>>, worker |-> "P",
          boxes |-> [b \in Boxes |-> <<>>], sock |-> <<>>,
          wire |-> <<>>, put |-> <<>>, got |-> [b \in Boxes |-> <<>>]]

Up(m) == node[m].status = "up"

Init ==
    /\ node = [m \in Machines |-> Down]
    /\ sends = 0
    /\ starts = [m \in Machines |-> 0]

Start(m) ==
    /\ ~Up(m) /\ starts[m] < MaxStarts[m]
    /\ node' = [node EXCEPT ![m] = Fresh]
    /\ starts' = [starts EXCEPT ![m] = @ + 1]
    /\ UNCHANGED sends

\* Interrupt::Halt, or the user's interrupt: the socket is closed.
Halt(m) ==
    /\ Up(m)
    /\ node' = [node EXCEPT ![m] = Down]
    /\ UNCHANGED <<sends, starts>>

-----------------------------------------------------------------------------
(* Network, over datagram sockets of the host that keep packets in order.  *)

Mail(m, to, mailTo, mailFrom, data) ==
    [from |-> m, to |-> to, mailTo |-> mailTo, mailFrom |-> mailFrom, data |-> data, id |-> sends]

PollSocket(m) == node[m].sock # <<>>
ReadFromSocket(m) == Head(node[m].sock)
SendToSocket(n, packet) ==
    [n EXCEPT ![packet.to].sock = Append(@, packet), ![packet.to].wire = Append(@, packet)]

\* Mutant: the packet is read whether or not one is buffered.
CheckPktAvailOverwrites(m) ==
    /\ Up(m)
    /\ PollSocket(m)
    /\ node' = [node EXCEPT ![m].inHdr = <<ReadFromSocket(m)>>,
                            ![m].sock = Tail(@),
                            ![m].messageAvailable = @ + 1]
    /\ UNCHANGED <<sends, starts>>

\* The poll, rescheduled every time, calls IncomingPacket.
CheckPktAvail(m) ==
    /\ Up(m)
    /\ node[m].inHdr = <<>> /\ PollSocket(m)
    /\ node' = [node EXCEPT ![m].inHdr = <<ReadFromSocket(m)>>,
                            ![m].sock = Tail(@),
                            ![m].messageAvailable = @ + 1]
    /\ UNCHANGED <<sends, starts>>

\* Calls PacketSent.
SendDone(m) ==
    /\ Up(m)
    /\ node[m].due > 0
    /\ node' = [node EXCEPT ![m].due = @ - 1, ![m].messageSent = @ + 1]
    /\ UNCHANGED <<sends, starts>>

\* Mutant: a lost packet is not reported as sent.
NetworkSendForgets(n, m, packet, lost) ==
    IF lost THEN n ELSE SendToSocket([n EXCEPT ![m].due = @ + 1], packet)

\* Network::Send, in the machines n: the interrupt is scheduled in any case.
NetworkSend(n, m, packet, lost) ==
    LET scheduled == [n EXCEPT ![m].due = @ + 1]
    IN  IF lost THEN scheduled ELSE SendToSocket(scheduled, packet)

-----------------------------------------------------------------------------
(* PostOffice                                                              *)

\* The start of Send, up to messageSent->P().  A packet that is not lost needs
\* the other machine's socket.
Send(m, t, to, mailTo, mailFrom, data) ==
    LET packet == Mail(m, to, mailTo, mailFrom, data)
        entered == [node EXCEPT ![m].sending = @ \union {t}]
    IN  /\ Up(m) /\ t \notin node[m].sending
        /\ sends < MaxSends /\ sends' = sends + 1
        /\ \E lost \in BOOLEAN :
            node' = IF lost \/ Up(to) THEN NetworkSend(entered, m, packet, lost)
                    ELSE [node EXCEPT ![m] = Down]
        /\ UNCHANGED starts

\* Send gets past messageSent->P() and returns.
Sent(m, t) ==
    /\ Up(m) /\ t \in node[m].sending
    /\ node[m].messageSent > 0
    /\ node' = [node EXCEPT ![m].messageSent = @ - 1, ![m].sending = @ \ {t}]
    /\ UNCHANGED <<sends, starts>>

\* The worker gets past messageAvailable->P().
Awake(m) ==
    /\ Up(m) /\ node[m].worker = "P"
    /\ node[m].messageAvailable > 0
    /\ node' = [node EXCEPT ![m].messageAvailable = @ - 1, ![m].worker = "Receive"]
    /\ UNCHANGED <<sends, starts>>

\* MailBox::Put, and MailBox::Get with the condition on which it waits.
Put(boxes, box, mail) == [boxes EXCEPT ![box] = Append(@, mail)]
Get(boxes, box) == [boxes EXCEPT ![box] = Tail(@)]
IsEmpty(boxes, box) == boxes[box] = <<>>

\* The worker takes the packet with Network::Receive and puts it away.
PostalDelivery(m) ==
    /\ Up(m) /\ node[m].worker = "Receive"
    /\ LET mail == node[m].inHdr[1]
       IN  node' = [node EXCEPT ![m].inHdr = <<>>, ![m].worker = "P",
                                ![m].put = Append(@, mail),
                                ![m].boxes = Put(@, mail.mailTo, mail)]
    /\ UNCHANGED <<sends, starts>>

\* The oldest message of the box; to wait for one stops the machine.
Receive(m, t, box) ==
    /\ Up(m) /\ t \notin node[m].sending
    /\ node' = IF IsEmpty(node[m].boxes, box) THEN [node EXCEPT ![m] = Down]
               ELSE [node EXCEPT ![m].boxes = Get(@, box),
                                 ![m].got[box] = Append(@, Head(node[m].boxes[box]))]
    /\ UNCHANGED <<sends, starts>>

-----------------------------------------------------------------------------
\* What happens on a machine without its user threads calling anything.
System(m) ==
    \/ CheckPktAvail(m) \/ SendDone(m) \/ Awake(m) \/ PostalDelivery(m)
    \/ \E t \in Threads : Sent(m, t)

\* Interrupts are polled as long as the machine runs, and a thread that is
\* ready gets the processor.
Fairness ==
    \A m \in Machines :
        /\ WF_vars(CheckPktAvail(m)) /\ WF_vars(SendDone(m))
        /\ WF_vars(Awake(m)) /\ WF_vars(PostalDelivery(m))
        /\ \A t \in Threads : WF_vars(Sent(m, t))

-----------------------------------------------------------------------------
(* Properties                                                              *)

Running == {m \in Machines : Up(m)}
InTransit(m) == node[m].inHdr \o node[m].sock

\* The network's one buffer holds a packet exactly when the worker has been
\* told of it and has not yet taken it: the handler never overwrites a packet
\* and the worker never reads an empty buffer.
OneBuffered ==
    \A m \in Running :
        node[m].messageAvailable + (IF node[m].worker = "Receive" THEN 1 ELSE 0)
            = Len(node[m].inHdr)

\* Every thread inside Send is owed exactly one wake-up, scheduled or already
\* counted in messageSent, whether or not its packet was lost and however
\* many threads send at once.
OneWakeupEach ==
    \A m \in Running : node[m].due + node[m].messageSent = Cardinality(node[m].sending)

\* What was put on the wire for a machine has gone into its mailboxes or is on
\* its way, nothing lost, repeated or reordered.
WireExact == \A m \in Running : node[m].wire = node[m].put \o InTransit(m)

\* The places in the packets of those for box b.
ForBox(packets, b) == {i \in DOMAIN packets : packets[i].mailTo = b}

\* Each mailbox has received exactly the messages addressed to it, in the order
\* in which the worker took them: the k-th of those for the box is the k-th
\* that has been read from the box or is still in it.
BoxesExact ==
    \A m \in Running : \A b \in Boxes :
        LET mine == ForBox(node[m].put, b)
            received == node[m].got[b] \o node[m].boxes[b]
        IN  /\ Len(received) = Cardinality(mine)
            /\ \A i \in mine : received[Cardinality({j \in mine : j <= i})] = node[m].put[i]

\* From the wire to the reader of a mailbox nothing is lost, repeated,
\* reordered or put into another box.
DeliveryExact == OneBuffered /\ WireExact /\ BoxesExact

\* A Send returns, even when its packet is lost, and a packet that reaches the
\* machine's socket is put into a mailbox, unless the machine stops.
MailProgress ==
    \A m \in Machines :
        /\ \A t \in Threads :
              (Up(m) /\ t \in node[m].sending) ~> (Up(m) => t \notin node[m].sending)
        /\ \A i \in 0 .. MaxSends - 1 :
              (Up(m) /\ \E p \in Range(InTransit(m)) : p.id = i)
                  ~> (Up(m) => \E p \in Range(node[m].put) : p.id = i)
=============================================================================
