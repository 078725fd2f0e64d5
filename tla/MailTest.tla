------------------------------ MODULE MailTest ------------------------------
(***************************************************************************)
(* Post offices used by free programs, whose threads send and receive as   *)
(* they like, or by network/nettest.cc: MailTest sends a greeting, waits   *)
(* for the other machine's, acknowledges it, waits for the acknowledgement *)
(* of its own and halts.                                                   *)
(***************************************************************************)
EXTENDS PostOffice

CONSTANTS Main,          \* the thread that runs MailTest
          MaxFree        \* bound: messages sent by free programs

ASSUME MailAssumption == Main \in Threads /\ {0, 1} \subseteq Boxes

VARIABLES program,       \* what all machines run, "free" or "test"
          pc,            \* where MailTest is on each machine
          reply,         \* its inPktHdr and inMailHdr
          taken          \* <<machine, mail>>: everything received, ever

allVars == <<vars, program, pc, reply, taken>>

InitTest ==
    /\ Init
    /\ program \in {"free", "test"}
    /\ pc = [m \in Machines |-> "send"]
    /\ reply = [m \in Machines |-> <<>>]
    /\ taken = {}

\* A machine that stops forgets its local variables.
Goto(m, l) == pc' = [pc EXCEPT ![m] = IF node'[m].status = "up" THEN l ELSE "send"]
Remember(m, r) == reply' = [reply EXCEPT ![m] = IF node'[m].status = "up" THEN r ELSE <<>>]

Others(m) == Machines \ {m}

SendFirst(m) ==
    /\ pc[m] = "send"
    /\ \E farAddr \in Others(m) : Send(m, Main, farAddr, 0, 1, "hello")
    /\ Goto(m, "receive") /\ UNCHANGED <<reply, taken>>

SendAck(m) ==
    /\ pc[m] = "ack"
    /\ Send(m, Main, reply[m][1].from, reply[m][1].mailFrom, 1, "ack")
    /\ Goto(m, "wait") /\ UNCHANGED <<reply, taken>>

Take(m, box, from, to) ==
    /\ pc[m] = from
    /\ Receive(m, Main, box)
    /\ LET mail == node[m].boxes[box]
           oldest == IF mail = <<>> THEN <<>> ELSE <<Head(mail)>>
       IN  Remember(m, oldest) /\ taken' = taken \union {<<m, x>> : x \in Range(oldest)}
    /\ Goto(m, to)

ReceiveFirst(m) == Take(m, 0, "receive", "ack")

\* Mutant: the answer is looked for in the first mailbox.
ReceiveAckInBox0(m) == Take(m, 0, "wait", "done")

ReceiveAck(m) == Take(m, 1, "wait", "done")

\* MailTest ends with Halt; the user may stop a machine earlier.
Stop(m) == Halt(m) /\ Goto(m, "send") /\ Remember(m, <<>>) /\ UNCHANGED taken

MailTest(m) ==
    /\ program = "test"
    /\ SendFirst(m) \/ ReceiveFirst(m) \/ SendAck(m) \/ ReceiveAck(m)
    /\ UNCHANGED program

FreeProgram(m) ==
    /\ program = "free"
    /\ \E t \in Threads, b \in Boxes :
        \/ Receive(m, t, b)
        \/ sends < MaxFree /\ \E to \in Machines : Send(m, t, to, b, 1, "hello")
    /\ UNCHANGED <<program, pc, reply, taken>>

Next ==
    \E m \in Machines :
        \/ Start(m) /\ UNCHANGED <<program, pc, reply, taken>>
        \/ Stop(m) /\ UNCHANGED program
        \/ System(m) /\ UNCHANGED <<program, pc, reply, taken>>
        \/ MailTest(m) \/ FreeProgram(m)

Spec == InitTest /\ [][Next]_allVars

FairSpec == Spec /\ Fairness

\* When MailTest has come to its end, the other machine has received a
\* greeting from this one, and this one an answer: whatever packets were lost
\* and whichever machine was restarted in between.
EndMeansBothHeard ==
    \A m \in Machines : pc[m] = "done" =>
        /\ \E x \in taken : x[1] # m /\ x[2].from = m /\ x[2].data = "hello"
        /\ reply[m][1].data = "ack" /\ reply[m][1].from # m
=============================================================================
