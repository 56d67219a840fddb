------------------------------ MODULE Network ------------------------------
(***************************************************************************)
(* Machines that exchange mail: the simulated network devices              *)
(* (machine/network.cc), the post office over them (network/post.cc) with  *)
(* its postal worker, and threads that send and receive.                   *)
(*                                                                         *)
(* Packets get lost when the device drops them and when the other machine  *)
(* has no socket (lib/sysdep.cc); the sockets of the host keep their order.*)
(* A mailbox is a SynchList, a Lock that of Monitor.                       *)
(***************************************************************************)
EXTENDS Integers, Sequences

CONSTANTS Host, Mailer, NoMailer, \* machines; threads that use the network, and none of them
          HostOf,                 \* thread -> machine it runs on
          numBoxes,
          Setups                  \* what there may be to start with, see setup

Box == 0 .. numBoxes - 1
Call == [op : {"send"}, to : Int, box : Nat, reply : Nat] \cup [op : {"receive"}, box : Int]
        \cup [op : {"reply"}, reply : Nat]

ASSUME NetAssumption ==
  /\ Host \subseteq Int /\ HostOf \in [Mailer -> Host] /\ NoMailer \notin Mailer
  /\ numBoxes \in Nat
  /\ \A s \in Setups : \A t \in Mailer :
       IF t \in s.testers THEN \E h \in Host : h # HostOf[t] ELSE s.script[t] \in Seq(Call)

VARIABLES
  setup,            \* testers: the threads that execute NetworkTest; script: the calls
                    \* of each other thread, one after the other; reliability
                    \* in percent; late: machines that start after the others
  up,               \* machines whose socket exists
  sock,             \* host -> packets on the wire to it
  sendBusy, sendInt,\* NetworkOutput: the flag, and whether its interrupt is pending
  inbox,            \* NetworkInput: the buffered packet as a sequence, empty if inHdr.length is 0
  sendLock, messageSent,    \* PostOfficeOutput
  messageAvailable, boxes,  \* PostOfficeInput
  worker,           \* the postal worker: [at, mail]
  pc, netAt,        \* thread -> call, and how far it is in it
  last,             \* thread -> the mail it received last
  sent, lost,       \* mail handed to a device so far, and what did not get to a socket
  taken             \* machine -> the mail its threads have received

outVars == << sendBusy, sendInt, sendLock, messageSent >>
inVars == << inbox, messageAvailable, boxes, worker >>
threadVars == << pc, netAt, last >>
history == << sent, lost, taken >>
netVars == << up, sock, history, outVars, inVars, threadVars >>

NoMail == [from |-> -1, to |-> -1, box |-> -1, reply |-> -1, id |-> 0]

\* Kernel::NetworkTest: a mail to box 0 that asks for an answer in box 1, the
\* other machine's mail, the answer to it, and the other machine's answer.
NetworkTest(farHost) ==
  << [op |-> "send", to |-> farHost, box |-> 0, reply |-> 1], [op |-> "receive", box |-> 0],
     [op |-> "reply", reply |-> 1], [op |-> "receive", box |-> 1] >>

\* The testers execute NetworkTest towards the other machine.
Script == [t \in Mailer |-> IF t \in setup.testers
                            THEN NetworkTest(CHOOSE h \in Host : h # HostOf[t])
                            ELSE setup.script[t]]

\* PostOfficeInput and PostOfficeOutput of every machine.
NetInit ==
  /\ setup \in Setups
  /\ up = Host \ setup.late /\ sent = << >> /\ lost = {} /\ taken = [h \in Host |-> {}]
  /\ sock = [h \in Host |-> << >>] /\ inbox = [h \in Host |-> << >>]
  /\ sendBusy = [h \in Host |-> FALSE] /\ sendInt = [h \in Host |-> FALSE]
  /\ sendLock = [h \in Host |-> NoMailer] /\ messageSent = [h \in Host |-> 0]
  /\ messageAvailable = [h \in Host |-> 0]
  /\ boxes = [h \in Host |-> [b \in Box |-> << >>]]
  /\ worker = [h \in Host |-> [at |-> "P", mail |-> NoMail]]
  /\ pc = [t \in Mailer |-> 1] /\ netAt = [t \in Mailer |-> "call"]
  /\ last = [t \in Mailer |-> NoMail]

Boot(h) == /\ h \notin up /\ up' = up \cup {h}
           /\ UNCHANGED << sock, history, outVars, inVars, threadVars >>

Op(t) == Script[t][pc[t]]
Ready(t, op) == /\ HostOf[t] \in up /\ pc[t] \in DOMAIN Script[t]
                /\ netAt[t] = "call" /\ Op(t).op \in op

-----------------------------------------------------------------------------
(* Sending.                                                                *)

\* The packet and mail headers; an answer goes where the last mail came from.
MailOf(t) ==
  [from |-> HostOf[t], reply |-> Op(t).reply, id |-> Len(sent) + 1,
   to |-> IF Op(t).op = "reply" THEN last[t].from ELSE Op(t).to,
   box |-> IF Op(t).op = "reply" THEN last[t].reply ELSE Op(t).box]

\* PostOfficeOutput::Send with its ASSERT up to sendLock->Acquire.
AcquireSendLock(t) ==
  /\ Ready(t, {"send", "reply"}) /\ MailOf(t).box >= 0 /\ sendLock[HostOf[t]] = NoMailer
  /\ sendLock' = [sendLock EXCEPT ![HostOf[t]] = t] /\ netAt' = [netAt EXCEPT ![t] = "send"]
  /\ UNCHANGED << up, sock, history, sendBusy, sendInt, messageSent, inVars, pc, last >>

\* SendToSocket: to a socket that exists, or, after ten tries, to none.
SendToSocket(m) ==
  IF m.to \in up THEN sock' = [sock EXCEPT ![m.to] = Append(@, m)] /\ UNCHANGED lost
  ELSE lost' = lost \cup {m.id} /\ UNCHANGED sock

\* Mutant: no interrupt for a packet that is dropped.
SendSilent(t) ==
  LET h == HostOf[t]
  IN /\ netAt[t] = "send" /\ ~sendBusy[h]
     /\ sent' = Append(sent, MailOf(t))
     /\ \E r \in {0, 99} : IF r >= setup.reliability
                           THEN lost' = lost \cup {Len(sent) + 1} /\ UNCHANGED << sock, sendInt >>
                           ELSE SendToSocket(MailOf(t)) /\ sendInt' = [sendInt EXCEPT ![h] = TRUE]
     /\ netAt' = [netAt EXCEPT ![t] = "wait"]
     /\ UNCHANGED << up, taken, sendBusy, sendLock, messageSent, inVars, pc, last >>

\* NetworkOutput::Send; r stands for RandomNumber() % 100.
Send(t) ==
  LET h == HostOf[t]
  IN /\ netAt[t] = "send" /\ ~sendBusy[h]
     /\ sendInt' = [sendInt EXCEPT ![h] = TRUE]
     /\ sent' = Append(sent, MailOf(t))
     /\ \E r \in {0, 99} : IF r >= setup.reliability
                           THEN lost' = lost \cup {Len(sent) + 1} /\ UNCHANGED sock
                           ELSE SendToSocket(MailOf(t))
     /\ netAt' = [netAt EXCEPT ![t] = "wait"]
     /\ UNCHANGED << up, taken, sendBusy, sendLock, messageSent, inVars, pc, last >>

\* The interrupt of NetworkOutput, which tells PostOfficeOutput.
SendCallBack(h) ==
  /\ sendInt[h] /\ sendInt' = [sendInt EXCEPT ![h] = FALSE]
  /\ sendBusy' = [sendBusy EXCEPT ![h] = FALSE]
  /\ messageSent' = [messageSent EXCEPT ![h] = @ + 1]
  /\ UNCHANGED << up, sock, history, sendLock, inVars, threadVars >>

\* messageSent->P, sendLock->Release and the return.
Sent(t) ==
  LET h == HostOf[t]
  IN /\ netAt[t] = "wait" /\ messageSent[h] > 0
     /\ messageSent' = [messageSent EXCEPT ![h] = @ - 1]
     /\ sendLock' = [sendLock EXCEPT ![h] = NoMailer]
     /\ netAt' = [netAt EXCEPT ![t] = "call"] /\ pc' = [pc EXCEPT ![t] = @ + 1]
     /\ UNCHANGED << up, sock, history, sendBusy, sendInt, inVars, last >>

-----------------------------------------------------------------------------
(* Receiving.                                                              *)

\* Mutant: the newest packet is read first.
ReceiveCallBackNewest(h) ==
  /\ h \in up /\ inbox[h] = << >> /\ sock[h] # << >>
  /\ inbox' = [inbox EXCEPT ![h] = << sock[h][Len(sock[h])] >>]
  /\ sock' = [sock EXCEPT ![h] = SubSeq(@, 1, Len(@) - 1)]
  /\ messageAvailable' = [messageAvailable EXCEPT ![h] = @ + 1]
  /\ UNCHANGED << up, history, outVars, boxes, worker, threadVars >>

\* NetworkInput::CallBack, the poll, which tells PostOfficeInput.
ReceiveCallBack(h) ==
  /\ h \in up /\ inbox[h] = << >> /\ sock[h] # << >>
  /\ inbox' = [inbox EXCEPT ![h] = << Head(sock[h]) >>]
  /\ sock' = [sock EXCEPT ![h] = Tail(@)]
  /\ messageAvailable' = [messageAvailable EXCEPT ![h] = @ + 1]
  /\ UNCHANGED << up, history, outVars, boxes, worker, threadVars >>

\* PostalDelivery: messageAvailable->P.
WorkerP(h) ==
  /\ worker[h].at = "P" /\ messageAvailable[h] > 0
  /\ messageAvailable' = [messageAvailable EXCEPT ![h] = @ - 1]
  /\ worker' = [worker EXCEPT ![h].at = "receive"]
  /\ UNCHANGED << up, sock, history, outVars, inbox, boxes, threadVars >>

\* NetworkInput::Receive.  Without a packet the worker's buffer still holds
\* the last one.
WorkerReceive(h) ==
  /\ worker[h].at = "receive"
  /\ worker' = [worker EXCEPT ![h].at = "put", ![h].mail = IF inbox[h] = << >> THEN @ ELSE Head(inbox[h])]
  /\ inbox' = [inbox EXCEPT ![h] = << >>]
  /\ UNCHANGED << up, sock, history, outVars, messageAvailable, boxes, threadVars >>

\* MailBox::Put; the worker asserts that the box exists.
Put(h) ==
  LET m == worker[h].mail
  IN /\ worker[h].at = "put" /\ m.box \in Box
     /\ boxes' = [boxes EXCEPT ![h][m.box] = Append(@, m)]
     /\ worker' = [worker EXCEPT ![h].at = "P"]
     /\ UNCHANGED << up, sock, history, outVars, inbox, messageAvailable, threadVars >>

\* PostOfficeInput::Receive, which asserts that the box exists, and MailBox::Get.
Receive(t) ==
  LET h == HostOf[t]
      b == Op(t).box
  IN /\ Ready(t, {"receive"}) /\ b \in Box /\ boxes[h][b] # << >>
     /\ taken' = [taken EXCEPT ![h] = @ \cup {Head(boxes[h][b]).id}]
     /\ last' = [last EXCEPT ![t] = Head(boxes[h][b])]
     /\ boxes' = [boxes EXCEPT ![h][b] = Tail(@)]
     /\ pc' = [pc EXCEPT ![t] = @ + 1]
     /\ UNCHANGED << up, sock, sent, lost, outVars, inbox, messageAvailable, worker, netAt >>

ThreadNext(t) == AcquireSendLock(t) \/ Send(t) \/ Sent(t) \/ Receive(t)
HostNext(h) == SendCallBack(h) \/ ReceiveCallBack(h) \/ WorkerP(h) \/ WorkerReceive(h) \/ Put(h)
NetNext == (\E h \in Host : Boot(h) \/ HostNext(h)) \/ (\E t \in Mailer : ThreadNext(t))

\* Devices interrupt, the worker and the threads run.  A thread that waits for
\* the lock is not promised it, only not passed over once nobody else comes.
NetSpec ==
  /\ NetInit /\ [][NetNext /\ UNCHANGED setup]_<< netVars, setup >>
  /\ \A h \in Host : /\ WF_netVars(SendCallBack(h)) /\ WF_netVars(ReceiveCallBack(h))
                     /\ WF_netVars(WorkerP(h) \/ WorkerReceive(h) \/ Put(h))
  /\ \A t \in Mailer : /\ WF_netVars(AcquireSendLock(t)) /\ WF_netVars(Receive(t))
                       /\ WF_netVars(Send(t) \/ Sent(t))

-----------------------------------------------------------------------------
\* The mail on its way from a machine's socket to the boxes, the oldest first;
\* the mail that reached the socket.
InHand(h) == IF worker[h].at = "put" THEN << worker[h].mail >> ELSE << >>
Way(h) == InHand(h) \o inbox[h] \o sock[h]
Arrived(h) == {i \in DOMAIN sent : sent[i].to = h /\ i \notin lost}

Ids(s) == {s[i].id : i \in DOMAIN s}
InOrder(s) == \A i, j \in DOMAIN s : i < j => s[i].id < s[j].id

\* Past the socket nothing is doubled or overtaken: a box and the way to it are
\* one sequence in the order of sending, and what threads have received from
\* the box was sent before all of it (NetworkInput, PostalDelivery, MailBox;
\* network.h: "in order but unreliably").
MailKeepsItsOrder ==
  \A h \in Host : \A b \in Box :
    LET ahead == boxes[h][b] \o Way(h)
    IN /\ InOrder(ahead)
       /\ \A i \in taken[h], j \in Ids(ahead) : sent[i].box = b => i < j

\* Mail that got to a socket is never lost: a thread has taken it, or it is
\* in its box or on the way, as it was sent.
NoMailVanishes ==
  \A h \in Host :
    /\ Arrived(h) = taken[h] \cup Ids(Way(h)) \cup UNION {Ids(boxes[h][b]) : b \in Box}
    /\ \A i \in DOMAIN Way(h) : Way(h)[i] = sent[Way(h)[i].id]
    /\ \A b \in Box : \A i \in DOMAIN boxes[h][b] :
         boxes[h][b][i] = sent[boxes[h][b][i].id] /\ boxes[h][b][i].box = b

\* The worker finds a packet whenever it was woken (one V for each packet that
\* is read in; otherwise it would deliver its old buffer again).
WorkerFindsMail == \A h \in Host : worker[h].at = "receive" => inbox[h] # << >>

\* The device is not given a packet while it sends one, although its own flag
\* sendBusy does not prevent it (sendLock of PostOfficeOutput).
OnePacketAtATime == \A t \in Mailer : netAt[t] = "send" => ~sendInt[HostOf[t]]

\* Mail that got to a socket is in one place until a thread has taken it, no
\* mail overtakes another, the postal worker finds a packet whenever it was
\* woken, and the device sends one packet at a time (NetworkInput::CallBack,
\* PostalDelivery, MailBox, PostOfficeOutput::Send).
MailIsKept == MailKeepsItsOrder /\ NoMailVanishes /\ WorkerFindsMail /\ OnePacketAtATime

\* A Send comes back, also when the packet is dropped (PostOfficeOutput:
\* "Called even if the previous packet was dropped"): the scripts are finite,
\* and from some time on no Send is under way.
SendsReturn == <>[](\A t \in Mailer : netAt[t] = "call")

\* Every thread gets to the end of its calls (NetworkTest between machines
\* whose packets are not lost).
ScriptsEnd ==
  <>[](setup.reliability = 100 /\ setup.late = {} => \A t \in Mailer : pc[t] > Len(Script[t]))

\* network.h on sendBusy: "Packet is being sent."
BusyWhileSending == \A h \in Host : sendInt[h] => sendBusy[h]

\* network.h on the reliability: "the chance that the network will lose a
\* packet", so 0 means that the device drops none.
ReliabilityIsLoss ==
  setup.reliability = 0 => \A i \in lost : i \in DOMAIN sent => sent[i].to \notin up

=============================================================================
