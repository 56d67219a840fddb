---------------------------- MODULE DeviceProofs ----------------------------
(***************************************************************************)
(* Proofs about the devices that deliver bytes, and their drivers: Console *)
(* and Network.                                                            *)
(*                                                                         *)
(* Console, for any threads and calls: for each device one token, which is *)
(* the pending interrupt, the semaphore or the thread it let through.      *)
(*                                                                         *)
(* Network, for any machines, threads, boxes and scripts: the same kind of *)
(* token between the device, the semaphores and the postal worker, and an  *)
(* order of the places mail passes through, from the socket to the thread. *)
(***************************************************************************)
EXTENDS Console, Network, TLAPS

-----------------------------------------------------------------------------
(* The console.                                                            *)

ConsolePlace == {"user", "inAcquire", "inWait", "inGet", "outLoop", "outPut", "outWait"}

ConsoleTypes ==
  /\ consoleAt \in [User -> ConsolePlace]
  /\ inSem \in Nat /\ outSem \in Nat
  /\ readInt \in BOOLEAN /\ putBusy \in BOOLEAN /\ writeInt \in BOOLEAN

\* A thread holds a lock exactly between its Acquire and its Release.
ConsoleLocks ==
  \A t \in User : /\ consoleAt[t] \in {"inWait", "inGet"} <=> inLock = t
                  /\ consoleAt[t] \in {"outPut", "outWait"} <=> outLock = t

\* One token goes round: a poll is scheduled, or waitFor has been signalled,
\* or a reader took the signal and has not taken the character yet.
InputToken ==
  /\ inSem <= 1
  /\ readInt => incoming = EOF /\ inSem = 0
  /\ \A t \in User : consoleAt[t] = "inGet" => ~readInt /\ inSem = 0
  /\ incoming # EOF => inSem = 1 \/ \E t \in User : consoleAt[t] = "inGet"

\* The display is busy, or has signalled, only while a thread waits for it.
OutputToken ==
  /\ putBusy <=> writeInt
  /\ outSem <= 1 /\ (writeInt => outSem = 0)
  /\ writeInt \/ outSem = 1 => \E t \in User : consoleAt[t] = "outWait"

CInv == ConsoleTypes /\ DeviceAssertsHold /\ ConsoleLocks /\ InputToken /\ OutputToken

LEMMA CInvSuffices == CInv => CharactersReadOnce
<1> SUFFICES ASSUME CInv PROVE CharactersReadOnce
  BY Zenon
<1> DEFINE G == {t \in User : consoleAt[t] = "inGet"}
<1>1. readInt => incoming = EOF /\ inSem = 0 /\ \A t \in User : consoleAt[t] # "inGet"
  BY Zenon DEF CInv, InputToken
<1>2. ASSUME incoming # EOF
      PROVE  (inSem = 1 /\ G = {}) \/ (inSem = 0 /\ \E t \in User : G = {t})
  <2>1. CASE \E t \in User : consoleAt[t] = "inGet"
    <3>1. PICK t \in User : consoleAt[t] = "inGet"
      BY Zenon, <2>1
    <3>2. G = {t}
      BY Zenon, <3>1 DEF CInv, ConsoleLocks
    <3> QED
      BY Zenon, <3>1, <3>2 DEF CInv, InputToken
  <2>2. CASE ~\E t \in User : consoleAt[t] = "inGet"
    <3>1. G = {}
      BY Zenon, <2>2
    <3> QED
      BY Zenon, <1>2, <2>2, <3>1 DEF CInv, InputToken
  <2> QED
    BY Zenon, <2>1, <2>2
<1> QED
  BY Zenon, <1>1, <1>2 DEF CInv, CharactersReadOnce, OneCharacterAtATime

LEMMA ConsoleInitInv == ConsoleInit => CInv
<1> SUFFICES ASSUME ConsoleInit PROVE CInv
  BY Zenon
<1>1. ConsoleTypes /\ DeviceAssertsHold
  BY Zenon DEF ConsoleInit, ConsoleTypes, ConsolePlace, DeviceAssertsHold
<1>2. ConsoleLocks
  BY Zenon, ConsoleAssumption DEF ConsoleInit, ConsoleLocks
<1>3. InputToken
  BY DEF ConsoleInit, InputToken
<1>4. OutputToken
  BY DEF ConsoleInit, OutputToken
<1> QED
  BY <1>1, <1>2, <1>3, <1>4 DEF CInv

LEMMA ConsoleNextInv == CInv /\ [ConsoleNext]_consoleVars => CInv'
<1> SUFFICES ASSUME CInv, [ConsoleNext]_consoleVars PROVE CInv'
  BY Zenon
<1> USE ConsoleAssumption DEF CInv, ConsoleTypes, ConsolePlace, DeviceAssertsHold
<1>1. CASE ConsoleInputCallBack
  <2>1. incoming = EOF /\ inSem = 0 /\ (\A t \in User : consoleAt[t] # "inGet")
    BY Zenon, <1>1 DEF ConsoleInputCallBack, InputToken
  <2>2. /\ readInt' = FALSE /\ inSem' = 1
        /\ UNCHANGED << putBusy, writeInt, inLock, outLock, outSem, consoleAt, machine >>
    BY <1>1, <2>1 DEF ConsoleInputCallBack
  <2>3. ConsoleTypes' /\ DeviceAssertsHold'
    BY Zenon, <2>2
  <2>4. InputToken'
    BY <2>1, <2>2 DEF InputToken
  <2>5. ConsoleLocks' /\ OutputToken'
    BY Zenon, <2>2 DEF ConsoleLocks, OutputToken
  <2> QED
    BY Zenon, <2>3, <2>4, <2>5
<1>2. CASE ConsoleOutputCallBack
  <2>1. outSem = 0 /\ \E t \in User : consoleAt[t] = "outWait"
    BY Zenon, <1>2 DEF ConsoleOutputCallBack, OutputToken
  <2>2. /\ writeInt' = FALSE /\ putBusy' = FALSE /\ outSem' = 1
        /\ UNCHANGED << incoming, readInt, inLock, outLock, inSem, consoleAt, machine >>
    BY <1>2, <2>1 DEF ConsoleOutputCallBack
  <2>3. ConsoleTypes' /\ DeviceAssertsHold'
    BY Zenon, <2>2
  <2>4. OutputToken'
    BY <2>1, <2>2 DEF OutputToken
  <2>5. ConsoleLocks' /\ InputToken'
    BY Zenon, <2>2 DEF ConsoleLocks, InputToken
  <2> QED
    BY <2>3, <2>4, <2>5
<1>3. ASSUME NEW t \in User, Begin(t) PROVE CInv'
  <2>1. /\ consoleAt[t] = "user" /\ \E p \in {"inAcquire", "outLoop"} : consoleAt' = [consoleAt EXCEPT ![t] = p]
        /\ UNCHANGED << consoleDevice, consoleSynch, machine >>
    BY Zenon, <1>3 DEF Begin, Go, SC_ReadString, GetString, SC_PrintString, PutString, Handle_PrintNum
  <2> QED
    BY <2>1 DEF consoleDevice, consoleSynch, ConsoleLocks, InputToken, OutputToken
<1>4. ASSUME NEW t \in User, InAcquire(t) PROVE CInv'
  BY Zenon, <1>4 DEF InAcquire, Go, consoleDevice, ConsoleLocks, InputToken, OutputToken
<1>5. ASSUME NEW t \in User, InWait(t) PROVE CInv'
  BY <1>5 DEF InWait, Go, consoleDevice, ConsoleLocks, InputToken, OutputToken
<1>6. ASSUME NEW t \in User, InGet(t) PROVE CInv'
  <2>1. /\ consoleAt[t] = "inGet" /\ \E p \in {"inAcquire", "user"} : consoleAt' = [consoleAt EXCEPT ![t] = p]
        /\ GetChar /\ inLock' = NoUser
        /\ UNCHANGED << keys, putBusy, writeInt, outLock, inSem, outSem, machine >>
    BY Zenon, <1>6 DEF InGet, Go, ReadStringChar, GetStringChar
  <2> QED
    BY <2>1 DEF GetChar, ConsoleLocks, InputToken, OutputToken
<1>7. ASSUME NEW t \in User, OutLoop(t) PROVE CInv'
  BY <1>7 DEF OutLoop, Go, consoleDevice, ConsoleLocks, InputToken, OutputToken
<1>8. ASSUME NEW t \in User, OutPut(t) PROVE CInv'
  BY <1>8 DEF OutPut, Go, consoleSynch, ConsoleLocks, InputToken, OutputToken
<1>9. ASSUME NEW t \in User, OutWait(t) PROVE CInv'
  BY <1>9 DEF OutWait, Go, consoleDevice, ConsoleLocks, InputToken, OutputToken
<1>10. CASE UNCHANGED consoleVars
  BY Zenon, <1>10 DEF consoleVars, ConsoleLocks, InputToken, OutputToken
<1> QED
  BY <1>1, <1>2, <1>3, <1>4, <1>5, <1>6, <1>7, <1>8, <1>9, <1>10 DEF ConsoleNext, ConsoleStep

\* For any number of threads that read and print, whatever is typed and asked
\* for: no ASSERT of the console devices fails, and each typed character goes
\* to one reader.
THEOREM ConsoleReadsOnce == ConsoleSpec => []CharactersReadOnce
  BY CInvSuffices, ConsoleInitInv, ConsoleNextInv, PTL DEF ConsoleSpec

-----------------------------------------------------------------------------
(* The network.                                                            *)

\* What a sequence holds.
Values(s) == {s[i] : i \in DOMAIN s}

\* A packet: who sent it, where it goes, the box for an answer, its number.
Mail == [from : Int, to : Int, box : Int, reply : Int, id : Nat]

NetTypes ==
  /\ setup \in Setups /\ up \subseteq Host
  /\ sent \in Seq(Mail) /\ lost \subseteq DOMAIN sent
  /\ sock \in [Host -> Seq(Mail)] /\ inbox \in [Host -> Seq(Mail)]
  /\ boxes \in [Host -> [Box -> Seq(Mail)]]
  /\ worker \in [Host -> [at : {"P", "receive", "put"}, mail : Mail]]
  /\ messageAvailable \in [Host -> Nat]
  /\ taken \in [Host -> SUBSET Nat]
  /\ pc \in [Mailer -> Nat] /\ netAt \in [Mailer -> {"call", "send", "wait"}]
  /\ last \in [Mailer -> Mail]
  /\ sendInt \in [Host -> BOOLEAN] /\ messageSent \in [Host -> Nat]
  /\ sendLock \in [Host -> Mailer \cup {NoMailer}]

\* A thread is in Send because its call is one to send, and holds the lock.
Sending ==
  \A t \in Mailer :
    /\ netAt[t] = "send" => pc[t] \in DOMAIN Script[t] /\ Op(t).op \in {"send", "reply"}
    /\ netAt[t] # "call" <=> sendLock[HostOf[t]] = t

\* The device sends, or has told so, only while a thread waits for it.
SendToken ==
  \A h \in Host :
    /\ messageSent[h] <= 1 /\ (sendInt[h] => messageSent[h] = 0)
    /\ sendInt[h] \/ messageSent[h] = 1 => \E t \in Mailer : HostOf[t] = h /\ netAt[t] = "wait"

\* One packet is buffered for each V that the worker has not answered yet.
WorkerToken ==
  \A h \in Host :
    /\ Len(inbox[h]) <= 1
    /\ IF worker[h].at = "receive" THEN messageAvailable[h] = 0 /\ Len(inbox[h]) = 1
       ELSE messageAvailable[h] = Len(inbox[h])

\* Packets inside a machine are those that were sent to it.
Genuine(h, s) == \A i \in DOMAIN s : s[i].id \in Arrived(h) /\ s[i] = sent[s[i].id]
OfBox(b, s) == \A i \in DOMAIN s : s[i].box = b
GenuineAt(h) ==
  /\ Genuine(h, InHand(h)) /\ Genuine(h, inbox[h]) /\ Genuine(h, sock[h])
  /\ \A b \in Box : Genuine(h, boxes[h][b]) /\ OfBox(b, boxes[h][b])
  /\ taken[h] \subseteq Arrived(h)

\* The five places a packet passes through, each before the next.
Below(S, T) == \A i \in S, j \in T : i < j
TakenFrom(h, b) == {i \in taken[h] : sent[i].box = b}
OrderedBox(h, b) ==
  /\ InOrder(boxes[h][b]) /\ Below(TakenFrom(h, b), Ids(boxes[h][b]))
  /\ \A s \in {InHand(h), inbox[h], sock[h]} :
       Below(TakenFrom(h, b), Ids(s)) /\ Below(Ids(boxes[h][b]), Ids(s))
OrderedAt(h) ==
  /\ InOrder(sock[h]) /\ Below(Ids(inbox[h]), Ids(sock[h]))
  /\ Below(Ids(InHand(h)), Ids(inbox[h])) /\ Below(Ids(InHand(h)), Ids(sock[h]))
  /\ \A b \in Box : OrderedBox(h, b)

Boxed(h) == UNION {Ids(boxes[h][b]) : b \in Box}
CompleteAt(h) ==
  Arrived(h) \subseteq taken[h] \cup Boxed(h) \cup Ids(InHand(h)) \cup Ids(inbox[h]) \cup Ids(sock[h])

MailAt(h) == GenuineAt(h) /\ OrderedAt(h) /\ CompleteAt(h)
NInv == NetTypes /\ Sending /\ SendToken /\ WorkerToken /\ \A h \in Host : MailAt(h)

-----------------------------------------------------------------------------
(* Sequences of mail.                                                      *)

LEMMA IdsOfOne == /\ Ids(<< >>) = {} /\ InOrder(<< >>)
                  /\ \A m \in Mail : Ids(<< m >>) = {m.id} /\ InOrder(<< m >>)
  BY DEF Ids, InOrder

LEMMA IdsAppend ==
  ASSUME NEW s \in Seq(Mail), NEW m \in Mail
  PROVE  /\ Append(s, m) \in Seq(Mail)
         /\ Ids(Append(s, m)) = Ids(s) \cup {m.id}
         /\ InOrder(s) /\ Below(Ids(s), {m.id}) => InOrder(Append(s, m))
<1>1. Append(s, m) \in Seq(Mail) /\ DOMAIN Append(s, m) = 1 .. Len(s) + 1
  OBVIOUS
<1>2. DOMAIN s = 1 .. Len(s) /\ \A i \in 1 .. Len(s) : Append(s, m)[i] = s[i]
  OBVIOUS
<1>3. Append(s, m)[Len(s) + 1] = m
  OBVIOUS
<1>4. Ids(Append(s, m)) = Ids(s) \cup {m.id}
  BY <1>1, <1>2, <1>3 DEF Ids
<1>5. ASSUME InOrder(s), Below(Ids(s), {m.id}) PROVE InOrder(Append(s, m))
  <2>1. \A i \in 1 .. Len(s) : s[i].id < m.id
    BY Zenon, <1>5, <1>2 DEF Below, Ids
  <2> QED
    BY <1>1, <1>2, <1>3, <1>5, <2>1 DEF InOrder
<1> QED
  BY Zenon, <1>1, <1>4, <1>5

LEMMA IdsTail ==
  ASSUME NEW s \in Seq(Mail), s # << >>
  PROVE  /\ Head(s) \in Mail /\ Tail(s) \in Seq(Mail)
         /\ Ids(s) = {Head(s).id} \cup Ids(Tail(s))
         /\ InOrder(s) => InOrder(Tail(s)) /\ Below({Head(s).id}, Ids(Tail(s)))
<1>1. /\ Head(s) \in Mail /\ Tail(s) \in Seq(Mail) /\ Len(s) \in Nat \ {0} /\ Head(s) = s[1]
      /\ DOMAIN s = 1 .. Len(s) /\ DOMAIN Tail(s) = 1 .. Len(s) - 1
  OBVIOUS
<1>2. \A i \in 1 .. Len(s) - 1 : Tail(s)[i] = s[i + 1]
  OBVIOUS
<1>3. Ids(s) = {Head(s).id} \cup Ids(Tail(s))
  <2>1. ASSUME NEW x \in Ids(s) PROVE x \in {Head(s).id} \cup Ids(Tail(s))
    <3>1. PICK i \in 1 .. Len(s) : x = s[i].id
      BY Zenon, <1>1 DEF Ids
    <3>2. CASE i = 1
      BY Zenon, <3>1, <3>2, <1>1
    <3>3. CASE i # 1
      <4>1. i - 1 \in 1 .. Len(s) - 1 /\ s[i] = s[(i - 1) + 1]
        BY <3>3, <1>1
      <4>2. x = Tail(s)[i - 1].id
        BY Zenon, <3>1, <4>1, <1>2
      <4> QED
        BY Zenon, <4>1, <4>2, <1>1 DEF Ids
    <3> QED
      BY Zenon, <3>2, <3>3
  <2>2. Ids(Tail(s)) \subseteq Ids(s)
    BY <1>1, <1>2 DEF Ids
  <2>3. Head(s).id \in Ids(s)
    BY <1>1 DEF Ids
  <2> QED
    BY Zenon, <2>1, <2>2, <2>3
<1>4. ASSUME InOrder(s) PROVE InOrder(Tail(s)) /\ Below({Head(s).id}, Ids(Tail(s)))
  <2>1. \A i \in 1 .. Len(s) - 1 : s[1].id < s[i + 1].id
    BY <1>1, <1>4 DEF InOrder
  <2>2. Below({Head(s).id}, Ids(Tail(s)))
    BY <2>1, <1>1, <1>2 DEF Below, Ids
  <2>3. InOrder(Tail(s))
    BY <1>1, <1>2, <1>4 DEF InOrder
  <2> QED
    BY Zenon, <2>2, <2>3
<1> QED
  BY Zenon, <1>1, <1>3, <1>4

\* Two sequences, the first before the second, are in order as one.
LEMMA OrderConcat ==
  ASSUME NEW s \in Seq(Mail), NEW u \in Seq(Mail)
  PROVE  /\ s \o u \in Seq(Mail) /\ Ids(s \o u) = Ids(s) \cup Ids(u)
         /\ Values(s \o u) = Values(s) \cup Values(u)
         /\ InOrder(s) /\ InOrder(u) /\ Below(Ids(s), Ids(u)) => InOrder(s \o u)
<1>1. /\ s \o u \in Seq(Mail) /\ DOMAIN s = 1 .. Len(s) /\ DOMAIN u = 1 .. Len(u)
      /\ Len(s) \in Nat /\ Len(u) \in Nat /\ DOMAIN (s \o u) = 1 .. Len(s) + Len(u)
  OBVIOUS
<1>2. \A i \in 1 .. Len(s) : (s \o u)[i] = s[i]
  OBVIOUS
<1>3. \A i \in 1 .. Len(s) + Len(u) : i > Len(s) => (s \o u)[i] = u[i - Len(s)] /\ i - Len(s) \in 1 .. Len(u)
  OBVIOUS
<1>4. \A j \in 1 .. Len(u) : /\ j + Len(s) \in 1 .. Len(s) + Len(u)
                             /\ (s \o u)[j + Len(s)] = u[j]
  OBVIOUS
<1>5. Values(s \o u) = Values(s) \cup Values(u)
  <2>1. Values(s \o u) \subseteq Values(s) \cup Values(u)
    BY <1>1, <1>2, <1>3 DEF Values
  <2>2. Values(s) \subseteq Values(s \o u)
    BY <1>1, <1>2 DEF Values
  <2>3. Values(u) \subseteq Values(s \o u)
    BY Zenon, <1>1, <1>4 DEF Values
  <2> QED
    BY Zenon, <2>1, <2>2, <2>3
<1>6. \A q \in Seq(Mail) : Ids(q) = {m.id : m \in Values(q)}
  BY Zenon DEF Ids, Values
<1>7. Ids(s \o u) = Ids(s) \cup Ids(u)
  <2>1. /\ Ids(s \o u) = {m.id : m \in Values(s \o u)}
        /\ Ids(s) = {m.id : m \in Values(s)} /\ Ids(u) = {m.id : m \in Values(u)}
    BY Zenon, <1>1, <1>6
  <2> HIDE DEF Ids
  <2> QED
    BY <2>1, <1>5, Zenon
<1>8. ASSUME InOrder(s), InOrder(u), Below(Ids(s), Ids(u)) PROVE InOrder(s \o u)
  <2> SUFFICES ASSUME NEW i \in 1 .. Len(s) + Len(u), NEW j \in 1 .. Len(s) + Len(u), i < j
               PROVE  (s \o u)[i].id < (s \o u)[j].id
    BY Zenon, <1>1 DEF InOrder
  <2>1. CASE j <= Len(s)
    BY <2>1, <1>1, <1>2, <1>8 DEF InOrder
  <2>2. CASE i > Len(s)
    <3>1. i - Len(s) \in DOMAIN u /\ j - Len(s) \in DOMAIN u /\ i - Len(s) < j - Len(s)
      BY <2>2, <1>1, <1>3
    <3>2. u[i - Len(s)].id < u[j - Len(s)].id
      BY Zenon, <3>1, <1>8 DEF InOrder
    <3> QED
      BY <3>2, <2>2, <1>3, <1>1
  <2>3. CASE i <= Len(s) /\ j > Len(s)
    <3>1. s[i].id \in Ids(s) /\ u[j - Len(s)].id \in Ids(u)
      <4>1. i \in DOMAIN s /\ j - Len(s) \in DOMAIN u
        BY <2>3, <1>1, <1>3
      <4> QED
        BY Zenon, <4>1 DEF Ids
    <3>2. s[i].id < u[j - Len(s)].id
      BY Zenon, <3>1, <1>8 DEF Below
    <3> QED
      BY <3>2, <2>3, <1>1, <1>2, <1>3
  <2> QED
    BY <2>1, <2>2, <2>3, <1>1
<1> QED
  BY Zenon, <1>1, <1>5, <1>7, <1>8

-----------------------------------------------------------------------------
(* The invariant suffices, and holds at the start.                         *)

LEMMA WayTypes ==
  ASSUME NetTypes, NEW h \in Host
  PROVE  /\ InHand(h) \in Seq(Mail) /\ inbox[h] \in Seq(Mail) /\ sock[h] \in Seq(Mail)
         /\ \A b \in Box : boxes[h][b] \in Seq(Mail)
         /\ taken[h] \in SUBSET Nat
         /\ worker[h] \in [at : {"P", "receive", "put"}, mail : Mail]
         /\ InOrder(InHand(h))
<1>1. /\ inbox[h] \in Seq(Mail) /\ sock[h] \in Seq(Mail) /\ taken[h] \in SUBSET Nat
      /\ \A b \in Box : boxes[h][b] \in Seq(Mail)
  BY Zenon DEF NetTypes
<1>2. worker[h] \in [at : {"P", "receive", "put"}, mail : Mail]
  BY Zenon DEF NetTypes
<1>3. worker[h].mail \in Mail
  BY Zenon, <1>2
<1>4. InHand(h) \in Seq(Mail) /\ InOrder(InHand(h))
  <2>1. CASE worker[h].at = "put"
    <3>1. InHand(h) = << worker[h].mail >>
      BY Zenon, <2>1 DEF InHand
    <3> QED
      BY <3>1, <1>3, IdsOfOne
  <2>2. CASE worker[h].at # "put"
    <3>1. InHand(h) = << >>
      BY Zenon, <2>2 DEF InHand
    <3> QED
      BY <3>1, IdsOfOne
  <2> QED
    BY Zenon, <2>1, <2>2
<1> QED
  BY Zenon, <1>1, <1>2, <1>4

LEMMA NInvSuffices == NInv => MailIsKept
<1> SUFFICES ASSUME NInv PROVE MailIsKept
  BY Zenon
<1> USE DEF NInv
<1>1. WorkerFindsMail
  BY DEF WorkerFindsMail, WorkerToken
<1>2. OnePacketAtATime
  <2> SUFFICES ASSUME NEW t \in Mailer, netAt[t] = "send", sendInt[HostOf[t]] PROVE FALSE
    BY Zenon DEF OnePacketAtATime
  <2>1. HostOf[t] \in Host
    BY Zenon, NetAssumption
  <2>2. PICK u \in Mailer : HostOf[u] = HostOf[t] /\ netAt[u] = "wait"
    BY Zenon, <2>1 DEF SendToken
  <2>3. sendLock[HostOf[t]] = t /\ sendLock[HostOf[t]] = u
    BY Zenon, <2>2 DEF Sending
  <2> QED
    BY Zenon, <2>2, <2>3
<1>3. ASSUME NEW h \in Host
      PROVE  /\ Way(h) \in Seq(Mail) /\ InOrder(Way(h))
             /\ Ids(Way(h)) = Ids(InHand(h)) \cup Ids(inbox[h]) \cup Ids(sock[h])
             /\ Values(Way(h)) = Values(InHand(h)) \cup Values(inbox[h]) \cup Values(sock[h])
  <2>1. /\ InHand(h) \in Seq(Mail) /\ inbox[h] \in Seq(Mail) /\ sock[h] \in Seq(Mail)
        /\ InOrder(InHand(h))
    BY Zenon, WayTypes
  <2>2. InOrder(inbox[h])
    BY <2>1 DEF WorkerToken, InOrder
  <2>3. /\ InOrder(sock[h]) /\ Below(Ids(inbox[h]), Ids(sock[h]))
        /\ Below(Ids(InHand(h)), Ids(inbox[h])) /\ Below(Ids(InHand(h)), Ids(sock[h]))
    BY Zenon DEF MailAt, OrderedAt
  <2> DEFINE front == InHand(h) \o inbox[h]
  <2>4. /\ front \in Seq(Mail) /\ InOrder(front) /\ Ids(front) = Ids(InHand(h)) \cup Ids(inbox[h])
        /\ Values(front) = Values(InHand(h)) \cup Values(inbox[h])
    BY Zenon, <2>1, <2>2, <2>3, OrderConcat
  <2>5. Below(Ids(front), Ids(sock[h]))
    BY Zenon, <2>3, <2>4 DEF Below
  <2>6. Way(h) = front \o sock[h]
    BY Zenon DEF Way
  <2> HIDE DEF front
  <2>7. /\ front \o sock[h] \in Seq(Mail) /\ InOrder(front \o sock[h])
        /\ Ids(front \o sock[h]) = Ids(front) \cup Ids(sock[h])
        /\ Values(front \o sock[h]) = Values(front) \cup Values(sock[h])
    BY Zenon, <2>1, <2>3, <2>4, <2>5, OrderConcat
  <2> QED
    BY Zenon, <2>4, <2>6, <2>7
<1>4. MailKeepsItsOrder
  <2> SUFFICES ASSUME NEW h \in Host, NEW b \in Box
               PROVE  /\ InOrder(boxes[h][b] \o Way(h))
                      /\ \A i \in taken[h], j \in Ids(boxes[h][b] \o Way(h)) : sent[i].box = b => i < j
    BY Zenon DEF MailKeepsItsOrder
  <2>1. boxes[h][b] \in Seq(Mail)
    BY Zenon, WayTypes
  <2>2. OrderedBox(h, b)
    BY Zenon DEF MailAt, OrderedAt
  <2>3. InOrder(boxes[h][b]) /\ Below(Ids(boxes[h][b]), Ids(Way(h)))
    BY Zenon, <1>3, <2>2 DEF OrderedBox, Below
  <2>4. /\ InOrder(boxes[h][b] \o Way(h))
        /\ Ids(boxes[h][b] \o Way(h)) = Ids(boxes[h][b]) \cup Ids(Way(h))
    BY Zenon, <1>3, <2>1, <2>3, OrderConcat
  <2>5. Below(TakenFrom(h, b), Ids(boxes[h][b]) \cup Ids(Way(h)))
    BY Zenon, <1>3, <2>2 DEF OrderedBox, Below
  <2> QED
    BY Zenon, <2>4, <2>5 DEF Below, TakenFrom
<1>5. NoMailVanishes
  <2> SUFFICES ASSUME NEW h \in Host
               PROVE  /\ Arrived(h) = taken[h] \cup Ids(Way(h)) \cup UNION {Ids(boxes[h][b]) : b \in Box}
                      /\ \A i \in DOMAIN Way(h) : Way(h)[i] = sent[Way(h)[i].id]
                      /\ \A b \in Box : \A i \in DOMAIN boxes[h][b] :
                           boxes[h][b][i] = sent[boxes[h][b][i].id] /\ boxes[h][b][i].box = b
    BY Zenon DEF NoMailVanishes
  <2>1. GenuineAt(h) /\ CompleteAt(h)
    BY Zenon DEF MailAt
  <2>2. \A s : Genuine(h, s) => Ids(s) \subseteq Arrived(h) /\ \A m \in Values(s) : m = sent[m.id]
    BY Zenon DEF Genuine, Ids, Values
  <2>3. /\ Ids(Way(h)) \subseteq Arrived(h) /\ \A m \in Values(Way(h)) : m = sent[m.id]
    BY Zenon, <1>3, <2>1, <2>2 DEF GenuineAt
  <2>7. \A i \in DOMAIN Way(h) : Way(h)[i] = sent[Way(h)[i].id]
    BY Zenon, <2>3 DEF Values
  <2>4. Boxed(h) \subseteq Arrived(h)
    BY Zenon, <2>1, <2>2 DEF GenuineAt, Boxed
  <2>5. \A b \in Box : \A i \in DOMAIN boxes[h][b] :
          boxes[h][b][i] = sent[boxes[h][b][i].id] /\ boxes[h][b][i].box = b
    BY Zenon, <2>1 DEF GenuineAt, Genuine, OfBox
  <2>6. Arrived(h) = taken[h] \cup Ids(Way(h)) \cup Boxed(h)
    BY Zenon, <1>3, <2>1, <2>3, <2>4 DEF GenuineAt, CompleteAt
  <2> QED
    BY Zenon, <2>5, <2>6, <2>7 DEF Boxed
<1> QED
  BY Zenon, <1>1, <1>2, <1>4, <1>5 DEF MailIsKept

LEMMA NetInitInv == NetInit => NInv
<1> SUFFICES ASSUME NetInit PROVE NInv
  BY Zenon
<1>1. NoMail \in Mail
  BY DEF NoMail, Mail
<1>2. NetTypes
  BY <1>1, NetAssumption DEF NetInit, NetTypes
<1>3. Sending /\ SendToken /\ WorkerToken
  BY NetAssumption DEF NetInit, Sending, SendToken, WorkerToken
<1>4. ASSUME NEW h \in Host PROVE MailAt(h)
  <2>1. /\ InHand(h) = << >> /\ inbox[h] = << >> /\ sock[h] = << >> /\ taken[h] = {} /\ Arrived(h) = {}
        /\ \A b \in Box : boxes[h][b] = << >>
    BY DEF NetInit, InHand, Arrived
  <2>2. GenuineAt(h)
    BY <2>1 DEF GenuineAt, Genuine, OfBox
  <2>3. OrderedAt(h)
    BY Zenon, <2>1, IdsOfOne DEF OrderedAt, OrderedBox, Below, TakenFrom
  <2>4. CompleteAt(h)
    BY Zenon, <2>1 DEF CompleteAt
  <2> QED
    BY Zenon, <2>2, <2>3, <2>4 DEF MailAt
<1> QED
  BY Zenon, <1>2, <1>3, <1>4 DEF NInv

-----------------------------------------------------------------------------
(* Mail moves from one place to the next.                                  *)

\* What does not change at a machine stays sound.
LEMMA MailKept ==
  ASSUME NEW h \in Host, MailAt(h), UNCHANGED << sent, lost >>, InHand(h)' = InHand(h),
         inbox'[h] = inbox[h], sock'[h] = sock[h], boxes'[h] = boxes[h], taken'[h] = taken[h]
  PROVE  MailAt(h)'
<1>1. Arrived(h)' = Arrived(h) /\ \A b \in Box : TakenFrom(h, b)' = TakenFrom(h, b)
  BY ZenonT(40) DEF Arrived, TakenFrom
<1>2. GenuineAt(h)'
  BY SMTT(30), <1>1 DEF MailAt, GenuineAt, Genuine, OfBox
<1>3. OrderedAt(h)'
  BY Zenon, <1>1 DEF MailAt, OrderedAt, OrderedBox
<1>4. CompleteAt(h)'
  BY Zenon, <1>1 DEF MailAt, CompleteAt, Boxed
<1> QED
  BY Zenon, <1>2, <1>3, <1>4 DEF MailAt

LEMMA GenuineParts ==
  ASSUME NEW h, NEW b, NEW s \in Seq(Mail), s # << >>, Genuine(h, s)
  PROVE  /\ Genuine(h, Tail(s)) /\ Genuine(h, << Head(s) >>)
         /\ Head(s).id \in Arrived(h) /\ Head(s) = sent[Head(s).id]
         /\ OfBox(b, s) => OfBox(b, Tail(s)) /\ Head(s).box = b
<1>1. Head(s) = s[1] /\ 1 \in DOMAIN s
  OBVIOUS
<1>2. Head(s).id \in Arrived(h) /\ Head(s) = sent[Head(s).id]
  BY Zenon, <1>1 DEF Genuine
<1>3. \A i \in DOMAIN Tail(s) : i + 1 \in DOMAIN s /\ Tail(s)[i] = s[i + 1]
  OBVIOUS
<1>4. Genuine(h, Tail(s))
  BY Zenon, <1>3 DEF Genuine
<1>5. Genuine(h, << Head(s) >>)
  BY <1>2 DEF Genuine
<1>6. OfBox(b, s) => OfBox(b, Tail(s)) /\ Head(s).box = b
  BY Zenon, <1>1, <1>3 DEF OfBox
<1> QED
  BY Zenon, <1>2, <1>4, <1>5, <1>6

LEMMA GenuineAppend ==
  ASSUME NEW h, NEW b, NEW s \in Seq(Mail), NEW m \in Mail, Genuine(h, s),
         m.id \in Arrived(h), m = sent[m.id]
  PROVE  /\ Genuine(h, Append(s, m))
         /\ OfBox(b, s) /\ m.box = b => OfBox(b, Append(s, m))
<1>1. \A i \in DOMAIN Append(s, m) : (i \in DOMAIN s /\ Append(s, m)[i] = s[i]) \/ Append(s, m)[i] = m
  OBVIOUS
<1>2. Genuine(h, Append(s, m))
  BY Zenon, <1>1 DEF Genuine
<1>3. OfBox(b, s) /\ m.box = b => OfBox(b, Append(s, m))
  BY ZenonT(40), <1>1 DEF OfBox
<1> QED
  BY Zenon, <1>2, <1>3

\* With the same history, GenuineAt is about the places alone.
LEMMA GenuineNext ==
  ASSUME NEW h, UNCHANGED << sent, lost >>,
         Genuine(h, InHand(h)'), Genuine(h, inbox'[h]), Genuine(h, sock'[h]),
         \A b \in Box : Genuine(h, boxes'[h][b]) /\ OfBox(b, boxes'[h][b]),
         taken'[h] \subseteq Arrived(h)
  PROVE  GenuineAt(h)'
<1>1. Arrived(h)' = Arrived(h)
  BY Zenon DEF Arrived
<1> QED
  BY <1>1 DEF GenuineAt, Genuine, OfBox

\* NetworkInput::CallBack: from the socket to the buffer.
LEMMA ReceiveCallBackMail ==
  ASSUME NetTypes, NEW h \in Host, ReceiveCallBack(h), \A k \in Host : MailAt(k)
  PROVE  \A k \in Host : MailAt(k)'
<1>1. /\ inbox[h] = << >> /\ sock[h] # << >> /\ UNCHANGED << sent, lost, taken, boxes, worker >>
      /\ inbox' = [inbox EXCEPT ![h] = << Head(sock[h]) >>] /\ sock' = [sock EXCEPT ![h] = Tail(@)]
  BY Zenon DEF ReceiveCallBack, history
<1>2. \A k \in Host : InHand(k)' = InHand(k)
  BY Zenon, <1>1 DEF InHand
<1>3. ASSUME NEW k \in Host, k # h PROVE MailAt(k)'
  <2>1. inbox'[k] = inbox[k] /\ sock'[k] = sock[k]
    BY Zenon, <1>1, <1>3 DEF NetTypes
  <2> QED
    BY Zenon, <1>1, <1>2, <1>3, <2>1, MailKept
<1>4. MailAt(h)'
  <2> DEFINE m == Head(sock[h])
  <2>1. sock[h] \in Seq(Mail) /\ \A b \in Box : boxes[h][b] \in Seq(Mail)
    BY Zenon, WayTypes
  <2>2. inbox'[h] = << m >> /\ sock'[h] = Tail(sock[h])
    BY Zenon, <1>1 DEF NetTypes
  <2>3. /\ m \in Mail /\ Tail(sock[h]) \in Seq(Mail) /\ Ids(sock[h]) = {m.id} \cup Ids(Tail(sock[h]))
        /\ InOrder(Tail(sock[h])) /\ Below({m.id}, Ids(Tail(sock[h])))
    BY Zenon, <2>1, <1>1, IdsTail DEF MailAt, OrderedAt
  <2>4. /\ Genuine(h, Tail(sock[h])) /\ Genuine(h, << m >>)
    BY Zenon, <2>1, <1>1, GenuineParts DEF MailAt, GenuineAt
  <2>5. Ids(<< m >>) = {m.id} /\ Ids(inbox[h]) = {}
    BY Zenon, <1>1, <2>3, IdsOfOne
  <2>6. Arrived(h)' = Arrived(h) /\ \A b \in Box : TakenFrom(h, b)' = TakenFrom(h, b)
    BY Zenon, <1>1 DEF Arrived, TakenFrom
  <2>7. GenuineAt(h)'
    BY Zenon, <1>1, <1>2, <2>2, <2>4, GenuineNext DEF MailAt, GenuineAt
  <2> HIDE DEF m
  <2>8. OrderedAt(h)'
    <3>1. /\ InOrder(sock'[h]) /\ Below(Ids(inbox'[h]), Ids(sock'[h]))
          /\ Below(Ids(InHand(h)), Ids(inbox'[h])) /\ Below(Ids(InHand(h)), Ids(sock'[h]))
      BY ZenonT(40), <2>2, <2>3, <2>5 DEF MailAt, OrderedAt, Below
    <3>2. ASSUME NEW b \in Box PROVE OrderedBox(h, b)'
      BY <1>1, <1>2, <2>2, <2>3, <2>5, <2>6 DEF MailAt, OrderedAt, OrderedBox, Below
    <3> QED
      BY Zenon, <1>2, <3>1, <3>2 DEF OrderedAt
  <2>9. CompleteAt(h)'
    BY <1>1, <1>2, <2>2, <2>3, <2>5, <2>6 DEF MailAt, CompleteAt, Boxed
  <2> QED
    BY Zenon, <2>7, <2>8, <2>9 DEF MailAt
<1> QED
  BY Zenon, <1>3, <1>4

\* NetworkInput::Receive: from the buffer into the worker's hands.
LEMMA WorkerReceiveMail ==
  ASSUME NetTypes, WorkerToken, NEW h \in Host, WorkerReceive(h), \A k \in Host : MailAt(k)
  PROVE  \A k \in Host : MailAt(k)'
<1>1. /\ worker[h].at = "receive" /\ UNCHANGED << sent, lost, taken, boxes, sock >>
      /\ inbox' = [inbox EXCEPT ![h] = << >>]
      /\ worker' = [worker EXCEPT ![h].at = "put",
                                  ![h].mail = IF inbox[h] = << >> THEN @ ELSE Head(inbox[h])]
  BY Zenon DEF WorkerReceive, history
<1>2. inbox[h] \in Seq(Mail) /\ Len(inbox[h]) = 1 /\ inbox[h] # << >>
  <2>1. inbox[h] \in Seq(Mail)
    BY Zenon, WayTypes
  <2>2. Len(inbox[h]) = 1
    BY Zenon, <1>1 DEF WorkerToken
  <2>3. inbox[h] # << >>
    <3>1. Len(<< >>) # 1
      OBVIOUS
    <3> QED
      BY Zenon, <2>2, <3>1
  <2> QED
    BY Zenon, <2>1, <2>2, <2>3
<1>3. ASSUME NEW k \in Host, k # h PROVE MailAt(k)'
  <2>1. inbox'[k] = inbox[k] /\ worker'[k] = worker[k]
    BY Zenon, <1>1, <1>3 DEF NetTypes
  <2>2. InHand(k)' = InHand(k)
    BY Zenon, <2>1 DEF InHand
  <2> QED
    BY Zenon, <1>1, <1>3, <2>1, <2>2, MailKept
<1>4. MailAt(h)'
  <2> DEFINE m == Head(inbox[h])
  <2>1. m \in Mail /\ inbox[h] = << m >>
    BY <1>2
  <2>2. worker'[h].at = "put" /\ worker'[h].mail = m
    BY Zenon, <1>1, <1>2, WayTypes DEF NetTypes
  <2>3. InHand(h) = << >> /\ InHand(h)' = << m >> /\ inbox'[h] = << >>
    BY Zenon, <1>1, <2>2 DEF InHand, NetTypes
  <2>4. Ids(<< m >>) = {m.id} /\ Ids(<< >>) = {}
    BY Zenon, <2>1, IdsOfOne
  <2>5. Arrived(h)' = Arrived(h) /\ \A b \in Box : TakenFrom(h, b)' = TakenFrom(h, b)
    BY Zenon, <1>1 DEF Arrived, TakenFrom
  <2> HIDE DEF m
  <2>6. GenuineAt(h)'
    <3>1. Genuine(h, << >>)
      BY DEF Genuine
    <3> QED
      BY Zenon, <1>1, <2>1, <2>3, <3>1, GenuineNext DEF MailAt, GenuineAt
  <2>7. OrderedAt(h)'
    BY <1>1, <2>1, <2>3, <2>4, <2>5 DEF MailAt, OrderedAt, OrderedBox, Below
  <2>8. CompleteAt(h)'
    BY <1>1, <2>1, <2>3, <2>4, <2>5 DEF MailAt, CompleteAt, Boxed
  <2> QED
    BY Zenon, <2>6, <2>7, <2>8 DEF MailAt
<1> QED
  BY Zenon, <1>3, <1>4

\* MailBox::Put: from the worker's hands into the box.
LEMMA PutMail ==
  ASSUME NetTypes, NEW h \in Host, Put(h), \A k \in Host : MailAt(k)
  PROVE  \A k \in Host : MailAt(k)'
<1> DEFINE m == worker[h].mail
           c == m.box
<1>1. /\ worker[h].at = "put" /\ c \in Box /\ UNCHANGED << sent, lost, taken, inbox, sock >>
      /\ boxes' = [boxes EXCEPT ![h][c] = Append(@, m)] /\ worker' = [worker EXCEPT ![h].at = "P"]
  BY Zenon DEF Put, history
<1>2. ASSUME NEW k \in Host, k # h PROVE MailAt(k)'
  <2>1. boxes'[k] = boxes[k] /\ worker'[k] = worker[k]
    BY Zenon, <1>1, <1>2 DEF NetTypes
  <2>2. InHand(k)' = InHand(k)
    BY Zenon, <2>1 DEF InHand
  <2> QED
    BY Zenon, <1>1, <1>2, <2>1, <2>2, MailKept
<1>3. MailAt(h)'
  <2>1. m \in Mail /\ \A b \in Box : boxes[h][b] \in Seq(Mail)
    BY Zenon, WayTypes
  <2>2. boxes'[h][c] = Append(boxes[h][c], m) /\ \A b \in Box : b # c => boxes'[h][b] = boxes[h][b]
    BY Zenon, <1>1 DEF NetTypes
  <2>3. InHand(h) = << m >> /\ InHand(h)' = << >>
    BY <1>1 DEF InHand, NetTypes
  <2>4. Ids(<< m >>) = {m.id} /\ Ids(<< >>) = {}
    BY Zenon, <2>1, IdsOfOne
  <2>5. Arrived(h)' = Arrived(h) /\ \A b \in Box : TakenFrom(h, b)' = TakenFrom(h, b)
    BY Zenon, <1>1 DEF Arrived, TakenFrom
  <2>6. m.id \in Arrived(h) /\ m = sent[m.id]
    <3>1. Genuine(h, << m >>)
      BY Zenon, <2>3 DEF MailAt, GenuineAt
    <3> QED
      BY <3>1 DEF Genuine
  <2>7. OrderedBox(h, c)
    BY Zenon, <1>1 DEF MailAt, OrderedAt
  <2>8. /\ Ids(boxes'[h][c]) = Ids(boxes[h][c]) \cup {m.id} /\ InOrder(boxes'[h][c])
    <3>1. InOrder(boxes[h][c]) /\ Below(Ids(boxes[h][c]), {m.id})
      BY ZenonT(30), <2>3, <2>4, <2>7 DEF OrderedBox
    <3> QED
      BY ZenonT(40), <1>1, <2>1, <2>2, <3>1, IdsAppend
  <2>9. GenuineAt(h)'
    <3>1. Genuine(h, boxes'[h][c]) /\ OfBox(c, boxes'[h][c])
      <4>1. Genuine(h, boxes[h][c]) /\ OfBox(c, boxes[h][c]) /\ boxes[h][c] \in Seq(Mail)
        BY Zenon, <1>1, <2>1 DEF MailAt, GenuineAt
      <4>2. m.box = c
        BY Zenon
      <4> HIDE DEF m, c
      <4> QED
        BY Zenon, <2>1, <2>2, <2>6, <4>1, <4>2, GenuineAppend
    <3>2. ASSUME NEW b \in Box, b # c PROVE Genuine(h, boxes'[h][b]) /\ OfBox(b, boxes'[h][b])
      BY Zenon, <2>2, <3>2 DEF MailAt, GenuineAt
    <3>3. Genuine(h, << >>)
      BY DEF Genuine
    <3>4. \A b \in Box : Genuine(h, boxes'[h][b]) /\ OfBox(b, boxes'[h][b])
      BY Zenon, <3>1, <3>2
    <3> QED
      BY Zenon, <1>1, <2>3, <3>3, <3>4, GenuineNext DEF MailAt, GenuineAt
  <2> HIDE DEF m, c
  <2>10. OrderedAt(h)'
    <3>1. ASSUME NEW b \in Box PROVE OrderedBox(h, b)'
      <4>1. CASE b = c
        <5>1. \A s \in {inbox[h], sock[h]} : /\ Below(TakenFrom(h, c), Ids(s)) /\ Below({m.id}, Ids(s))
                                             /\ Below(Ids(boxes[h][c]), Ids(s))
          BY Zenon, <2>3, <2>4, <2>7 DEF MailAt, OrderedAt, OrderedBox
        <5>2. Below(TakenFrom(h, c), Ids(boxes[h][c])) /\ Below(TakenFrom(h, c), {m.id})
          BY Zenon, <2>3, <2>4, <2>7 DEF OrderedBox
        <5> QED
          BY SMTT(30), <1>1, <2>3, <2>4, <2>5, <2>8, <4>1, <5>1, <5>2 DEF OrderedBox, Below
      <4>2. CASE b # c
        <5>1. OrderedBox(h, b)
          BY Zenon DEF MailAt, OrderedAt
        <5> QED
          BY Zenon, <1>1, <2>2, <2>3, <2>4, <2>5, <4>2, <5>1 DEF OrderedBox, Below
      <4> QED
        BY Zenon, <4>1, <4>2
    <3> QED
      BY Zenon, <1>1, <2>3, <2>4, <3>1 DEF MailAt, OrderedAt, Below
  <2>11. CompleteAt(h)'
    <3>1. \A b \in Box : Ids(boxes[h][b]) \subseteq Ids(boxes'[h][b])
      BY Zenon, <2>2, <2>8
    <3>2. Boxed(h) \cup {m.id} \subseteq Boxed(h)'
      BY <1>1, <2>8, <3>1 DEF Boxed
    <3> QED
      BY Zenon, <1>1, <2>3, <2>4, <2>5, <3>2 DEF MailAt, CompleteAt
  <2> QED
    BY Zenon, <2>9, <2>10, <2>11 DEF MailAt
<1> QED
  BY Zenon, <1>2, <1>3

\* MailBox::Get: from the box to the thread.
LEMMA ReceiveMail ==
  ASSUME NetTypes, NEW t \in Mailer, Receive(t), \A k \in Host : MailAt(k)
  PROVE  \A k \in Host : MailAt(k)'
<1>c. PICK c \in Box : c = Op(t).box
  BY Zenon DEF Receive
<1> DEFINE h == HostOf[t]
           m == Head(boxes[h][c])
<1>1. /\ h \in Host /\ c \in Box /\ boxes[h][c] # << >> /\ UNCHANGED << sent, lost, inbox, sock, worker >>
      /\ boxes' = [boxes EXCEPT ![h][c] = Tail(@)] /\ taken' = [taken EXCEPT ![h] = @ \cup {m.id}]
  BY Zenon, <1>c, NetAssumption DEF Receive
<1> HIDE DEF h
<1>2. \A k \in Host : InHand(k)' = InHand(k)
  BY Zenon, <1>1 DEF InHand
<1>3. ASSUME NEW k \in Host, k # h PROVE MailAt(k)'
  <2>1. boxes'[k] = boxes[k] /\ taken'[k] = taken[k]
    BY Zenon, <1>1, <1>3 DEF NetTypes
  <2> QED
    BY Zenon, <1>1, <1>2, <1>3, <2>1, MailKept
<1>4. MailAt(h)'
  <2>1. \A b \in Box : boxes[h][b] \in Seq(Mail)
    BY Zenon, <1>1, WayTypes
  <2>2. /\ boxes'[h][c] = Tail(boxes[h][c]) /\ \A b \in Box : b # c => boxes'[h][b] = boxes[h][b]
        /\ taken'[h] = taken[h] \cup {m.id}
    BY Zenon, <1>1 DEF NetTypes
  <2>3. GenuineAt(h) /\ OrderedAt(h) /\ CompleteAt(h)
    BY Zenon, <1>1 DEF MailAt
  <2>4. /\ m \in Mail /\ Tail(boxes[h][c]) \in Seq(Mail)
        /\ Ids(boxes[h][c]) = {m.id} \cup Ids(Tail(boxes[h][c]))
        /\ InOrder(Tail(boxes[h][c])) /\ Below({m.id}, Ids(Tail(boxes[h][c])))
    BY Zenon, <1>1, <2>1, <2>3, IdsTail DEF OrderedAt, OrderedBox
  <2>5. /\ Genuine(h, Tail(boxes[h][c])) /\ m.id \in Arrived(h) /\ m = sent[m.id]
        /\ OfBox(c, Tail(boxes[h][c])) /\ m.box = c
    <3>1. Genuine(h, boxes[h][c]) /\ OfBox(c, boxes[h][c]) /\ boxes[h][c] \in Seq(Mail)
      BY Zenon, <1>1, <2>1, <2>3 DEF GenuineAt
    <3> DEFINE q == boxes[h][c]
    <3>2. q # << >> /\ q \in Seq(Mail) /\ Genuine(h, q) /\ OfBox(c, q) /\ m = Head(q)
      BY Zenon, <1>1, <3>1
    <3> HIDE DEF m, q
    <3>3. /\ Genuine(h, Tail(q)) /\ Head(q).id \in Arrived(h) /\ Head(q) = sent[Head(q).id]
          /\ OfBox(c, Tail(q)) /\ Head(q).box = c
      BY ZenonT(40), <3>2, GenuineParts
    <3> QED
      BY Zenon, <3>2, <3>3 DEF q
  <2> HIDE DEF m
  <2>7. Arrived(h)' = Arrived(h)
    BY Zenon, <1>1 DEF Arrived
  <2>8. /\ TakenFrom(h, c)' = TakenFrom(h, c) \cup {m.id}
        /\ \A b \in Box : b # c => TakenFrom(h, b)' = TakenFrom(h, b)
    <3>1. sent[m.id].box = c /\ sent' = sent
      BY Zenon, <1>1, <2>5
    <3>2. \A b : TakenFrom(h, b)' = {i \in taken[h] \cup {m.id} : sent[i].box = b}
      BY Zenon, <2>2, <3>1 DEF TakenFrom
    <3>3. \A b : TakenFrom(h, b) = {i \in taken[h] : sent[i].box = b}
      BY Zenon DEF TakenFrom
    <3>4. {i \in taken[h] \cup {m.id} : sent[i].box = c} = {i \in taken[h] : sent[i].box = c} \cup {m.id}
      BY Zenon, <3>1
    <3>5. ASSUME NEW b \in Box, b # c
          PROVE  {i \in taken[h] \cup {m.id} : sent[i].box = b} = {i \in taken[h] : sent[i].box = b}
      BY Zenon, <3>1, <3>5
    <3> QED
      BY Zenon, <3>2, <3>3, <3>4, <3>5
  <2>9. GenuineAt(h)'
    <3>1. ASSUME NEW b \in Box PROVE Genuine(h, boxes'[h][b]) /\ OfBox(b, boxes'[h][b])
      <4>1. CASE b = c
        BY Zenon, <2>2, <2>5, <4>1
      <4>2. CASE b # c
        BY Zenon, <2>2, <2>3, <4>2 DEF GenuineAt
      <4> QED
        BY Zenon, <4>1, <4>2
    <3> QED
      BY Zenon, <1>1, <1>2, <2>2, <2>3, <2>5, <3>1, GenuineNext DEF GenuineAt
  <2>10. OrderedAt(h)'
    <3>1. ASSUME NEW b \in Box PROVE OrderedBox(h, b)'
      <4> DEFINE way == {InHand(h), inbox[h], sock[h]}
      <4>1. OrderedBox(h, b) /\ way' = way
        BY Zenon, <1>1, <1>2, <2>3 DEF OrderedAt
      <4>2. /\ Below(TakenFrom(h, b), Ids(boxes[h][b])) /\ InOrder(boxes[h][b])
            /\ \A s \in way : Below(TakenFrom(h, b), Ids(s)) /\ Below(Ids(boxes[h][b]), Ids(s))
        BY Zenon, <4>1 DEF OrderedBox
      <4>3. SUFFICES /\ InOrder(boxes'[h][b]) /\ Below(TakenFrom(h, b)', Ids(boxes'[h][b]))
                     /\ \A s \in way : Below(TakenFrom(h, b)', Ids(s)) /\ Below(Ids(boxes'[h][b]), Ids(s))
        BY Zenon, <4>1 DEF OrderedBox
      <4> HIDE DEF way
      <4>4. CASE b = c
        <5>1. /\ boxes'[h][b] = Tail(boxes[h][b]) /\ TakenFrom(h, b)' = TakenFrom(h, b) \cup {m.id}
              /\ Ids(boxes[h][b]) = {m.id} \cup Ids(boxes'[h][b])
              /\ InOrder(boxes'[h][b]) /\ Below({m.id}, Ids(boxes'[h][b]))
          BY Zenon, <2>2, <2>4, <2>8, <4>4
        <5>2. Below(TakenFrom(h, b)', Ids(boxes'[h][b]))
          BY Zenon, <4>2, <5>1 DEF Below
        <5>3. ASSUME NEW s \in way PROVE Below(TakenFrom(h, b)', Ids(s)) /\ Below(Ids(boxes'[h][b]), Ids(s))
          BY Zenon, <4>2, <5>1 DEF Below
        <5> QED
          BY Zenon, <5>1, <5>2, <5>3
      <4>5. CASE b # c
        BY Zenon, <2>2, <2>8, <4>2, <4>5
      <4> QED
        BY Zenon, <4>4, <4>5
    <3> QED
      BY Zenon, <1>1, <1>2, <2>3, <3>1 DEF OrderedAt
  <2>11. CompleteAt(h)'
    <3>1. ASSUME NEW x \in Boxed(h) PROVE x \in Boxed(h)' \cup taken'[h]
      <4>1. PICK b \in Box : x \in Ids(boxes[h][b])
        BY Zenon, <3>1 DEF Boxed
      <4>2. x \in Ids(boxes'[h][b]) \/ x = m.id
        BY Zenon, <2>2, <2>4, <4>1
      <4> QED
        BY Zenon, <2>2, <4>2 DEF Boxed
    <3> QED
      BY Zenon, <1>1, <1>2, <2>2, <2>3, <2>7, <3>1 DEF CompleteAt
  <2> QED
    BY Zenon, <2>9, <2>10, <2>11 DEF MailAt
<1> QED
  BY Zenon, <1>3, <1>4

\* The calls of the scripts, and the mail a call sends.
LEMMA ScriptCalls == setup \in Setups => \A t \in Mailer : Script[t] \in Seq(Call)
<1> SUFFICES ASSUME setup \in Setups, NEW t \in Mailer PROVE Script[t] \in Seq(Call)
  BY Zenon
<1>1. CASE t \notin setup.testers
  BY Zenon, <1>1, NetAssumption DEF Script
<1>2. CASE t \in setup.testers
  <2>1. \E h \in Host : h # HostOf[t]
    BY Zenon, <1>2, NetAssumption
  <2>2. PICK far \in Host : far = CHOOSE h \in Host : h # HostOf[t]
    BY Zenon, <2>1
  <2>3. far \in Int
    BY Zenon, NetAssumption
  <2>4. /\ [op |-> "send", to |-> far, box |-> 0, reply |-> 1] \in Call
        /\ [op |-> "receive", box |-> 0] \in Call /\ [op |-> "receive", box |-> 1] \in Call
        /\ [op |-> "reply", reply |-> 1] \in Call
    BY <2>3 DEF Call
  <2>5. Script[t] = NetworkTest(far)
    BY Zenon, <1>2, <2>2 DEF Script
  <2> HIDE DEF Call
  <2> QED
    BY <2>4, <2>5 DEF NetworkTest
<1> QED
  BY Zenon, <1>1, <1>2

LEMMA MailOfType ==
  ASSUME NetTypes, Sending, NEW t \in Mailer, netAt[t] = "send"
  PROVE  MailOf(t) \in Mail /\ MailOf(t).id = Len(sent) + 1
<1>1. Op(t) \in Call /\ Op(t).op \in {"send", "reply"}
  BY ScriptCalls DEF NetTypes, Sending, Op
<1>2. Op(t).reply \in Int /\ (Op(t).op = "send" => Op(t).to \in Int /\ Op(t).box \in Int)
  BY <1>1 DEF Call
<1>3. last[t].from \in Int /\ last[t].reply \in Int /\ HostOf[t] \in Int /\ Len(sent) + 1 \in Nat
  <2>1. last[t] \in Mail /\ HostOf[t] \in Host /\ sent \in Seq(Mail)
    BY Zenon, NetAssumption DEF NetTypes
  <2>2. last[t].from \in Int /\ last[t].reply \in Int
    BY Zenon, <2>1 DEF Mail
  <2>3. HostOf[t] \in Int
    BY Zenon, <2>1, NetAssumption
  <2>4. Len(sent) + 1 \in Nat
    BY <2>1
  <2> QED
    BY Zenon, <2>2, <2>3, <2>4
<1> QED
  BY Zenon, <1>1, <1>2, <1>3 DEF MailOf, Mail

\* A packet to another machine, or one that is lost, changes nothing here.
LEMMA SentElsewhere ==
  ASSUME NEW h \in Host, MailAt(h), \A i \in DOMAIN sent : sent'[i] = sent[i],
         Arrived(h)' = Arrived(h), UNCHANGED << inbox, boxes, worker, taken >>, sock'[h] = sock[h]
  PROVE  MailAt(h)'
<1>1. InHand(h)' = InHand(h)
  BY Zenon DEF InHand
<1>2. \A i \in Arrived(h) : sent'[i] = sent[i]
  BY Zenon DEF Arrived
<1>3. \A b : TakenFrom(h, b)' = TakenFrom(h, b)
  <2>1. taken[h] \subseteq Arrived(h)
    BY Zenon DEF MailAt, GenuineAt
  <2> QED
    BY Zenon, <1>2, <2>1 DEF TakenFrom
<1>4. \A s : Genuine(h, s) => \A i \in DOMAIN s : s[i].id \in Arrived(h)' /\ s[i] = sent'[s[i].id]
  BY Zenon, <1>2 DEF Genuine
<1>5. GenuineAt(h)'
  <2> DEFINE Now(s) == \A i \in DOMAIN s : s[i].id \in Arrived(h)' /\ s[i] = sent'[s[i].id]
  <2>1. /\ Now(InHand(h)) /\ Now(inbox[h]) /\ Now(sock[h]) /\ taken[h] \subseteq Arrived(h)'
        /\ \A b \in Box : Now(boxes[h][b]) /\ OfBox(b, boxes[h][b])
    BY Zenon, <1>4 DEF MailAt, GenuineAt
  <2>2. (Genuine(h, InHand(h)) /\ Genuine(h, inbox[h]) /\ Genuine(h, sock[h]))'
    BY Zenon, <1>1, <2>1 DEF Genuine
  <2>3. ASSUME NEW b \in Box PROVE (Genuine(h, boxes[h][b]) /\ OfBox(b, boxes[h][b]))'
    BY Zenon, <2>1 DEF Genuine, OfBox
  <2> QED
    BY ZenonT(30), <2>1, <2>2, <2>3 DEF GenuineAt
<1>6. OrderedAt(h)'
  BY Zenon, <1>1, <1>3 DEF MailAt, OrderedAt, OrderedBox
<1>7. CompleteAt(h)'
  BY <1>1 DEF MailAt, CompleteAt, Boxed
<1> QED
  BY Zenon, <1>5, <1>6, <1>7 DEF MailAt

\* NetworkOutput::Send: a packet is lost, or is the last one at its socket.
LEMMA SendMail ==
  ASSUME NetTypes, Sending, NEW t \in Mailer, Send(t), \A k \in Host : MailAt(k)
  PROVE  (\A k \in Host : MailAt(k)') /\ sock' \in [Host -> Seq(Mail)] /\ sent' \in Seq(Mail)
         /\ lost' \subseteq DOMAIN sent'
<1> DEFINE n == Len(sent) + 1
<1>1. PICK m \in Mail : m = MailOf(t) /\ m.id = n
  BY MailOfType DEF Send
<1>2. /\ sent' = Append(sent, m) /\ UNCHANGED << inbox, boxes, worker, taken >>
      /\ \/ lost' = lost \cup {n} /\ sock' = sock
         \/ m.to \in up /\ lost' = lost /\ sock' = [sock EXCEPT ![m.to] = Append(@, m)]
  BY Zenon, <1>1 DEF Send, SendToSocket, inVars
<1>3. /\ sent' \in Seq(Mail) /\ n \in Nat /\ DOMAIN sent' = DOMAIN sent \cup {n} /\ n \notin DOMAIN sent
      /\ sent'[n] = m /\ (\A i \in DOMAIN sent : sent'[i] = sent[i] /\ i < n)
  BY SMTT(30), <1>2 DEF NetTypes
<1>4. lost \subseteq DOMAIN sent /\ n \notin lost
  BY Zenon, <1>3 DEF NetTypes
<1> HIDE DEF n
<1>5. CASE lost' = lost \cup {n} /\ sock' = sock
  <2>1. ASSUME NEW k \in Host PROVE MailAt(k)'
    <3>1. Arrived(k)' = Arrived(k)
      BY Zenon, <1>3, <1>5 DEF Arrived
    <3> QED
      BY Zenon, <1>2, <1>3, <1>5, <3>1, SentElsewhere
  <2> QED
    BY Zenon, <1>3, <1>4, <1>5, <2>1 DEF NetTypes
<1>6. CASE m.to \in up /\ lost' = lost /\ sock' = [sock EXCEPT ![m.to] = Append(@, m)]
  <2>1. PICK h \in Host : h = m.to
    BY Zenon, <1>6 DEF NetTypes
  <2>2. sock \in [Host -> Seq(Mail)] /\ sock'[h] = Append(sock[h], m)
    BY Zenon, <1>6, <2>1 DEF NetTypes
  <2>3. sock' \in [Host -> Seq(Mail)]
    BY <1>6, <2>1, <2>2
  <2>4. ASSUME NEW k \in Host, k # h PROVE MailAt(k)'
    <3>1. Arrived(k)' = Arrived(k)
      BY Zenon, <1>3, <1>6, <2>1, <2>4 DEF Arrived
    <3>2. sock'[k] = sock[k]
      BY Zenon, <1>6, <2>1, <2>2, <2>4
    <3> QED
      BY Zenon, <1>2, <1>3, <2>4, <3>1, <3>2, SentElsewhere
  <2>5. MailAt(h)'
    <3>1. Arrived(h)' = Arrived(h) \cup {n} /\ Arrived(h) \subseteq DOMAIN sent
      BY Zenon, <1>3, <1>4, <1>6, <2>1 DEF Arrived
    <3>2. InHand(h)' = InHand(h)
      BY Zenon, <1>2 DEF InHand
    <3>3. \A s : Genuine(h, s) => /\ Ids(s) \subseteq DOMAIN sent
                                  /\ \A i \in DOMAIN s : s[i].id \in Arrived(h)' /\ s[i] = sent'[s[i].id]
      BY <1>3, <3>1 DEF Genuine, Ids
    <3>4. GenuineAt(h) /\ OrderedAt(h) /\ CompleteAt(h)
      BY Zenon DEF MailAt
    <3>5. /\ Ids(sock[h]) \subseteq DOMAIN sent /\ Ids(inbox[h]) \subseteq DOMAIN sent
          /\ Ids(InHand(h)) \subseteq DOMAIN sent /\ taken[h] \subseteq DOMAIN sent
          /\ \A b \in Box : Ids(boxes[h][b]) \subseteq DOMAIN sent
      BY Zenon, <3>1, <3>3, <3>4 DEF GenuineAt
    <3>6. Ids(sock'[h]) = Ids(sock[h]) \cup {n} /\ InOrder(sock'[h])
      <4>1. Below(Ids(sock[h]), {m.id})
        BY SMTT(30), <1>1, <1>3, <3>5 DEF Below
      <4>2. sock[h] \in Seq(Mail)
        BY Zenon, <2>2
      <4> QED
        BY Zenon, <1>1, <2>2, <3>4, <4>1, <4>2, IdsAppend DEF OrderedAt
    <3>7. GenuineAt(h)'
      <4>2. \A i \in DOMAIN Append(sock[h], m) :
              \/ i \in DOMAIN sock[h] /\ Append(sock[h], m)[i] = sock[h][i]
              \/ Append(sock[h], m)[i] = m
        <5>1. sock[h] \in Seq(Mail)
          BY Zenon, <2>2
        <5> QED
          BY <5>1
      <4>3. \A i \in DOMAIN sock'[h] : sock'[h][i].id \in Arrived(h)' /\ sock'[h][i] = sent'[sock'[h][i].id]
        <5> SUFFICES ASSUME NEW i \in DOMAIN sock'[h]
                     PROVE  sock'[h][i].id \in Arrived(h)' /\ sock'[h][i] = sent'[sock'[h][i].id]
          OBVIOUS
        <5>1. CASE i \in DOMAIN sock[h] /\ sock'[h][i] = sock[h][i]
          BY Zenon, <3>3, <3>4, <5>1 DEF GenuineAt
        <5>2. CASE sock'[h][i] = m
          BY Zenon, <1>1, <1>3, <3>1, <5>2
        <5> QED
          BY Zenon, <2>2, <4>2, <5>1, <5>2
      <4> DEFINE Now(s) == \A i \in DOMAIN s : s[i].id \in Arrived(h)' /\ s[i] = sent'[s[i].id]
      <4>4. /\ Now(InHand(h)) /\ Now(inbox[h]) /\ Now(sock'[h]) /\ taken[h] \subseteq Arrived(h)'
            /\ \A b \in Box : Now(boxes[h][b]) /\ OfBox(b, boxes[h][b])
        BY Zenon, <3>1, <3>3, <3>4, <4>3 DEF GenuineAt
      <4>5. Now(InHand(h)') /\ Now(inbox'[h]) /\ Now(sock'[h]) 
              => (Genuine(h, InHand(h)) /\ Genuine(h, inbox[h]) /\ Genuine(h, sock[h]))'
        BY Zenon DEF Genuine
      <4>6. ASSUME NEW b \in Box PROVE (Genuine(h, boxes[h][b]) /\ OfBox(b, boxes[h][b]))'
        BY Zenon, <1>2, <4>4 DEF Genuine, OfBox
      <4> QED
        BY ZenonT(40), <1>2, <3>2, <4>4, <4>5, <4>6 DEF GenuineAt
    <3>8. OrderedAt(h)'
      <4>1. \A b : TakenFrom(h, b)' = TakenFrom(h, b)
        BY Zenon, <1>2, <1>3, <3>5 DEF TakenFrom
      <4>2. /\ Below(Ids(inbox[h]), Ids(sock'[h])) /\ Below(Ids(InHand(h)), Ids(sock'[h]))
        BY Zenon, <1>3, <3>4, <3>5, <3>6 DEF OrderedAt, Below
      <4>3. ASSUME NEW b \in Box PROVE OrderedBox(h, b)'
        <5>1. OrderedBox(h, b) /\ TakenFrom(h, b) \subseteq DOMAIN sent
          BY Zenon, <3>4, <3>5 DEF OrderedAt, TakenFrom
        <5>2. Below(TakenFrom(h, b), Ids(sock'[h])) /\ Below(Ids(boxes[h][b]), Ids(sock'[h]))
          BY Zenon, <1>3, <3>5, <3>6, <5>1 DEF OrderedBox, Below
        <5> QED
          BY Zenon, <1>2, <3>2, <4>1, <5>1, <5>2 DEF OrderedBox
      <4> QED
        BY Zenon, <1>2, <3>2, <3>4, <3>6, <4>2, <4>3 DEF OrderedAt
    <3>9. CompleteAt(h)'
      <4>1. Boxed(h)' = Boxed(h)
        BY Zenon, <1>2 DEF Boxed
      <4> QED
        BY Zenon, <1>2, <3>1, <3>2, <3>4, <3>6, <4>1 DEF CompleteAt
    <3> QED
      BY Zenon, <3>7, <3>8, <3>9 DEF MailAt
  <2> QED
    BY Zenon, <1>3, <1>4, <1>6, <2>3, <2>4, <2>5
<1> QED
  BY Zenon, <1>2, <1>5, <1>6

-----------------------------------------------------------------------------
(* The lock and the two semaphores.                                        *)

\* A step that leaves the threads, the lock and the output device alone.
LEMMA OutKept ==
  ASSUME Sending, SendToken, UNCHANGED << setup, pc, netAt, sendLock, sendInt, messageSent >>
  PROVE  Sending' /\ SendToken'
<1>1. Script' = Script
  BY DEF Script
<1>2. \A t \in Mailer : Op(t)' = Op(t)
  BY Zenon, <1>1 DEF Op
<1> QED
  BY ZenonT(40), <1>1, <1>2 DEF Sending, SendToken

\* The same for the input device and the worker.
LEMMA InKept ==
  ASSUME WorkerToken, UNCHANGED << inbox, worker, messageAvailable >>
  PROVE  WorkerToken'
  BY Zenon DEF WorkerToken

\* A thread moves on; the others keep their calls.
LEMMA ScriptKept ==
  ASSUME UNCHANGED setup, NEW u \in Mailer, pc'[u] = pc[u]
  PROVE  Script' = Script /\ Op(u)' = Op(u)
  BY DEF Script, Op

LEMMA AcquireKeeps ==
  ASSUME NetTypes, Sending, SendToken, NEW t \in Mailer, AcquireSendLock(t), UNCHANGED setup
  PROVE  NetTypes' /\ Sending' /\ SendToken'
<1> DEFINE h == HostOf[t]
<1>1. /\ h \in Host /\ sendLock[h] = NoMailer /\ pc[t] \in DOMAIN Script[t] /\ netAt[t] = "call"
      /\ Op(t).op \in {"send", "reply"}
      /\ sendLock' = [sendLock EXCEPT ![h] = t] /\ netAt' = [netAt EXCEPT ![t] = "send"]
      /\ UNCHANGED << up, sock, sent, lost, taken, sendInt, messageSent, inbox, messageAvailable, boxes,
                      worker, pc, last >>
  BY Zenon, NetAssumption DEF AcquireSendLock, Ready, history, inVars
<1> HIDE DEF h
<1>2. NetTypes'
  BY Zenon, <1>1 DEF NetTypes
<1>3. Sending'
  <2> SUFFICES ASSUME NEW u \in Mailer
               PROVE  /\ netAt'[u] = "send" => pc'[u] \in DOMAIN (Script[u])' /\ (Op(u).op)' \in {"send", "reply"}
                      /\ netAt'[u] # "call" <=> sendLock'[HostOf[u]] = u
    BY Zenon DEF Sending
  <2>1. Script' = Script /\ Op(u)' = Op(u) /\ pc'[u] = pc[u]
    BY Zenon, <1>1, ScriptKept
  <2>2. HostOf[u] \in Host /\ HostOf[t] = h /\ u # NoMailer
    BY Zenon, NetAssumption DEF h
  <2>3. CASE u = t
    BY Zenon, <1>1, <2>1, <2>2, <2>3 DEF NetTypes
  <2>4. CASE u # t
    <3>1. netAt'[u] = netAt[u]
      BY Zenon, <1>1, <2>4 DEF NetTypes
    <3>2. sendLock'[HostOf[u]] = u <=> sendLock[HostOf[u]] = u
      BY Zenon, <1>1, <2>2, <2>4 DEF NetTypes
    <3> QED
      BY Zenon, <2>1, <3>1, <3>2 DEF Sending
  <2> QED
    BY Zenon, <2>3, <2>4
<1>4. SendToken'
  <2>1. \A u \in Mailer : netAt[u] = "wait" => netAt'[u] = "wait"
    BY Zenon, <1>1 DEF NetTypes
  <2> QED
    BY Zenon, <1>1, <2>1 DEF SendToken
<1> QED
  BY Zenon, <1>2, <1>3, <1>4

\* The holder of the lock is alone in Send on its machine.
LEMMA OnlyHolder ==
  ASSUME Sending, NEW t \in Mailer, netAt[t] # "call", NEW u \in Mailer, HostOf[u] = HostOf[t],
         netAt[u] # "call"
  PROVE  u = t
  BY DEF Sending

LEMMA SendKeeps ==
  ASSUME NetTypes, Sending, SendToken, NEW t \in Mailer, Send(t), UNCHANGED setup,
         \A k \in Host : MailAt(k)
  PROVE  NetTypes' /\ Sending' /\ SendToken'
<1> DEFINE h == HostOf[t]
<1>1. /\ h \in Host /\ netAt[t] = "send"
      /\ sendInt' = [sendInt EXCEPT ![h] = TRUE] /\ netAt' = [netAt EXCEPT ![t] = "wait"]
      /\ UNCHANGED << up, taken, sendLock, messageSent, inbox, messageAvailable, boxes, worker, pc, last >>
  BY Zenon, NetAssumption DEF Send, inVars
<1>2. NetTypes'
  <2>1. sock' \in [Host -> Seq(Mail)] /\ sent' \in Seq(Mail) /\ lost' \subseteq DOMAIN sent'
    BY Zenon, SendMail
  <2> QED
    BY Zenon, <1>1, <2>1 DEF NetTypes
<1>3. Sending'
  <2> SUFFICES ASSUME NEW u \in Mailer
               PROVE  /\ netAt'[u] = "send" => pc'[u] \in DOMAIN (Script[u])' /\ (Op(u).op)' \in {"send", "reply"}
                      /\ netAt'[u] # "call" <=> sendLock'[HostOf[u]] = u
    BY Zenon DEF Sending
  <2>1. Script' = Script /\ Op(u)' = Op(u) /\ pc'[u] = pc[u]
    BY Zenon, <1>1, ScriptKept
  <2>2. netAt'[u] = IF u = t THEN "wait" ELSE netAt[u]
    BY Zenon, <1>1 DEF NetTypes
  <2> QED
    BY <1>1, <2>1, <2>2 DEF Sending
<1>4. SendToken'
  <2>1. ~sendInt[h] /\ messageSent[h] = 0
    <3>1. ASSUME NEW u \in Mailer, HostOf[u] = h, netAt[u] = "wait" PROVE FALSE
      BY Zenon, <1>1, <3>1, OnlyHolder
    <3>2. messageSent[h] \in Nat
      BY Zenon, <1>1 DEF NetTypes
    <3> QED
      BY SMTT(30), <1>1, <3>1, <3>2 DEF SendToken
  <2>2. \A u \in Mailer : netAt[u] = "wait" => netAt'[u] = "wait"
    BY Zenon, <1>1 DEF NetTypes
  <2>3. netAt'[t] = "wait" /\ HostOf[t] = h
    BY Zenon, <1>1 DEF NetTypes
  <2> HIDE DEF h
  <2> QED
    BY SMTT(30), <1>1, <2>1, <2>2, <2>3 DEF SendToken, NetTypes
<1> QED
  BY Zenon, <1>2, <1>3, <1>4

LEMMA SendCallBackKeeps ==
  ASSUME NetTypes, Sending, SendToken, NEW h \in Host, SendCallBack(h), UNCHANGED setup
  PROVE  NetTypes' /\ Sending' /\ SendToken'
<1>1. /\ sendInt[h] /\ sendInt' = [sendInt EXCEPT ![h] = FALSE]
      /\ messageSent' = [messageSent EXCEPT ![h] = @ + 1]
      /\ UNCHANGED << up, sock, sent, lost, taken, sendLock, inbox, messageAvailable, boxes, worker, pc,
                      netAt, last >>
  BY Zenon DEF SendCallBack, history, inVars, threadVars
<1>2. NetTypes'
  BY SMTT(30), <1>1 DEF NetTypes
<1>3. Sending'
  <2>1. Script' = Script
    BY DEF Script
  <2> QED
    BY Zenon, <1>1, <2>1 DEF Sending, Op
<1>4. SendToken'
  <2>1. messageSent[h] = 0 /\ \E t \in Mailer : HostOf[t] = h /\ netAt[t] = "wait"
    BY Zenon, <1>1 DEF SendToken
  <2>2. messageSent'[h] = 1 /\ sendInt'[h] = FALSE
    BY <1>1, <2>1 DEF NetTypes
  <2>3. \A k \in Host : k # h => messageSent'[k] = messageSent[k] /\ sendInt'[k] = sendInt[k]
    BY Zenon, <1>1 DEF NetTypes
  <2>4. ASSUME NEW k \in Host
        PROVE  /\ messageSent'[k] <= 1 /\ (sendInt'[k] => messageSent'[k] = 0)
               /\ sendInt'[k] \/ messageSent'[k] = 1 => \E t \in Mailer : HostOf[t] = k /\ netAt[t] = "wait"
    <3>1. CASE k = h
      BY <2>1, <2>2, <3>1
    <3>2. CASE k # h
      BY <2>3, <3>2 DEF SendToken
    <3> QED
      BY Zenon, <3>1, <3>2
  <2> QED
    BY Zenon, <1>1, <2>4 DEF SendToken
<1> QED
  BY Zenon, <1>2, <1>3, <1>4

LEMMA SentKeeps ==
  ASSUME NetTypes, Sending, SendToken, NEW t \in Mailer, Sent(t), UNCHANGED setup
  PROVE  NetTypes' /\ Sending' /\ SendToken'
<1> DEFINE h == HostOf[t]
<1>1. /\ h \in Host /\ netAt[t] = "wait" /\ messageSent[h] > 0
      /\ messageSent' = [messageSent EXCEPT ![h] = @ - 1] /\ sendLock' = [sendLock EXCEPT ![h] = NoMailer]
      /\ netAt' = [netAt EXCEPT ![t] = "call"] /\ pc' = [pc EXCEPT ![t] = @ + 1]
      /\ UNCHANGED << up, sock, sent, lost, taken, sendInt, inbox, messageAvailable, boxes, worker, last >>
  BY Zenon, NetAssumption DEF Sent, history, inVars
<1>2. messageSent[h] = 1 /\ ~sendInt[h]
  <2>1. messageSent[h] \in Nat /\ messageSent[h] <= 1 /\ (sendInt[h] => messageSent[h] = 0)
    BY Zenon, <1>1 DEF SendToken, NetTypes
  <2>2. messageSent[h] = 1
    <3>1. \A k \in Nat : k <= 1 /\ k > 0 => k = 1
      OBVIOUS
    <3> QED
      BY Zenon, <1>1, <2>1, <3>1
  <2>3. 1 # 0
    OBVIOUS
  <2> QED
    BY Zenon, <2>1, <2>2, <2>3
<1>3. NetTypes'
  <2>1. messageSent' \in [Host -> Nat] /\ pc' \in [Mailer -> Nat]
    <3>1. 1 - 1 \in Nat /\ \A k \in Nat : k + 1 \in Nat
      OBVIOUS
    <3> QED
      BY Zenon, <1>1, <1>2, <3>1 DEF NetTypes
  <2> QED
    BY Zenon, <1>1, <2>1 DEF NetTypes
<1>4. Sending'
  <2> SUFFICES ASSUME NEW u \in Mailer
               PROVE  /\ netAt'[u] = "send" => pc'[u] \in DOMAIN (Script[u])' /\ (Op(u).op)' \in {"send", "reply"}
                      /\ netAt'[u] # "call" <=> sendLock'[HostOf[u]] = u
    BY Zenon DEF Sending
  <2>1. HostOf[u] \in Host /\ u # NoMailer
    BY Zenon, NetAssumption
  <2>2. CASE u = t
    BY Zenon, <1>1, <2>1, <2>2 DEF NetTypes
  <2>3. CASE u # t
    <3>1. netAt'[u] = netAt[u] /\ pc'[u] = pc[u]
      BY Zenon, <1>1, <2>3 DEF NetTypes
    <3>2. Script' = Script /\ Op(u)' = Op(u)
      BY Zenon, <3>1, ScriptKept
    <3>3. sendLock'[HostOf[u]] = u <=> sendLock[HostOf[u]] = u
      <4>1. HostOf[u] = h => sendLock[HostOf[u]] # u
        BY Zenon, <1>1, <2>3 DEF Sending
      <4> QED
        BY Zenon, <1>1, <2>1, <4>1 DEF NetTypes
    <3> QED
      BY Zenon, <3>1, <3>2, <3>3 DEF Sending
  <2> QED
    BY Zenon, <2>2, <2>3
<1>5. SendToken'
  <2>1. messageSent'[h] = 0 /\ ~sendInt'[h]
    <3>1. 1 - 1 = 0
      OBVIOUS
    <3> QED
      BY Zenon, <1>1, <1>2, <3>1 DEF NetTypes
  <2>2. ASSUME NEW k \in Host, k # h
        PROVE  /\ messageSent'[k] <= 1 /\ (sendInt'[k] => messageSent'[k] = 0)
               /\ sendInt'[k] \/ messageSent'[k] = 1 => \E u \in Mailer : HostOf[u] = k /\ netAt'[u] = "wait"
    <3>1. messageSent'[k] = messageSent[k] /\ sendInt'[k] = sendInt[k]
      BY Zenon, <1>1, <2>2 DEF NetTypes
    <3>2. \A u \in Mailer : HostOf[u] = k => netAt'[u] = netAt[u]
      BY Zenon, <1>1, <2>2 DEF NetTypes
    <3>3. /\ messageSent'[k] <= 1 /\ (sendInt'[k] => messageSent'[k] = 0)
          /\ sendInt'[k] \/ messageSent'[k] = 1 => \E u \in Mailer : HostOf[u] = k /\ netAt[u] = "wait"
      BY Zenon, <3>1 DEF SendToken
    <3> QED
      BY Zenon, <3>2, <3>3
  <2>3. /\ messageSent'[h] <= 1 /\ (sendInt'[h] => messageSent'[h] = 0)
        /\ ~(sendInt'[h] \/ messageSent'[h] = 1)
    <3>1. 0 <= 1 /\ 0 # 1
      OBVIOUS
    <3> QED
      BY Zenon, <2>1, <3>1
  <2> HIDE DEF h
  <2> QED
    BY ZenonT(30), <2>2, <2>3 DEF SendToken
<1> QED
  BY Zenon, <1>3, <1>4, <1>5

LEMMA BootKeeps ==
  ASSUME NInv, NEW h \in Host, Boot(h), UNCHANGED setup
  PROVE  NInv'
<1>1. /\ up' = up \cup {h}
      /\ UNCHANGED << sock, sent, lost, taken, sendLock, sendInt, messageSent, inbox, messageAvailable,
                      boxes, worker, pc, netAt, last >>
  BY Zenon DEF Boot, history, outVars, inVars, threadVars
<1>2. NetTypes'
  BY Zenon, <1>1 DEF NInv, NetTypes
<1>3. Sending' /\ SendToken' /\ WorkerToken'
  BY Zenon, <1>1, OutKept, InKept DEF NInv
<1>4. \A k \in Host : InHand(k)' = InHand(k)
  BY Zenon, <1>1 DEF InHand
<1>5. \A k \in Host : MailAt(k)'
  BY Zenon, <1>1, <1>4, MailKept DEF NInv
<1> QED
  BY Zenon, <1>2, <1>3, <1>5 DEF NInv

LEMMA ReceiveCallBackKeeps ==
  ASSUME NInv, NEW h \in Host, ReceiveCallBack(h), UNCHANGED setup
  PROVE  NInv'
<1>1. /\ inbox[h] = << >> /\ sock[h] # << >>
      /\ inbox' = [inbox EXCEPT ![h] = << Head(sock[h]) >>] /\ sock' = [sock EXCEPT ![h] = Tail(@)]
      /\ messageAvailable' = [messageAvailable EXCEPT ![h] = @ + 1]
      /\ UNCHANGED << up, sent, lost, taken, sendLock, sendInt, messageSent, boxes, worker, pc, netAt, last >>
  BY Zenon DEF ReceiveCallBack, history, outVars, threadVars
<1>2. sock[h] \in Seq(Mail) /\ Head(sock[h]) \in Mail /\ Tail(sock[h]) \in Seq(Mail)
  BY Zenon, <1>1, IdsTail DEF NInv, NetTypes
<1>3. << Head(sock[h]) >> \in Seq(Mail) /\ Len(<< Head(sock[h]) >>) = 1
  BY <1>2
<1>4. NetTypes'
  <2>1. \A k \in Nat : k + 1 \in Nat
    OBVIOUS
  <2>2. /\ inbox' \in [Host -> Seq(Mail)] /\ sock' \in [Host -> Seq(Mail)]
        /\ messageAvailable' \in [Host -> Nat]
    BY ZenonT(40), <1>1, <1>2, <1>3, <2>1 DEF NInv, NetTypes
  <2> QED
    BY Zenon, <1>1, <2>2 DEF NInv, NetTypes
<1>5. WorkerToken'
  <2>1. worker[h].at # "receive" /\ messageAvailable[h] = 0
    BY <1>1 DEF NInv, WorkerToken
  <2>2. messageAvailable'[h] = 1 /\ Len(inbox'[h]) = 1
    BY <1>1, <1>3, <2>1 DEF NInv, NetTypes
  <2>3. \A k \in Host : k # h => messageAvailable'[k] = messageAvailable[k] /\ inbox'[k] = inbox[k]
    BY Zenon, <1>1 DEF NInv, NetTypes
  <2> QED
    BY SMTT(30), <1>1, <2>1, <2>2, <2>3 DEF NInv, WorkerToken
<1>6. Sending' /\ SendToken'
  BY Zenon, <1>1, OutKept DEF NInv
<1>7. \A k \in Host : MailAt(k)'
  BY Zenon, ReceiveCallBackMail DEF NInv
<1> QED
  BY Zenon, <1>4, <1>5, <1>6, <1>7 DEF NInv

LEMMA WorkerMoves ==
  ASSUME worker \in [Host -> [at : {"P", "receive", "put"}, mail : Mail]], NEW h \in Host,
         NEW p \in {"P", "receive", "put"}, worker' = [worker EXCEPT ![h].at = p]
  PROVE  /\ worker' \in [Host -> [at : {"P", "receive", "put"}, mail : Mail]] /\ worker'[h].at = p
         /\ \A k \in Host : k # h => worker'[k] = worker[k]
<1>1. worker[h] \in [at : {"P", "receive", "put"}, mail : Mail]
  BY Zenon
<1> DEFINE w == [worker[h] EXCEPT !.at = p]
<1>2. w \in [at : {"P", "receive", "put"}, mail : Mail] /\ w.at = p
  BY Zenon, <1>1
<1>3. worker' = [worker EXCEPT ![h] = w]
  BY Zenon
<1> HIDE DEF w
<1> QED
  BY <1>2, <1>3

LEMMA WorkerPKeeps ==
  ASSUME NInv, NEW h \in Host, WorkerP(h), UNCHANGED setup
  PROVE  NInv'
<1>1. /\ worker[h].at = "P" /\ messageAvailable[h] > 0
      /\ messageAvailable' = [messageAvailable EXCEPT ![h] = @ - 1]
      /\ worker' = [worker EXCEPT ![h].at = "receive"]
      /\ UNCHANGED << up, sock, sent, lost, taken, sendLock, sendInt, messageSent, inbox, boxes, pc,
                      netAt, last >>
  BY Zenon DEF WorkerP, history, outVars, threadVars
<1>2. messageAvailable[h] = 1 /\ Len(inbox[h]) = 1
  <2>1. messageAvailable[h] = Len(inbox[h]) /\ Len(inbox[h]) <= 1 /\ messageAvailable[h] \in Nat
    BY Zenon, <1>1 DEF NInv, WorkerToken, NetTypes
  <2>2. messageAvailable[h] > 0
    BY Zenon, <1>1
  <2>3. \A n \in Nat : n > 0 /\ n <= 1 => n = 1
    OBVIOUS
  <2> QED
    BY Zenon, <2>1, <2>2, <2>3
<1>3. /\ worker' \in [Host -> [at : {"P", "receive", "put"}, mail : Mail]] /\ worker'[h].at = "receive"
      /\ \A k \in Host : k # h => worker'[k] = worker[k]
  BY Zenon, <1>1, WorkerMoves DEF NInv, NetTypes
<1>4. /\ messageAvailable' \in [Host -> Nat] /\ messageAvailable'[h] = 0
      /\ \A k \in Host : k # h => messageAvailable'[k] = messageAvailable[k]
  BY <1>1, <1>2 DEF NInv, NetTypes
<1>5. NetTypes'
  BY Zenon, <1>1, <1>3, <1>4 DEF NInv, NetTypes
<1>6. WorkerToken'
  BY Zenon, <1>1, <1>2, <1>3, <1>4 DEF NInv, WorkerToken
<1>7. Sending' /\ SendToken'
  BY Zenon, <1>1, OutKept DEF NInv
<1>8. \A k \in Host : InHand(k)' = InHand(k)
  BY Zenon, <1>1, <1>3 DEF InHand
<1>9. \A k \in Host : MailAt(k)'
  BY Zenon, <1>1, <1>8, MailKept DEF NInv
<1> QED
  BY Zenon, <1>5, <1>6, <1>7, <1>9 DEF NInv

LEMMA WorkerReceiveKeeps ==
  ASSUME NInv, NEW h \in Host, WorkerReceive(h), UNCHANGED setup
  PROVE  NInv'
<1>1. /\ worker[h].at = "receive"
      /\ worker' = [worker EXCEPT ![h].at = "put",
                                  ![h].mail = IF inbox[h] = << >> THEN @ ELSE Head(inbox[h])]
      /\ inbox' = [inbox EXCEPT ![h] = << >>]
      /\ UNCHANGED << up, sock, sent, lost, taken, sendLock, sendInt, messageSent, messageAvailable, boxes,
                      pc, netAt, last >>
  BY Zenon DEF WorkerReceive, history, outVars, threadVars
<1>2. messageAvailable[h] = 0
  BY Zenon, <1>1 DEF NInv, WorkerToken
<1>3. /\ worker' \in [Host -> [at : {"P", "receive", "put"}, mail : Mail]] /\ worker'[h].at = "put"
      /\ \A k \in Host : k # h => worker'[k] = worker[k]
  <2> DEFINE m == IF inbox[h] = << >> THEN worker[h].mail ELSE Head(inbox[h])
  <2>1. worker[h] \in [at : {"P", "receive", "put"}, mail : Mail] /\ inbox[h] \in Seq(Mail)
    BY Zenon DEF NInv, NetTypes
  <2>2. m \in Mail
    BY <2>1
  <2> DEFINE w == [worker[h] EXCEPT !.at = "put", !.mail = m]
  <2>3. worker' = [worker EXCEPT ![h] = w]
    BY Zenon, <1>1, <2>1 DEF NInv, NetTypes
  <2> HIDE DEF m
  <2>4. w \in [at : {"P", "receive", "put"}, mail : Mail] /\ w.at = "put"
    BY Zenon, <2>1, <2>2
  <2> HIDE DEF w
  <2> QED
    BY Zenon, <2>3, <2>4 DEF NInv, NetTypes
<1>4. /\ inbox' \in [Host -> Seq(Mail)] /\ Len(inbox'[h]) = 0
      /\ \A k \in Host : k # h => inbox'[k] = inbox[k]
  <2>1. << >> \in Seq(Mail)
    OBVIOUS
  <2> QED
    BY Zenon, <1>1, <2>1 DEF NInv, NetTypes
<1>5. NetTypes'
  BY Zenon, <1>1, <1>3, <1>4 DEF NInv, NetTypes
<1>6. WorkerToken'
  BY <1>1, <1>2, <1>3, <1>4 DEF NInv, WorkerToken
<1>7. Sending' /\ SendToken'
  BY Zenon, <1>1, OutKept DEF NInv
<1>8. \A k \in Host : MailAt(k)'
  BY Zenon, WorkerReceiveMail DEF NInv
<1> QED
  BY Zenon, <1>5, <1>6, <1>7, <1>8 DEF NInv

LEMMA PutKeeps ==
  ASSUME NInv, NEW h \in Host, Put(h), UNCHANGED setup
  PROVE  NInv'
<1> DEFINE m == worker[h].mail
<1>1. /\ worker[h].at = "put" /\ m.box \in Box
      /\ boxes' = [boxes EXCEPT ![h][m.box] = Append(@, m)] /\ worker' = [worker EXCEPT ![h].at = "P"]
      /\ UNCHANGED << up, sock, sent, lost, taken, sendLock, sendInt, messageSent, inbox, messageAvailable,
                      pc, netAt, last >>
  BY Zenon DEF Put, history, outVars, threadVars
<1>2. m \in Mail
  BY Zenon DEF NInv, NetTypes
<1>3. /\ worker' \in [Host -> [at : {"P", "receive", "put"}, mail : Mail]] /\ worker'[h].at = "P"
      /\ \A k \in Host : k # h => worker'[k] = worker[k]
  BY Zenon, <1>1, WorkerMoves DEF NInv, NetTypes
<1> HIDE DEF m
<1>4. boxes' \in [Host -> [Box -> Seq(Mail)]]
  <2> DEFINE q == Append(boxes[h][m.box], m)
  <2>1. boxes[h] \in [Box -> Seq(Mail)] /\ boxes[h][m.box] \in Seq(Mail)
    BY <1>1 DEF NInv, NetTypes
  <2>2. q \in Seq(Mail)
    BY <1>2, <2>1
  <2>3. boxes' = [boxes EXCEPT ![h] = [boxes[h] EXCEPT ![m.box] = q]]
    BY Zenon, <1>1 DEF NInv, NetTypes
  <2> HIDE DEF q
  <2>4. [boxes[h] EXCEPT ![m.box] = q] \in [Box -> Seq(Mail)]
    BY Zenon, <2>1, <2>2
  <2> QED
    BY Zenon, <2>3, <2>4 DEF NInv, NetTypes
<1>5. NetTypes'
  BY Zenon, <1>1, <1>3, <1>4 DEF NInv, NetTypes
<1>6. WorkerToken'
  BY Zenon, <1>1, <1>3 DEF NInv, WorkerToken
<1>7. Sending' /\ SendToken'
  BY Zenon, <1>1, OutKept DEF NInv
<1>8. \A k \in Host : MailAt(k)'
  BY Zenon, PutMail DEF NInv
<1> QED
  BY Zenon, <1>5, <1>6, <1>7, <1>8 DEF NInv

LEMMA ReceiveKeeps ==
  ASSUME NInv, NEW t \in Mailer, Receive(t), UNCHANGED setup
  PROVE  NInv'
<1>h. PICK h \in Host : h = HostOf[t]
  BY Zenon, NetAssumption
<1>c. PICK c \in Box : c = Op(t).box
  BY Zenon DEF Receive
<1>1. /\ boxes[h][c] # << >> /\ netAt[t] = "call"
      /\ last' = [last EXCEPT ![t] = Head(boxes[h][c])] /\ pc' = [pc EXCEPT ![t] = @ + 1]
      /\ boxes' = [boxes EXCEPT ![h][c] = Tail(@)]
      /\ taken' = [taken EXCEPT ![h] = @ \cup {Head(boxes[h][c]).id}]
      /\ UNCHANGED << up, sock, sent, lost, sendLock, sendInt, messageSent, inbox, messageAvailable, worker,
                      netAt >>
  BY Zenon, <1>h, <1>c DEF Receive, Ready, outVars
<1>2. /\ boxes[h] \in [Box -> Seq(Mail)] /\ Head(boxes[h][c]) \in Mail /\ Tail(boxes[h][c]) \in Seq(Mail)
  <2>1. boxes[h] \in [Box -> Seq(Mail)] /\ boxes[h][c] \in Seq(Mail)
    BY DEF NInv, NetTypes
  <2> QED
    BY Zenon, <1>1, <2>1, IdsTail
<1>3. boxes' \in [Host -> [Box -> Seq(Mail)]]
  <2>1. boxes' = [boxes EXCEPT ![h] = [boxes[h] EXCEPT ![c] = Tail(boxes[h][c])]]
    BY Zenon, <1>1 DEF NInv, NetTypes
  <2>2. [boxes[h] EXCEPT ![c] = Tail(boxes[h][c])] \in [Box -> Seq(Mail)]
    BY Zenon, <1>2
  <2> QED
    BY Zenon, <2>1, <2>2 DEF NInv, NetTypes
<1>4. Head(boxes[h][c]).id \in Nat
  BY Zenon, <1>2 DEF Mail
<1>5. last' \in [Mailer -> Mail] /\ taken' \in [Host -> SUBSET Nat] /\ pc' \in [Mailer -> Nat]
  <2>1. \A k \in Nat : k + 1 \in Nat
    OBVIOUS
  <2>2. last' \in [Mailer -> Mail] /\ pc' \in [Mailer -> Nat]
    BY Zenon, <1>1, <1>2, <2>1 DEF NInv, NetTypes
  <2>3. taken' \in [Host -> SUBSET Nat]
    <3>1. taken[h] \cup {Head(boxes[h][c]).id} \in SUBSET Nat
      BY Zenon, <1>4 DEF NInv, NetTypes
    <3> QED
      BY Zenon, <1>1, <3>1 DEF NInv, NetTypes
  <2> QED
    BY Zenon, <2>2, <2>3
<1>6. NetTypes'
  BY Zenon, <1>1, <1>3, <1>5 DEF NInv, NetTypes
<1>7. WorkerToken' /\ SendToken'
  BY Zenon, <1>1, InKept DEF NInv, SendToken
<1>8. Sending'
  <2> SUFFICES ASSUME NEW u \in Mailer
               PROVE  /\ netAt'[u] = "send" => pc'[u] \in DOMAIN (Script[u])' /\ (Op(u).op)' \in {"send", "reply"}
                      /\ netAt'[u] # "call" <=> sendLock'[HostOf[u]] = u
    BY Zenon DEF Sending
  <2>1. netAt[u] = "send" => pc'[u] = pc[u] /\ Script' = Script /\ Op(u)' = Op(u)
    <3>1. netAt[u] = "send" => pc'[u] = pc[u]
      BY Zenon, <1>1 DEF NInv, NetTypes
    <3> QED
      BY Zenon, <3>1, ScriptKept
  <2> QED
    BY Zenon, <1>1, <2>1 DEF NInv, Sending
<1>9. \A k \in Host : MailAt(k)'
  BY Zenon, ReceiveMail DEF NInv
<1> QED
  BY Zenon, <1>6, <1>7, <1>8, <1>9 DEF NInv

LEMMA NetNextInv == NInv /\ [NetNext /\ UNCHANGED setup]_<< netVars, setup >> => NInv'
<1> SUFFICES ASSUME NInv, [NetNext /\ UNCHANGED setup]_<< netVars, setup >> PROVE NInv'
  BY Zenon
<1>1. ASSUME NEW h \in Host, Boot(h) \/ HostNext(h), UNCHANGED setup PROVE NInv'
  <2>1. CASE SendCallBack(h)
    <3>1. NetTypes' /\ Sending' /\ SendToken'
      BY Zenon, <1>1, <2>1, SendCallBackKeeps DEF NInv
    <3>2. UNCHANGED << sock, sent, lost, taken, inbox, messageAvailable, boxes, worker >>
      BY Zenon, <2>1 DEF SendCallBack, history, inVars
    <3>3. \A k \in Host : InHand(k)' = InHand(k)
      BY Zenon, <3>2 DEF InHand
    <3>4. WorkerToken' /\ \A k \in Host : MailAt(k)'
      BY Zenon, <3>2, <3>3, InKept, MailKept DEF NInv
    <3> QED
      BY Zenon, <3>1, <3>4 DEF NInv
  <2> QED
    BY Zenon, <1>1, <2>1, BootKeeps, ReceiveCallBackKeeps, WorkerPKeeps, WorkerReceiveKeeps, PutKeeps
       DEF HostNext
<1>2. ASSUME NEW t \in Mailer, ThreadNext(t), UNCHANGED setup PROVE NInv'
  <2>1. CASE AcquireSendLock(t) \/ Sent(t)
    <3>1. NetTypes' /\ Sending' /\ SendToken'
      BY Zenon, <1>2, <2>1, AcquireKeeps, SentKeeps DEF NInv
    <3>2. UNCHANGED << sock, sent, lost, taken, inbox, messageAvailable, boxes, worker >>
      BY Zenon, <2>1 DEF AcquireSendLock, Sent, history, inVars
    <3>3. \A k \in Host : InHand(k)' = InHand(k)
      BY Zenon, <3>2 DEF InHand
    <3>4. WorkerToken' /\ \A k \in Host : MailAt(k)'
      BY Zenon, <3>2, <3>3, InKept, MailKept DEF NInv
    <3> QED
      BY Zenon, <3>1, <3>4 DEF NInv
  <2>2. CASE Send(t)
    <3>1. NetTypes' /\ Sending' /\ SendToken' /\ \A k \in Host : MailAt(k)'
      BY Zenon, <1>2, <2>2, SendKeeps, SendMail DEF NInv
    <3>2. WorkerToken'
      BY Zenon, <2>2, InKept DEF Send, inVars, NInv
    <3> QED
      BY Zenon, <3>1, <3>2 DEF NInv
  <2> QED
    BY Zenon, <1>2, <2>1, <2>2, ReceiveKeeps DEF ThreadNext
<1>3. CASE UNCHANGED << netVars, setup >>
  <2>1. UNCHANGED << up, sock, sent, lost, taken, sendLock, sendInt, messageSent, inbox, messageAvailable,
                     boxes, worker, pc, netAt, last, setup >>
    BY Zenon, <1>3 DEF netVars, history, outVars, inVars, threadVars
  <2>2. \A k \in Host : InHand(k)' = InHand(k)
    BY Zenon, <2>1 DEF InHand
  <2>3. NetTypes'
    BY Zenon, <2>1 DEF NInv, NetTypes
  <2>4. Sending' /\ SendToken' /\ WorkerToken' /\ \A k \in Host : MailAt(k)'
    BY Zenon, <2>1, <2>2, OutKept, InKept, MailKept DEF NInv
  <2> QED
    BY Zenon, <2>3, <2>4 DEF NInv
<1> QED
  BY Zenon, <1>1, <1>2, <1>3 DEF NetNext

\* For any number of machines, threads and boxes and any scripts, whatever the
\* network loses: mail that got to a socket is kept, as it was sent and in
\* order, until a thread takes it, the postal worker never delivers its old
\* buffer, and no packet is handed to a device that still sends.
THEOREM NetworkKeepsMail == NetSpec => []MailIsKept
  BY NInvSuffices, NetInitInv, NetNextInv, PTL DEF NetSpec

=============================================================================
