----------------------------- MODULE MCDevices ------------------------------
(***************************************************************************)
(* The devices with their drivers for TLC: Disk, Console and Network,      *)
(* which share no state.  In a behaviour one of them works, `part`, and    *)
(* the others stay as they were made.                                      *)
(***************************************************************************)
EXTENDS Disk, Console, Network, TLC

CONSTANTS n1, n2, n3

VARIABLE part

-----------------------------------------------------------------------------
(* Two readers and two writers of the console; small letters are the codes *)
(* 97 and 98, an int has eight bits, and the keyboard has what the readers *)
(* need.  One of the numbers is the least int.                             *)

BusyJobs ==
  {"r" :> << [op |-> "ReadString"] >> @@ "s" :> << [op |-> "Read", size |-> 1] >>
   @@ "p" :> << [op |-> j[2], chars |-> << 97, 98 >>] >>
   @@ "n" :> << [op |-> "PrintNum", n |-> j[1]] >> :
     j \in {<< -107, "Print" >>, << 90, "Write" >>, << -128, "Write" >>}}

Keys == << 97, 10, 98, 97 >>
LeastByte == -128

-----------------------------------------------------------------------------
(* Kernel::NetworkTest on two machines, and two senders with two boxes;    *)
(* then a machine that starts late and a network that loses packets.       *)

SendCall(to, box, reply) == [op |-> "send", to |-> to, box |-> box, reply |-> reply]
ReceiveCall(box) == [op |-> "receive", box |-> box]
Scripts(first, second, third) ==
  [t \in {n1, n2, n3} |-> CASE t = n1 -> first [] t = n2 -> second [] OTHER -> third]
NetworkSetups ==
  {[testers |-> {n1, n3}, script |-> Scripts(<< >>, << >>, << >>), late |-> {}, reliability |-> 100],
   [testers |-> {},
    script |-> Scripts(<< SendCall(1, 0, 0), SendCall(1, 1, 0) >>, << SendCall(1, 0, 1), SendCall(1, 0, 1) >>,
                     << ReceiveCall(0), ReceiveCall(0), SendCall(0, 0, 0) >>),
    late |-> {}, reliability |-> 100],
   [testers |-> {},
    script |-> Scripts(<< SendCall(1, 0, 0), SendCall(1, 0, 0), SendCall(1, 1, 0) >>, << >>,
                     << ReceiveCall(0), [op |-> "reply", reply |-> 1] >>),
    late |-> {1}, reliability |-> 50]}

Hosts == [t \in {n1, n2, n3} |-> IF t = n3 THEN 1 ELSE 0]

-----------------------------------------------------------------------------
mcVars == << part, setup, vars, consoleVars, netVars >>

MCInit ==
  /\ part \in {"disk", "console", "network"}
  /\ Init /\ ConsoleInit /\ NetInit
  /\ part # "console" => jobs = CHOOSE j \in BusyJobs : TRUE
  /\ part # "network" => setup = CHOOSE s \in NetworkSetups : TRUE

MCNext ==
  /\ UNCHANGED << part, setup >>
  /\ \/ part = "disk" /\ Next /\ UNCHANGED << consoleVars, netVars >>
     \/ part = "console" /\ ConsoleNext /\ UNCHANGED << vars, netVars >>
     \/ part = "network" /\ NetNext /\ UNCHANGED << vars, consoleVars >>

\* The fairness of the three modules, each in the behaviours in which it works.
DiskFairness ==
  /\ WF_vars(part = "disk" /\ CallBack) /\ WF_vars(part = "disk" /\ Tick)
  /\ \A t \in Thread : /\ WF_vars(part = "disk" /\ Acquire(t))
                       /\ WF_vars(part = "disk" /\ (Request(t) \/ Wait(t) \/ Release(t)))
ConsoleFairness ==
  /\ WF_consoleVars(part = "console" /\ ConsoleInputCallBack)
  /\ WF_consoleVars(part = "console" /\ ConsoleOutputCallBack)
  /\ \A t \in User : WF_consoleVars(part = "console" /\ ConsoleStep(t))
NetworkFairness ==
  /\ \A h \in Host :
       /\ WF_netVars(part = "network" /\ SendCallBack(h))
       /\ WF_netVars(part = "network" /\ ReceiveCallBack(h))
       /\ WF_netVars(part = "network" /\ (WorkerP(h) \/ WorkerReceive(h) \/ Put(h)))
  /\ \A t \in Mailer :
       /\ WF_netVars(part = "network" /\ AcquireSendLock(t))
       /\ WF_netVars(part = "network" /\ (Send(t) \/ Sent(t)))
       /\ WF_netVars(part = "network" /\ Receive(t))

MCSpec == MCInit /\ [][MCNext]_mcVars /\ DiskFairness /\ ConsoleFairness /\ NetworkFairness

-----------------------------------------------------------------------------
\* Every call of the drivers returns: those of SynchDisk, those of the console
\* when the keyboard delivers what is asked for, PostOfficeOutput::Send also
\* when its packet is dropped, and NetworkTest ends on both machines when no
\* packet is lost.
DeviceCallsReturn ==
  <>[](/\ \A t \in Thread : at[t] = "out"
       /\ part = "console" => \A t \in User : jobs[t] = << >>
       /\ \A t \in Mailer : netAt[t] = "call"
       /\ part = "network" /\ setup.reliability = 100 /\ setup.late = {} =>
            \A t \in Mailer : pc[t] > Len(Script[t]))
=============================================================================
