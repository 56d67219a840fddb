----------------------------- MODULE FileTable ------------------------------
(***************************************************************************)
(* The file system calls: class FileSystem of filesys/filesys.h in its     *)
(* FILESYS_STUB form, class OpenFile of filesys/openfile.h, the Sys...     *)
(* routines of userprog/ksyscall.h and the cases of ExceptionHandler that  *)
(* call them (userprog/exception.cc).                                      *)
(*                                                                         *)
(* One descriptor table serves every program.  Its entries stand for host  *)
(* file descriptors; the host (open, close, read, write, lseek, unlink,    *)
(* socket) is external and modelled by its descriptors, its directory and  *)
(* the bytes of its files.  Each call is one action, from the trap to      *)
(* IncreasePC: only Read and Write of the console sleep (Console.tla), and *)
(* they use nothing of this state any more once they do.                   *)
(***************************************************************************)
EXTENDS Integers, Sequences, FiniteSets, FiniteSetsExt, SequencesExt

CONSTANTS MAX_FILE,   \* length of the descriptor table
          Name,       \* names programs give to files
          Existing,   \* the files the host has already
          OpenType,   \* the types given to Open
          Program,    \* the programs that make calls
          HostFd,     \* descriptors the host has, an interval from 0
          HostBase,   \* how many of them are in use before FileSystem is made: 4,
                      \* the standard ones and the DISK file of SynchDisk
          Data,       \* bytes, 0 (NUL) among them
          UserSize,   \* bytes of a program's buffer space
          MaxLen,     \* bound: length of a file
          Calls,      \* the kinds of calls made
          Garbling    \* file names are found garbled by what follows them in memory

plusSocketId == 100
Null == [file |-> -1]
NoInode == 0
Inode == 1 .. Cardinality(HostFd) + Cardinality(Name)
ConsoleInput == << "ConsoleInput", 0 >>
ConsoleOutput == << "ConsoleOutput", 0 >>
SocketName(sid) == << "SocketFileId", sid >>
Garbled == << "garbled", 0 >>

VARIABLES
  table,    \* fileDescriptorTable
  host,     \* host descriptors: free, or the inode (or socket) and the mode they are open for
  dir,      \* host directory: names to inodes
  data,     \* bytes of each inode
  umem,     \* the program's memory, for buffers
  held,     \* the ids each program got from Open and did not close
  ret,      \* the result of the last call (register 2)
  machine   \* "running", "halted" by a fault, or the ASSERT or crash that ended it

vars == << table, host, dir, data, umem, held, ret, machine >>

Free == [inode |-> NoInode, mode |-> 0]
Slot == 0 .. MAX_FILE - 1
LowestFree(h) == LET free == {fd \in HostFd : h[fd] = Free}
                 IN IF free = {} THEN -1 ELSE Min(free)
InUse == {dir[n] : n \in DOMAIN dir} \cup {host[fd].inode : fd \in HostFd}
NewInode == Min(Inode \ InUse)

\* OpenFile::OpenFile(f, fileName, fileType): the name is copied without its
\* terminating NUL, so that strcmp may not find it again.
OpenFile(fd, name, mode, recorded) ==
  [file |-> fd, name |-> recorded, mode |-> mode, pos |-> 0, socketId |-> -1]
Recorded(name) == IF Garbling THEN {name, Garbled} ELSE {name}

\* A state of the table, the host and the machine, which calls thread through.
World == [table |-> table, host |-> host, dir |-> dir, data |-> data, machine |-> machine]
Stop(w, why) == [w EXCEPT !.machine = why]

\* Close, OpenForWrite and the two OpenFor... that need the file to exist
\* (lib/sysdep.cc)
HostClose(w, fd) == IF w.host[fd] = Free THEN Stop(w, "ASSERT in Close")
                    ELSE [w EXCEPT !.host[fd] = Free]
OpenForWrite(w, name) ==
  LET fd == LowestFree(w.host)
      node == IF name \in DOMAIN w.dir THEN w.dir[name] ELSE NewInode
  IN IF fd = -1 THEN Stop(w, "ASSERT in OpenForWrite")
     ELSE [w EXCEPT !.host[fd] = [inode |-> node, mode |-> 0],
                    !.dir = [n \in DOMAIN w.dir \cup {name} |->
                               IF n = name THEN node ELSE w.dir[n]],
                    !.data[node] = << >>]
OpenFor(w, name, mode) ==
  IF name \notin DOMAIN w.dir \/ LowestFree(w.host) = -1 THEN w
  ELSE [w EXCEPT !.host[LowestFree(w.host)] = [inode |-> w.dir[name], mode |-> mode]]
Unlink(w, name) == [w EXCEPT !.dir = [n \in DOMAIN w.dir \ {name} |-> w.dir[n]]]

\* the entries from i that isSocket() and socketId say are this socket
SocketEntries(w, i, sid) ==
  {k \in i .. MAX_FILE - 1 : w.table[k] # Null /\ w.table[k].socketId = sid /\ sid # -1}

\* ~OpenFile, and the entry is set to NULL
Delete(w, k) == [HostClose(w, w.table[k].file) EXCEPT !.table[k] = Null]

\* FileSystem::Close
Close(w, k) == IF k \in 2 .. MAX_FILE - 1 /\ w.table[k] # Null THEN Delete(w, k) ELSE w

\* FileSystem::Create: Close is the member function, which takes the host's
\* descriptor for an index of the table.
Create(w, name) ==
  LET made == OpenForWrite(w, name)
  IN IF made.machine # "running" THEN made ELSE Close(made, LowestFree(w.host))

\* FileSystem::Open(name, mode), which makes entry k; the entry stays NULL
\* if the host has no such file or no descriptor left.
OpenInto(w, k, name, mode, recorded) ==
  LET opened == OpenFor(w, name, mode)
  IN IF opened = w THEN w
     ELSE [opened EXCEPT !.table[k] = OpenFile(LowestFree(w.host), name, mode, recorded)]

\* FileSystem::AddToFileDescriptorTable
AddToFileDescriptorTable(w, k, name, mode, recorded) ==
  IF w.table[k] = Null THEN OpenInto(w, k, name, mode, recorded) ELSE w

\* FileSystem::GetFileDescriptorEmptySlot
GetFileDescriptorEmptySlot ==
  LET empty == {k \in 2 .. MAX_FILE - 1 : table[k] = Null}
  IN IF empty = {} THEN -1 ELSE Min(empty)

\* FileSystem::GetFileDescriptorID
GetFileDescriptorID(name) ==
  LET found == {k \in Slot : table[k] # Null /\ table[k].name = name}
  IN IF found = {} THEN -1 ELSE Min(found)

\* FileSystem::GetFileDescriptorByName
GetFileDescriptorByName(name) ==
  IF \E k \in Slot : table[k] # Null /\ table[k].name = name
  THEN table[GetFileDescriptorID(name)] ELSE Null

\* FileSystem::GetFileDescriptorByID
GetFileDescriptorByID(id) == IF id \in Slot THEN table[id] ELSE Null

-----------------------------------------------------------------------------
(* Moving bytes between the kernel and the program's memory.               *)

\* What a copy returns that ran off the program's memory: ReadMem or
\* WriteMem raised an exception and the kernel halted.
Fault == << >>

\* User2System: up to limit bytes, the rest of the buffer being zero; it
\* stops at a NUL.
User2System(virtAddr, limit) ==
  LET stop == {i \in 0 .. limit - 1 : virtAddr + i >= UserSize \/ umem[virtAddr + i] = 0}
      last == IF stop = {} THEN limit ELSE Min(stop)
  IN IF stop # {} /\ virtAddr + last >= UserSize THEN Fault
     ELSE [i \in 1 .. limit + 1 |-> IF i <= last THEN umem[virtAddr + i - 1] ELSE 0]

\* System2User: up to len bytes of buffer, the first NUL being the last one.
System2User(mem, virtAddr, len, buffer) ==
  LET nul == {i \in 1 .. len : buffer[i] = 0}
      count == IF nul = {} THEN len ELSE Min(nul)
  IN IF virtAddr + count > UserSize THEN Fault
     ELSE [a \in DOMAIN mem |-> IF a \in virtAddr .. virtAddr + count - 1
                                  THEN buffer[a - virtAddr + 1] ELSE mem[a]]

-----------------------------------------------------------------------------
(* The system calls.  Result(w, r) is their common end: the result goes to *)
(* register 2 and IncreasePC follows.                                      *)

\* FileSystem::FileSystem, on a host with HostBase descriptors in use: the
\* descriptors of the two Creates are never closed.  The post office then takes
\* two more for its sockets (Kernel::Initialize).
Init ==
  LET names == << ConsoleInput, ConsoleOutput >> \o SetToSeq(Existing)
      fd(k) == HostBase + k
      entry(k, name, mode) == OpenFile(fd(k), name, mode, name)
  IN /\ table = [k \in Slot |-> CASE k = 0 -> entry(2, ConsoleInput, 0)
                                  [] k = 1 -> entry(3, ConsoleOutput, 1)
                                  [] OTHER -> Null]
     /\ host = [d \in HostFd |->
                  CASE d < HostBase \/ d \in {fd(4), fd(5)} -> [inode |-> -1, mode |-> 0]
                    [] d \in {fd(0), fd(2)} -> [inode |-> 1, mode |-> 0]
                    [] d \in {fd(1), fd(3)} -> [inode |-> 2, mode |-> IF d = fd(1) THEN 0 ELSE 1]
                    [] OTHER -> Free]
     /\ dir = [n \in {names[i] : i \in DOMAIN names} |-> CHOOSE i \in DOMAIN names : names[i] = n]
     /\ data = [i \in Inode |-> << >>]
     /\ umem \in [0 .. UserSize - 1 -> Data]
     /\ held = [p \in Program |-> {}]
     /\ ret = 0 /\ machine = "running"

Result(w, r) ==
  /\ table' = w.table /\ host' = w.host /\ dir' = w.dir /\ data' = w.data
  /\ machine' = w.machine /\ ret' = r
Called(op) == machine = "running" /\ op \in Calls

\* SysCreate
SysCreate(p, name) ==
  /\ Called("Create")
  /\ Result(Create(World, name), 0)
  /\ UNCHANGED << umem, held >>

\* SysRemove: refused while an entry has this name.
SysRemove(p, name) ==
  /\ Called("Remove")
  /\ IF GetFileDescriptorByName(name) # Null \/ name \notin DOMAIN dir THEN Result(World, -1)
     ELSE Result(Unlink(World, name), 0)
  /\ UNCHANGED << umem, held >>

\* SC_Open and SysOpen: a type other than 0 and 1 runs into
\* ASSERTNOTREACHED; a file that is open already keeps its entry and mode.
SysOpen(p, name, type, recorded) ==
  LET old == GetFileDescriptorID(name)
      slot == GetFileDescriptorEmptySlot
      w == AddToFileDescriptorTable(World, slot, name, type, recorded)
      id == CASE old # -1 -> old
              [] old = -1 /\ slot = -1 -> -1
              [] OTHER -> IF w.table[slot] = Null THEN -1 ELSE slot
  IN /\ Called("Open")
     /\ CASE type \notin {0, 1} -> Result(Stop(World, "ASSERT in SC_Open"), -1)
          [] type \in {0, 1} /\ (old # -1 \/ slot = -1) -> Result(World, id)
          [] OTHER -> Result(w, id)
     /\ held' = IF type \in {0, 1} /\ id # -1 THEN [held EXCEPT ![p] = @ \cup {id}] ELSE held
     /\ UNCHANGED umem

\* Mutant: the host's socket is closed, the file that stands for it is not.
RemoveFileDescriptorHalf(w, fileId) ==
  LET socket == SocketEntries(w, 2, fileId) IN
  CASE fileId >= MAX_FILE /\ socket # {} ->
         [w EXCEPT !.host[fileId - plusSocketId] = Free, !.host[w.table[Min(socket)].file] = Free]
    [] OTHER -> IF fileId \in Slot /\ w.table[fileId] # Null THEN Delete(w, fileId) ELSE w

\* FileSystem::RemoveFileDescriptor; the test of fileId lets MAX_FILE
\* through, which reads past the table: the word found there may be zero.
RemoveFileDescriptor(w, fileId) ==
  LET socket == SocketEntries(w, 2, fileId)
      k == Min(socket)
      shut == Delete([w EXCEPT !.host[fileId - plusSocketId] = Free], k)
  IN CASE fileId > MAX_FILE \/ fileId < 0 ->
            IF socket = {} THEN w
            ELSE Unlink(shut, SocketName(fileId))
       [] fileId = MAX_FILE -> w
       [] OTHER -> IF w.table[fileId] # Null THEN Delete(w, fileId) ELSE w

\* SysClose
SysClose(p, id) ==
  LET w == RemoveFileDescriptor(World, id) IN
  /\ Called("Close")
  /\ \/ Result(w, IF w = World THEN -1 ELSE 0)
     \/ id = MAX_FILE /\ Result(Stop(World, "wild delete"), -1)
  /\ held' = [held EXCEPT ![p] = @ \ {id}]
  /\ UNCHANGED umem

\* OpenFile::ReadAt and WriteAt of the stub: the host gives what there is,
\* and fills a gap before the offset with zeros.
ReadAt(bytes, size, pos) == SubSeq(bytes, pos + 1, Min({pos + size, Len(bytes)}))
WriteAt(old, from, pos) ==
  [i \in 1 .. Max({Len(old), pos + Len(from)}) |->
     IF i \in pos + 1 .. pos + Len(from) THEN from[i - pos]
     ELSE IF i <= Len(old) THEN old[i] ELSE 0]

\* OpenFile::Read and FileSystem::Read
FileRead(w, id, size) ==
  LET e == w.table[id]
      got == ReadAt(w.data[w.host[e.file].inode], size, e.pos)
  IN [got |-> got, w |-> IF e.pos < 0 THEN Stop(w, "ASSERT in Lseek")
                         ELSE [w EXCEPT !.table[id].pos = @ + Len(got)]]

\* OpenFile::Write and FileSystem::Write; the host refuses a descriptor open
\* for reading.
FileWrite(w, id, bytes) ==
  LET e == w.table[id]
      h == w.host[e.file]
  IN IF e.pos < 0 THEN Stop(w, "ASSERT in Lseek")
     ELSE IF h.mode = 1 THEN Stop(w, "ASSERT in WriteFile")
     ELSE [w EXCEPT !.data[h.inode] = WriteAt(@, bytes, e.pos), !.table[id].pos = @ + Len(bytes)]

\* SC_Read and SysRead: the kernel's buffer starts as a copy of the program's;
\* size + 1 bytes of it go back when something was read.  The keyboard types
\* size characters, or its input ends.
SysRead(p, addr, size, id) ==
  LET buffer == User2System(addr, size)
      r == FileRead(World, id, size)
      back(got) == System2User(umem, addr, size + 1, got \o SubSeq(buffer, Len(got) + 1, size + 1))
      deliver(w, n, mem) == IF mem = Fault THEN Result(Stop(w, "halted"), n) /\ umem' = umem
                            ELSE Result(w, n) /\ umem' = mem
  IN /\ Called("Read")
     /\ CASE buffer = Fault -> Result(Stop(World, "halted"), ret) /\ umem' = umem
          [] buffer # Fault /\ (GetFileDescriptorByID(id) = Null \/ id = 1) ->
               Result(World, -1) /\ umem' = umem
          [] buffer # Fault /\ id = 0 /\ table[0] # Null ->
               \/ \E typed \in [1 .. size -> Data] : size > 0 /\ deliver(World, size, back(typed))
               \/ Result(World, IF size > 0 THEN -1 ELSE 0) /\ umem' = umem
          [] OTHER -> IF r.got = << >> THEN Result(World, -1) /\ umem' = umem
                      ELSE deliver(r.w, Len(r.got), back(r.got))
     /\ UNCHANGED held

\* SysWrite; descriptor 1 is the console display.
SysWrite(p, addr, size, id) ==
  LET buffer == User2System(addr, size)
      e == GetFileDescriptorByID(id)
  IN /\ Called("Write")
     /\ CASE buffer = Fault -> Result(Stop(World, "halted"), ret)
          [] buffer # Fault /\ (e = Null \/ id = 0) -> Result(World, -1)
          [] buffer # Fault /\ e # Null /\ id = 1 -> Result(World, size)
          [] OTHER -> IF e.mode = 1 THEN Result(World, -1)
                      ELSE /\ e.pos + size <= MaxLen
                           /\ Result(FileWrite(World, id, SubSeq(buffer, 1, size)),
                                     IF size = 0 THEN -1 ELSE size)
     /\ UNCHANGED << umem, held >>

\* FileSystem::Seek; -1 stands for the end of the file.
Seek(pos, id) ==
  LET len == Len(data[host[table[id].file].inode])
      to == IF pos = -1 THEN len ELSE pos
  IN IF to < -1 \/ to > len THEN Result(World, -1)
     ELSE Result([World EXCEPT !.table[id].pos = to], to)

\* SysSeek
SysSeek(p, pos, id) ==
  /\ Called("Seek")
  /\ IF id \in {0, 1} \/ GetFileDescriptorByID(id) = Null THEN Result(World, -1)
     ELSE Seek(pos, id)
  /\ UNCHANGED << umem, held >>

\* SC_SocketTCP and FileSystem::OpenNewSocket: the entry is a file opened
\* under the socket's name; if Open returns NULL the next line faults.
OpenNewSocket(p) ==
  LET slot == GetFileDescriptorEmptySlot
      fd == LowestFree(host)
      sid == fd + plusSocketId
      made == Create([World EXCEPT !.host[fd] = [inode |-> -1, mode |-> 0]], SocketName(sid))
      w == OpenInto(made, slot, SocketName(sid), 1, SocketName(sid))
  IN /\ Called("Socket")
     /\ CASE slot = -1 -> Result(World, -1)
          [] slot # -1 /\ fd = -1 -> Result(Stop(World, "ASSERT in OpenSocketTCP"), -1)
          [] slot # -1 /\ fd # -1 /\ made.machine # "running" -> Result(made, -1)
          [] OTHER -> IF w.table[slot] = Null THEN Result(Stop(made, "NULL entry"), -1)
                      ELSE Result([w EXCEPT !.table[slot].socketId = sid], sid)
     /\ UNCHANGED << umem, held >>

\* FileSystem::SendSocketMessage and ReceiveSocketMessage: a NULL entry met
\* before the socket is a fault; the host's count is passed on, or -1.  The
\* message's own buffer is outside the memory this module shows.
Transfer(p, op, sid) ==
  LET hit == SocketEntries(World, 0, sid)
      hole == {k \in Slot : table[k] = Null}
      fault == hole # {} /\ (hit = {} \/ Min(hole) < Min(hit))
  IN /\ Called(op)
     /\ IF fault THEN Result(Stop(World, "NULL entry"), ret)
        ELSE \E n \in (IF hit = {} THEN {-1} ELSE {-1, 1}) : Result(World, n)
     /\ UNCHANGED << umem, held >>

\* SC_Connect: the host answers.
Connect(p, sid) ==
  /\ Called("Connect")
  /\ \E r \in {0, -1} : Result(World, r)
  /\ UNCHANGED << umem, held >>

\* SysExec up to ExecUpdate: the OpenFile that Open(name) makes is never
\* deleted.
SysExec(p, name) ==
  LET opened == OpenFor(World, name, 0) IN
  /\ Called("Exec")
  /\ Result(opened, IF opened = World THEN -1 ELSE 0)
  /\ UNCHANGED << umem, held >>

\* ~FileSystem, when the kernel halts
Destroy ==
  LET open == {k \in Slot : table[k] # Null}
      closed == [World EXCEPT !.host = [d \in HostFd |->
                   IF \E k \in open : table[k].file = d THEN Free ELSE host[d]],
                 !.table = [k \in Slot |-> Null], !.machine = "halted"]
  IN /\ Called("Halt")
     /\ Result(IF \E k \in open : host[table[k].file] = Free THEN Stop(World, "ASSERT in Close")
               ELSE Unlink(Unlink(closed, ConsoleInput), ConsoleOutput), ret)
     /\ UNCHANGED << umem, held >>

-----------------------------------------------------------------------------
(* ExceptionHandler: each case fetches the arguments, of any value, calls  *)
(* its routine, stores the result and moves the program counter on.        *)

SocketIds == {d + plusSocketId : d \in HostFd}
Address == 0 .. UserSize - 1
SC_Create(p) == \E n \in Name : SysCreate(p, n)
SC_Remove(p) == \E n \in Name : SysRemove(p, n)
SC_Open(p) == \E n \in Name, type \in OpenType : \E rec \in Recorded(n) : SysOpen(p, n, type, rec)
SC_Close(p) == \E id \in -1 .. MAX_FILE \cup SocketIds : SysClose(p, id)
SC_Read(p) == \E id \in Slot, addr \in Address, size \in 0 .. UserSize : SysRead(p, addr, size, id)
SC_Write(p) == \E id \in Slot, addr \in Address, size \in 0 .. UserSize : SysWrite(p, addr, size, id)
SC_Seek(p) == \E id \in Slot, pos \in -2 .. MaxLen + 1 : SysSeek(p, pos, id)
SC_SocketTCP(p) == OpenNewSocket(p)
SC_Connect(p) == \E sid \in SocketIds : Connect(p, sid)
SC_Send(p) == \E sid \in SocketIds : Transfer(p, "Send", sid)
SC_Receive(p) == \E sid \in SocketIds : Transfer(p, "Receive", sid)
SC_Exec(p) == \E n \in Name : SysExec(p, n)

Next ==
  \/ \E p \in Program :
       \/ SC_Create(p) \/ SC_Remove(p) \/ SC_Open(p) \/ SC_Close(p)
       \/ SC_Read(p) \/ SC_Write(p) \/ SC_Seek(p) \/ SC_Exec(p)
       \/ SC_SocketTCP(p) \/ SC_Connect(p) \/ SC_Send(p) \/ SC_Receive(p)
  \/ Destroy

Spec == Init /\ [][Next]_vars

TypeOK ==
  /\ \A k \in Slot : table[k] = Null \/ (table[k].file \in HostFd /\ table[k].pos \in Nat)
  /\ \A d \in HostFd : host[d].inode \in Inode \cup {-1, NoInode} /\ host[d].mode \in {0, 1}
  /\ \A n \in DOMAIN dir : dir[n] \in Inode
  /\ \A i \in Inode : data[i] \in Seq(Data)
  /\ umem \in [0 .. UserSize - 1 -> Data] /\ held \in [Program -> SUBSET Slot]

\* The entries of the table and the descriptors of the host stay in step
\* (filesys.h, openfile.h): an entry's descriptor is open, for the mode the
\* entry says, and belongs to no other entry; whatever Create, the socket
\* calls and Close do to descriptors by number.
DescriptorsSound ==
  \A k \in Slot : table[k] # Null =>
    /\ host[table[k].file] # Free /\ host[table[k].file].mode = table[k].mode
    /\ \A j \in Slot \ {k} : table[j] = Null \/ table[j].file # table[k].file

\* The host calls whose failure is an ASSERT (sysdep.cc) do not fail on behalf
\* of a program: no sequence of calls writes through a descriptor open for
\* reading, seeks before the start of a file or closes a descriptor twice; and
\* OpenForWrite and OpenSocketTCP fail only when the host has no descriptor left.
HostCallsSucceed ==
  /\ machine \notin {"ASSERT in WriteFile", "ASSERT in Lseek", "ASSERT in Close"}
  /\ machine \in {"ASSERT in OpenForWrite", "ASSERT in OpenSocketTCP"} => LowestFree(host) = -1

\* A file that is open under a name the table still has as it was given is not
\* removed, and the entry reads and writes the file that has the name: SysRemove
\* (ksyscall.h) looks for it in the table first.  OpenFile's constructor may
\* record another name, since it does not terminate it.
OpenFilesExist ==
  \A k \in Slot : table[k] # Null /\ table[k].name # Garbled =>
    table[k].name \in DOMAIN dir /\ dir[table[k].name] = host[table[k].file].inode

\* An id that Open returned can be used until the program closes it
\* (syscall.h, Open).
HeldIsOpen == machine = "running" => \A p \in Program : \A id \in held[p] : table[id] # Null

\* Every program finds descriptors 0 and 1 open (syscall.h).
ConsolesOpen == machine = "running" => table[0] # Null /\ table[1] # Null

\* Read changes nothing but the buffer it was given (syscall.h, Read).
ReadStaysInBuffer ==
  [][\A p \in Program, addr \in 0 .. UserSize - 1, size \in 0 .. UserSize, id \in Slot :
       SysRead(p, addr, size, id) =>
         \A a \in DOMAIN umem : umem'[a] # umem[a] => a \in addr .. addr + size - 1]_vars

\* Write stores the bytes of the buffer it was given (syscall.h, Write).
WriteStoresBuffer ==
  [][\A p \in Program, addr \in 0 .. UserSize - 1, size \in 0 .. UserSize, id \in Slot :
       /\ SysWrite(p, addr, size, id) /\ id > 1 /\ addr + size <= UserSize
       /\ machine' = "running" /\ ret' > 0
       => \A i \in 1 .. size :
            data'[host[table[id].file].inode][table[id].pos + i] = umem[addr + i - 1]]_vars

=============================================================================
