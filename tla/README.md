# Nachos 4.0: TLA+ models and proofs

This directory models the kernel under `src/code/` (the uniprocessor Nachos 4.0
teaching kernel with multiprogramming system calls), checks the models with TLC
and proves the main results about its core with TLAPS. The converter
`src/coff2noff` and the stacks of `src/c++example` are included. Paths below are relative
to `src/code/`. `PROJECT.json` maps every definition to the lines it stands for.

## The system

| Part | State | Operations | What is hard |
|---|---|---|---|
| Threads, scheduler (`threads/thread.cc`, `scheduler.cc`) | `currentThread`, `status`, `readyList`, `toBeDestroyed`, saved user registers | Fork, Yield, Sleep, Finish, Begin, Run | a thread idles on its own stack and can be woken there; a finished thread is deleted by the next one |
| Semaphores (`threads/synch.cc`) | `value`, `queue` | P, V, from threads and interrupt handlers | a woken P is overtaken; several V's before anybody runs |
| Locks and conditions (`threads/synch.cc`) | `semaphore`, `lockHolder`, `waitQueue` | Acquire, Release, Wait, Signal, Broadcast | preemption inside Acquire and Wait |
| SynchList (`threads/synchlist.cc`) | list, lock, condition | Append, RemoveFront, Apply | a signalled consumer finds the list empty |
| Interrupts, timer (`machine/interrupt.cc`, `timer.cc`, `threads/alarm.cc`) | `pending`, `level`, `status`, `yieldOnReturn` | SetLevel, OneTick, Idle, Schedule, CheckIfDue | nested yields, interrupts that fall due together |
| Processes (`threads/PTable.cc`, `pcb.cc`) | table of PCBs, free-slot bitmap, three semaphores per PCB | Exec, Join, Exit | Exit and Join meet in any order; slots and addresses are used again |
| Address spaces (`userprog/addrspace.cc`) | page table, frame bitmap | Load, Execute, RestoreState | frames that are never given back |
| User semaphores (`threads/STable.cc`) | ten named semaphores | Create, Wait, Signal | initial value, full table |
| Console, disk, network (`userprog/synchconsole.cc`, `filesys/synchdisk.cc`, `network/post.cc`, `machine/*.cc`) | device busy flags, a semaphore and a lock per driver | read, write, send, receive, CallBack | end of input, lost packets |
| Files (`filesys/`) | open file table (stub), or directory, bitmap, headers on disk | Create, Open, Read, Write, Seek, Close, Remove | descriptor limits; several sectors per update |
| Simulated machine (`machine/mipssim.cc`, `translate.cc`, `machine.cc`) | registers, memory, page table | OneInstruction, ReadMem, WriteMem, Translate, RaiseException | delayed loads and branches at a fault; sign and overflow at the edges |
| Library (`lib/`) | bitmap, lists, hash table | their methods | boundaries |

System calls enter through `ExceptionHandler` (`userprog/exception.cc`) into
these parts; processes are threads with an address space; everything that waits
does so on a `Semaphore`, and semaphores rest on the scheduler and on disabling
interrupts.

### Why the steps are what they are

Nachos simulates one processor. Control goes to another thread in three places
only: `Thread::Sleep`, `Thread::Yield`, and the yield that `Interrupt::OneTick`
makes when the timer asked for it. `OneTick` runs when interrupts go from off to
on (`SetLevel`), hence at the end of every `P`, `V` and `Fork`, and after every
user instruction. Kernel code between two such points is atomic, and one action
of a model is the code from one such point to the next. A trailing V belongs to
the action whose code it ends.

## Modules

| Module | Models | Correspondence |
|---|---|---|
| `Threads` | thread.cc, scheduler.cc | the variables are the members of Thread, Scheduler and Interrupt that scheduling uses. `where` is the place in the kernel a thread stands at, `space`, `userRegisters` and `registers` say whose user context is where |
| `Semaphores` | synch.cc P, V; the CallBacks of all device drivers, which only call V | composes Threads with the most general client: the running thread calls anything, the timer preempts it anywhere, handlers call V |
| `SemaphoreAbs` | the promise in synch.h | atomic P and V; implemented by `Semaphores` |
| `Interrupts` | interrupt.cc, timer.cc, alarm.cc, the loop of Machine::Run | `pending` is sorted by time left, so the clock itself is not a variable |
| `Monitor` | Lock, Condition | atomic semaphores, a step per preemption point; the client uses conditions only under the lock |
| `SynchList`, `BlockingFifo` | synchlist.cc, and what it promises | SynchList runs on Monitor and implements BlockingFifo; `op` is the call a thread is in, and a thread may append, remove and apply in turn |
| `ProcessTable` | PTable.cc, pcb.cc, Exec, Join, Exit of exception.cc | atomic semaphores; programs call Exec, Join, Exit in any order. The V that ends Exec may find the child's PCB deleted: it is then lost, or the kernel faults |
| `Switch` | switch.S (x86), StackAllocate | registers and stack words; code compiled from C owes its caller the callee-saved registers. The frames of C functions are not on the stacks: that no stack is overrun is said of the words SWITCH, ThreadRoot and their calls push. A thread that idles may be switched to itself |
| `UserMode` | machine run loop, ExceptionHandler's dispatch, save and restore of registers and page tables | programs are short scripts of instructions and calls; what a call does is in the module of its component. A call that may wait loses the processor at most once, which stands for any number; Open may abort the machine, and Exit of the first process halts it |
| `Memory`, `Cpu` | translate.cc; mipssim.cc, mipssim.h, the trap in machine.cc | a function per group of opcodes on words of `4 * ByteBits` bits; one action per instruction |
| `Loader` | coff2noff.c, AddrSpace::Load and its frames | a file is a sequence of sections; the converter's loop is one action per section, Load one action per preemption point |
| `UserSemaphores` | STable.h, STable.cc, sem of it, and the three system calls | the queue of each semaphore is explicit, so that a woken P can be overtaken |
| `FileTable` | filesys.h, openfile.h in the `FILESYS_STUB` build, ksyscall.h, the file and socket calls of exception.cc, the wrappers of sysdep.cc they use | the host is a set of numbered descriptors with open file descriptions; a system call is one action. Only Read and Write of the console let other threads run, which `Console` models; they change nothing of the table. Kernel::Initialize leaves descriptors for the disk, the files the constructor creates, the console files and the post office's two sockets |
| `Console` | machine/console.cc, synchconsole.cc, the calls that read and print | character by character, an action per preemption point |
| `Disk` | machine/disk.cc, synchdisk.cc | arm, rotation and track buffer in ticks, requests of several threads |
| `Network` | machine/network.cc, post.cc, NetworkTest of kernel.cc | a socket per machine, both locks and all semaphores of the post office |
| `FileSystem` | the file system without `FILESYS_STUB`: filesys.cc, directory.cc, filehdr.cc, openfile.cc, pbitmap.cc | the disk is an array of sectors of cells; an operation is a sequence of sector writes, and the machine may stop between two |
| `Lists`, `SequenceList` | list.h, list.cc, and the sequence they promise | elements, pointers and the heap; `Lists` implements `SequenceList`, call by call: `called` is the last call with its item, or the item RemoveFront returned |
| `HashTable`, `Bitmap`, `Stacks` | hash.h and hash.cc; bitmap.cc; the stacks of `src/c++example` | buckets, words, array and list, each against a set or the other representation |
| `SemaphoresProofs`, `InterruptsProofs`, `ProcessTableProofs`, `UserSemaphoresProofs` | theorems and proofs | each extends the module it is about |
| `SynchListProofs`, `DeviceProofs`, `MachineProofs`, `JoinOnceProofs` | theorems and proofs | about Monitor and SynchList; about Console and Network; about UserMode, Disk and Switch; and, on top of `ProcessTableProofs`, about programs that join each child once |
| `MC*` | instances for TLC | `MCDevices`, `MCMachine`, `MCSyscalls` and `MCLibrary` each hold several modules that share no state: `part` says which of them works in a behaviour, and the others stay in an initial state. `MCSynchList` and `MCProcessTable` choose the kind of client in the same way |

Definitions under a comment `Mutant:` are wrong variants of the definition that
follows. No specification uses them. Each property is shown to notice at least
one of them when it takes the place of the definition it varies.

## Runs

| Run | Instance | Shows |
|---|---|---|
| `semaphores` | 3 threads, a mutex and a device semaphore, `MaxValue` 2 | lists match status, thread destruction is safe, wakeups are not lost, user contexts are intact; ready threads run and a positive semaphore with sleepers does not stay so; P and V implement `SemaphoreAbs` with its progress |
| `synchlist` | 5 threads, 2 conditions, used in any way; or a producer and 3 consumers of 2 items; or these with an observer | mutual exclusion, `lockHolder` is right, no Signal reaches a freed semaphore, no Wait is out of Signal's reach, no item is left while the consumers sleep; SynchList implements a blocking FIFO, with progress where there is no observer |
| `processes` | 3 slots, 3 Execs; programs that Join anything, or each child at most once | a slot has one owner, Exec is exclusive, Join waits for Exit; with one Join per child the child is not removed under it, the processes never all wait for each other, Join returns once the child exited and the child is removed |
| `interrupts` | 2 threads, ticks 1 and 3, timer after 1 or 4, I/O after 2 or 5 | no interrupt is overlooked, lateness is bounded, the timer is always pending, status is restored after nested yields, a thread that never blocks is preempted |
| `devices`: disk | 2 threads, 2 requests each, 3 sectors on 2 tracks | one request at a time, a call returns on its own interrupt; when a request ends the head or the track buffer has seen the sector |
| `devices`: console | 2 readers, 2 writers, 4 characters typed; a positive, a negative and the least int printed | the devices' ASSERTs hold, no character is lost; strings appear as they are and numbers as numerals, but for the least int, of which a `-` and each digit's mirror image below `0` is printed |
| `devices`: network | 2 machines, up to 3 threads: NetworkTest; two senders and two boxes; loss and a machine that starts late | past the socket nothing vanishes, doubles or overtakes. `DeviceCallsReturn`, for all three devices: every call returns, a Send also when the packet is lost, and NetworkTest ends without loss |
| `machine`: instructions | every opcode on 10 operand values at the edges of the range | arithmetic is exact or traps, against definitions on unbounded integers |
| `machine`: sequences | 3 instructions out of loads, stores, branches, traps | faults are precise, LWL/LWR and SWL/SWR pairs are an unaligned access, stores mark their page dirty, register 0 stays zero |
| `machine`: switch | 3 threads, stacks of 12 words, switches to another thread and to itself | a thread resumes with its registers and at its place, a new one makes its three calls in order, and nothing is written outside a stack |
| `machine`: programs | 3 programs, preempted at each tick; or three of which one faults, one opens a file and one waits and halts; or three of which one makes an unknown call | a program always goes on with its own registers and page table; programs that make known calls end, unless the machine stops or they sleep in a Wait, Join or Exit that no other program lets go on |
| `machine`: load | linked files of every shape up to 3 bytes a section, 2 processes | what is in memory after coff2noff and Load is the program; frames are never shared; Load fails only for want of frames, and ends |
| `syscalls`: disk, crashing, written | 8 or more sectors, 3 directory entries, 4 names, 5 operations, without and with a stop between any two sector writes; 2 files written at every alignment, 3 operations | free map, directory and headers agree, no sector has two owners, files keep their data; a crash spoils only the file the operation is about, and the disk can be mounted |
| `syscalls`: descriptors, collisions, contents | 4 entries, 12 host descriptors, 2 names, every call; 7 entries and 13 descriptors, where Create closes entries by the number of its descriptor; files and buffers of up to 2 bytes | table and host descriptors stay in step until either runs out; a file that is open under a name that can be read back exists; no ASSERT on a write, a seek or a close of the host fails, and those on opening a file or a socket fail only when the host has no descriptor left |
| `syscalls`: shared, several | 3 programs on one semaphore; 3 names for 2 entries | Waits are paid for by Signals, no Signal is lost, a name has one semaphore |
| `library` | 4 items; 6 items, 2 resizes; 7 bits in words of 3; stacks of 4 | every sequence of calls agrees with the abstract sequence, set or stack |
| `join_status`, `is_exist`, `finds_itself`, `file_create_closes` | expected violations | see Findings |

A property that is the conjunction of properties of one module (`InterruptsOnTime`,
`TableSound`, `ThreadsProgress`, and those of the `MC` modules) has its parts
stated and explained in that module.

### Bounds

- Three threads are the least with a sleeper, a woken thread and one that
  overtakes it; three also give a finished thread, the one that deletes it and a
  second one that finishes. `MaxValue` 2 lets two V's come before anybody runs.
- The interrupt delays are scaled down. They keep SystemTick larger than
  UserTick, and let two interrupts fall due in the same tick and one fall due
  while another's handler runs.
- Unaligned access is tried after every sequence of up to two instructions, which
  includes a load that has not arrived; the other properties of sequences after
  three.
- Five threads on a monitor give two sleepers per condition and one more that
  holds the lock; the specification is symmetric in threads.
- Three process slots hold the first program, a child and a grandchild, with the
  table full; a third Exec, after one of them was removed, uses a slot again. The code has ten slots and
  nothing depends on the number.
- Bytes of two bits make words of eight: the code's shifts, sign extensions and
  overflow tests are written in terms of the width, and all of the range's edges
  are among the operands. Instructions keep their 32 bits.
- In `FileSystem` a sector has five cells and a map byte two bits, so that the
  third directory entry lies across two sectors, the map fills, and a write can
  begin and end inside sectors. Five operations fill the directory, find it full,
  remove a file and give its sectors and its entry to another.
- In `FileTable` four entries are few enough for every call to meet a full table and
  a full host. Six descriptors are taken by Kernel::Initialize, after the host's three
  and the disk's, so Create gets the number of an entry (Close(0) frees descriptor 6)
  only in a table of seven: the part `collisions`, with Create, Open and Close.
- `Loader` has pages of two bytes and sections of up to three: every section can
  begin and end inside a page or at its edge, and two processes fill the memory.
- The disk has tracks of two sectors and a rotation of two ticks per sector;
  `MaxIdle` lets a request come at each position of the platter.
- In `Switch` 12 words hold the deepest stack, a call of SWITCH inside a function
  called by ThreadRoot, with the fencepost below and the free words above it.
- The int of `PrintNum` has eight bits; what the code does at the least int does not
  depend on the width.
- The bounds in guards are `MaxValue` (no V beyond it, by a thread or a device),
  `MaxExec` (Execs a run makes), `MaxSignals`, `MaxCalls`, `MaxOps`, `MaxLen`,
  `MaxBuckets`, `MaxSteps` and `MaxIdle`. All stop a caller or the
  passing of time, never a kernel step that has begun; the theorems hold for
  every `MaxValue`.

### Fairness

The simulator runs whatever thread is current, so steps inside the scheduler and
inside P are weakly fair. Yield is weakly fair because the timer reschedules
itself at each interrupt (`Timer::Disable` has no caller) and asks for a yield
whenever the machine is not idle; `Interrupts` checks exactly this
(`TimerAlwaysPending`, `HogPreempted`). In the modules on atomic semaphores,
weak fairness of a thread's steps is round robin (`ReadyRuns`), and semaphores
whose waiters can be overtaken are given no more than `SemaphoreAbs` promises.
Clients are not assumed to make any call. `Interrupts` assumes that a thread goes
on executing: user code instruction by instruction, kernel code until it enables
interrupts again.

The devices' interrupts (console, disk, network) are weakly fair: `Schedule` puts
each into the queue of pending interrupts and the machine does not halt before it
is empty. The steps of a thread in `Disk`, `Network` and `Loader` are weakly fair
too, the taking of the lock included. This does not promise a thread the lock
while others come back for it again and again: a semaphore's queue is first in,
first out, but a woken thread can find the semaphore taken and queue up again. In
these models each thread makes a bounded number of calls, so it is enough. In
`UserMode` the dispatch of ready threads is weakly fair, round robin. A thread that
sleeps in a system call is woken (`ReadyToRun`) with weak fairness only if the call
waits for the console or for Exec's semaphore (`Driven`); that a Wait, a
Join or the ExitWait of Exit is let go is not assumed. An observer
of a SynchList (`Apply`) is under no such bound and can keep a woken consumer from
the lock; progress of the FIFO is therefore claimed of lists without one.

Deadlock checking is off where clients may legitimately all wait: a monitor in
which everybody waits for a signal, and processes, which may all have exited or
wait for a Join that no program makes. `OnceNoStandstill` says what must hold there
instead. It is also off where a script, a bounded client or the machine itself
comes to its end; `DeviceCallsReturn` and `ProgramsLoadAndEnd` say that it is the
end and not a wait.

## Proofs

The theorems hold for every value of the constants that satisfies the assumptions
named below. Some have a hypothesis besides: `[]FindsItself` or `[][FreshThreads]_vars`
in `ProcessTableProofs` and `JoinOnceProofs`, and `Sound` (initial values that are not
negative) in `UserSemaphoresProofs`.

`SemaphoresProofs` assumes `ThreadAssumption` (finitely many threads, `Main` is
one, `NoThread` is none) and `SemaphoreAssumption` (devices are semaphores,
initial values are natural numbers).

- `TypeCorrect`: TypeOK is inductive as it stands. It contains `value >= 0`.
- `SInv == TypeOK /\ ListsMatchStatus /\ Places` is inductive. ListsMatchStatus
  alone is not: that a woken thread is not on the ready list already follows
  from where it stands, and that it stands there from its status. `Places` says
  which places go with which status, that a thread has a semaphore to wait for
  exactly while it is in P, and what the running thread may rely on.
  `ListsCorrect` and `DestructionSafe` follow from SInv.
- `ContextsIntact`: `Contexts` says for each thread whether its context is in the
  machine or saved; it is inductive relative to SInv. `RunContexts` is the heart
  of it: the switch itself, for Yield and for Sleep.
- `WakeupsNotLost`: NoLostWakeup is inductive relative to SInv. The scheduler
  leaves `Woken(s)` alone, V adds one thread as it adds one to the value, a
  woken P that succeeds takes both away, one that fails found 0.
- `ImplementsAbsSafety`: every step is Pass, Ask, Take, Release or a stutter.

`SynchListProofs` begins with the monitor, and assumes that `NoThread` and
`NoCondition` are no thread and no condition. `MInv` joins the type invariant, "the semaphore is 1 only when nobody
is inside" (which makes mutual exclusion inductive), `HolderIsInside`, and the
two invariants about wait queues, each of which needs the other parts.
`LockExcludes`, `HolderCorrect`, `WaitersAlive` and `WaitersReachable` follow.

Its second part adds `SynchListAssumption` (finitely many threads; producers,
consumers and observers are among them, and may overlap). The steps of a
SynchList are steps of its monitor, so `MInv` carries over.

- `ItemsNotStranded`: `SInv` joins MInv, `NoItemStranded` and `OpOK`, which ties the
  operation of a thread to its place; without it a signalled thread might be an
  observer, which takes no item. The count of consumers on their way falls only
  with the list, and an Append that finds sleepers adds one.
- `SynchListIsFifo`: every step is a step of `BlockingFifo` or a stutter (the safety
  part of `ListIsFifo`).

`InterruptsProofs` assumes `InterruptAssumption`: ticks and delays are positive and
a user tick is no longer than a system tick.

- The inductive invariant `IInv` adds to the types: `pending` is sorted, with at most
  one entry per type and always one for the timer, none of them more than a system
  tick late and none due where code runs (`ClockInv`); and the status that belongs to
  what a thread executes is in the machine, or saved by the OneTick whose Yield the
  thread is in (`StatusInv`). Sortedness is what makes CheckIfDue, which looks at the
  head only, miss nothing. `InterruptsAreOnTime` and `ModeStaysRight` follow.

`DeviceProofs` is about Console, with any threads and calls (`ConsoleAssumption`:
`NoUser` is none of them), and about Network, with any machines, threads, boxes and
scripts (`NetAssumption`: a thread is on a machine, a script is a sequence of calls,
and a machine that runs NetworkTest has another one to test with).

- `ConsoleReadsOnce`: for each device one token goes round (`InputToken`,
  `OutputToken`). On the input side it is the scheduled poll, the V of the semaphore,
  or the reader that took this V and not the character yet; `ConsoleLocks` makes that
  reader the only one. The ASSERTs of both devices follow from where the token is.
- `NetworkKeepsMail`: the same tokens for the sender (`SendToken`) and for the postal
  worker (`WorkerToken`: as many V's as buffered packets, at most one). A packet
  passes from the socket to the device's buffer, the worker's hands, a box and a
  thread. `MailAt` says of each machine that what is in these places was sent to it as
  it is (`GenuineAt`), that the places are in the order of arrival (`OrderedAt`), and
  that no packet which arrived is outside them (`CompleteAt`). Order between boxes is
  not kept and not claimed; order at a box is not inductive without that of the places
  before it.

`MachineProofs` is about what the machine keeps for a thread. It assumes
`UserAssumption` (there are finitely many threads, and at least one),
`DiskAssumption` (a track has at least one sector, and seek and rotation take at least
one tick) and `SwitchAssumption` (`Main` is a thread, a stack has more than 10 words).

- `UserStateCorrect`: `UInv` says that the registers and the page table are those of
  the current thread once it has a space, and that userRegisters holds the registers
  of every other thread that has one (`StateIsSomewhere`); a thread has a space from
  Execute on (`SpaceFromExecute`), which is what `Run` tests before it saves and
  restores.
- `SwitchCorrect`: `SwInv` lists the places a thread can be in (`InPlace` for the one
  that runs, `Parked` for the others): about to enter ThreadRoot, between two of its
  calls, or in compiled code, below ThreadRoot or in Main. For each it gives the stack
  pointer and the words that are then on the stack. A thread in SWITCH has its return
  address where SWITCH will look for it and its registers in machineState (`Gone`);
  a thread that never ran has what StackAllocate wrote (`Fresh`). `Fenced` keeps the
  fencepost. That each thread writes only between its own stack pointer and the
  fencepost, and so not into the words another place relies on, is arithmetic on
  `StackSize`.
- `DiskServesRequests`: `LockInv` says that only the holder of the lock is between
  Acquire and Release, and gives `active` and the semaphore's value from where it
  stands.
- `DiskLatencySuffices`: `HeadInv` says that the track buffer was started
  at a sector's boundary and not after the end of the request that started it; the
  rest is modular arithmetic on the position of the platter, in lemmas of its own.

`ProcessTableProofs` assumes `ProcessAssumption`: at least one slot. It says nothing
of how many processes there are or what they call.

- `PInv` has six parts: types; which slots are marked (`SlotInv`); the life of a
  process from `new PCB` to Remove (`LifeInv`); Exec is exclusive and has the mutex of
  a child it has forked (`ExecInv`); what a Join relies on at each of its steps
  (`JoinInv`); and that an Exec under way finds a PCB to make (`BoundInv`, about the
  bound `MaxExec` only). TableSound and JoinWaitsForExit are not inductive without
  them: that Remove frees the right slot follows from LifeInv, and that nobody is
  past JoinWait early from `joinsem > 0` only after Exit.
- Each step also needs that the caller finds its own PCB. This is false when the
  allocator returns a freed Thread address (run `finds_itself`), so `TableStaysSound`
  and `JoinAlwaysWaits` have `[]FindsItself` as a hypothesis.
  `FreshFindsItself` says what it takes of the allocator: `FreshThreads`, no Thread is
  made at an address that a PCB in the table still has. Then no two slots have the
  same address (`OneMatch`), and with PInv the search finds the caller. Addresses may
  be used again in such behaviours: `new PCB` takes the lowest free slot before
  `new Thread`, so a process that replaces the only removed one may get its address
  too. The hypothesis fails exactly in the case that `finds_itself` shows.
- `JoinedKeepsPCB` and `JoinedByCreatorOnce`, in `JoinOnceProofs`, are about programs
  that join a pid once for each Exec that returned it (`JoinOnce`; the variable
  `client` says which kind of program a behaviour is about). `OnceInv` says that the pids a program
  may still join are slots of children of its own that no Join has released; a
  child released by nobody stays in ExitWait, so it is not removed. The first is
  what the run `processes` checks as `OnceNotRemovedUnderJoin`, and
  `FreshKeepsPCB` has `FreshThreads` in the place of `[]FindsItself`.

`UserSemaphoresProofs` is about tables of any size, any names and finitely many
programs. Its hypothesis `Sound` asks for initial values that are not negative: with
a negative one, which CreateSemaphore accepts, P goes on below zero and WaitsArePaid
is false.

- `UserSemaphoresCorrect`: `UInv` adds to the three properties the types (with
  `value >= 0`), that a free slot was never used and that programs stand only in used
  ones (`FreshInv`), and that a program is in one place: outside, once in one queue,
  or woken (`QueueInv`). NoLostSignal needs the last: V must add a program to the
  woken ones that was not among them, and a program whose P takes the value is in no
  queue. `PKeeps` and `VKeeps` are one turn of P and one V, `CreateKeeps` is Create.

All these invariants were checked with TLC on small instances before they were
proved.

Only model-checked:

- everything about liveness, fairness and ENABLED (ThreadsProgress, HogPreempted,
  OnceNoStandstill, OnceJoinsEnd, DeviceCallsReturn, ProgramsLoadAndEnd, the progress
  parts of ImplementsAbs and ListIsFifo), which is out of the prover's reach;
- what definitions by recursion and folds compute, which takes induction over data:
  IntegersExact, MemoryAccessRight, PreciseFaults, PrintedInOrder, BitmapIsSet,
  TableFindsAll, ListIsSequence, DiskKeepsFiles, CrashIsContained, ProgramLoaded;
- FileTableSound, which is not proved yet.

`TypeCorrect` is proved and in no run.

## Findings

- `join_status`: `JoinUpdate` reads the exit code after `ExitRelease`. The child
  can be removed and its slot used by another Exec first; Join then returns
  another process's code.
- `is_exist`: `~PCB` calls `thread->Finish()`, which does not return, so
  `pcbs[pid] = NULL` in `Remove` is never executed and the slot of a removed
  process goes on to "exist".
- `finds_itself`: `GetCurrentThreadId` compares Thread addresses with those of
  removed PCBs too; with an address that was used again a process gets the pid
  of a removed one. This run sets `Recycle`, which lets the allocator return a
  freed address; the passing runs do not.
- `file_create_closes`: Create gives the host's descriptor to `FileSystem::Close`,
  which takes it for an index of the open file table and closes a file that some
  program has open. The run opens a file, three sockets and another file, closes
  descriptor 0 and creates a file, whose host descriptor is the last entry's number.

### Further disagreements

The modules state these as properties too, where a comment, a document or the
header of a call says otherwise than the code. TLC finds each violated in a small
instance of the module alone; no run is kept for them.

| Property | What the code does |
|---|---|
| `ProcessTable!JoinedByCreator` | `JoinUpdate` compares slot numbers, so a process that got the slot of a removed parent may join that parent's child. It needs a program that joins a pid more often than Exec returned it: otherwise the property is proved |
| `Switch!StartupInEax` | the comment on ThreadRoot says eax, the code uses ecx |
| `Cpu!LogicalShift` | SRL and SRLV shift a signed int and are arithmetic |
| `UserMode!ProgramsEnd` without `Answered` | a call that ExceptionHandler has no case for (SC_Add) is made again forever |
| `Loader!BssContiguous`, `Loader!ListedConverts` | coff2noff refuses contiguous .bss sections and accepts others; a .sbss section, which its header comment lists, is refused |
| `FileTable!ConsolesOpen` | Close(0) closes the console for every program |
| `FileTable!ReadStaysInBuffer`, `FileTable!WriteStoresBuffer` | Read stores a byte behind the buffer, and Write loses what follows a zero byte |
| `FileTable!OpenFilesExist` for every entry | a recorded file name is not terminated (`Garbled`), so Remove can miss that the file is open |
| `FileSystem!FilesFitTheirHeader` | Create takes files that do not fit their header |
| `UserSemaphores!ValueNeverNegative` | CreateSemaphore accepts a negative value |
| `Console!CallsReturn` with `AtEnd = "EOF"`, `Console!ReadGivesWhatThereIs`, `Console!LeastPrinted` | reading past the end of the input waits forever; Read drops what it has read when the input ends; PrintNum of the least int prints no digits |
| `Network!BusyWhileSending`, `Network!ReliabilityIsLoss` | `sendBusy` is never set; the reliability is described as the chance of loss |

## Not modelled

- Halt: the order in which `~Kernel` deletes interrupt, scheduler and process table,
  whose PCBs then call `Thread::Finish` on what is gone.
- The overflow of `totalTicks`, an int, past 2^31 ticks: `Interrupts` keeps times
  relative to now.
- Option parsing, self tests, debugging output and the single-step debugger, user
  programs, the assembly for processors other than x86, the TLB (`USE_TLB` is not
  defined), and the C++ examples other than the stacks.
- In `FileSystem`, the removal of a file that is open: the stale header of the open
  file (`openfile.cc:29`) and what a write through it does. After a crash
  the model stops at the first mount, because the code has no repair: what later
  operations do to a disk with a half finished creation is not constrained.
- A host that fails in other ways than running out of descriptors or not having
  a file: a full disk, interrupted calls, signals.
- The sizes of network messages and of socket transfers, which the code passes
  through.

## Plan

Theorems: FileTableSound; the implementation of SequenceList (safety).
