-------------------------------- MODULE Disk --------------------------------
(***************************************************************************)
(* The simulated disk (machine/disk.cc) and the synchronous interface to   *)
(* it (filesys/synchdisk.cc): requests that take as long as the head       *)
(* needs, a track buffer, one interrupt per request, and threads that call *)
(* ReadSector and WriteSector.                                             *)
(*                                                                         *)
(* Reading and writing the host's file happens at once, in the request.    *)
(***************************************************************************)
EXTENDS Integers

CONSTANTS Thread, Nobody,
          Sector,                        \* sectors that are asked for
          SectorsPerTrack, SeekTime, RotationTime,
          MaxCalls,                      \* calls of a thread
          MaxIdle                        \* simulated time goes on without a request up to here

ASSUME DiskAssumption ==
  /\ Nobody \notin Thread
  /\ Sector \subseteq Nat /\ MaxCalls \in Nat /\ MaxIdle \in Nat
  /\ {SectorsPerTrack, SeekTime, RotationTime} \subseteq Nat \ {0}

VARIABLES
  totalTicks,             \* simulated time
  lastSector, bufferInit, \* Disk: the head and the start of the track buffer
  active, due,            \* Disk: the request in progress and its interrupt
  data,                   \* the disk's contents
  holder,                 \* holder of SynchDisk::lock, or Nobody
  semaphore,              \* value of SynchDisk::semaphore
  at, call,               \* where a thread is, and its call
  buffer,                 \* what a thread's last ReadSector returned
  calls                   \* calls made

diskVars == << totalTicks, lastSector, bufferInit, active, due, data >>
synchVars == << holder, semaphore, at, call, buffer, calls >>
vars == << diskVars, synchVars >>

MakeCall(w, s) == [writing |-> w, sector |-> s, start |-> 0, end |-> 0]
NoCall == MakeCall(FALSE, -1)

\* Disk::Disk and SynchDisk::SynchDisk
Init ==
  /\ totalTicks = 0 /\ lastSector = 0 /\ bufferInit = 0 /\ active = FALSE /\ due = 0
  /\ data = [s \in Sector |-> Nobody]
  /\ holder = Nobody /\ semaphore = 0
  /\ at = [t \in Thread |-> "out"] /\ call = [t \in Thread |-> NoCall]
  /\ buffer = [t \in Thread |-> Nobody] /\ calls = [t \in Thread |-> 0]

-----------------------------------------------------------------------------
(* How long a request takes.                                               *)

Abs(n) == IF n < 0 THEN -n ELSE n

TimeToSeek(newSector) ==
  LET seek == Abs((newSector \div SectorsPerTrack) - (lastSector \div SectorsPerTrack)) * SeekTime
      over == (totalTicks + seek) % RotationTime
  IN [seek |-> seek, rotation |-> IF over > 0 THEN RotationTime - over ELSE 0]

ModuloDiff(to, from) ==
  (((to % SectorsPerTrack) - (from % SectorsPerTrack)) + SectorsPerTrack) % SectorsPerTrack

\* Mutant: a sector that passes just now counts as buffered.
ComputeLatencyEarly(newSector, writing) ==
  LET tts == TimeToSeek(newSector)
      timeAfter == totalTicks + tts.seek + tts.rotation
  IN IF ~writing /\ tts.seek = 0
        /\ ((timeAfter - bufferInit) \div RotationTime)
             >= ModuloDiff(newSector, bufferInit \div RotationTime)
     THEN RotationTime
     ELSE tts.seek + tts.rotation + RotationTime
          + ModuloDiff(newSector, timeAfter \div RotationTime) * RotationTime

ComputeLatency(newSector, writing) ==
  LET tts == TimeToSeek(newSector)
      timeAfter == totalTicks + tts.seek + tts.rotation
  IN IF ~writing /\ tts.seek = 0
        /\ ((timeAfter - bufferInit) \div RotationTime)
             > ModuloDiff(newSector, bufferInit \div RotationTime)
     THEN RotationTime
     ELSE tts.seek + tts.rotation + RotationTime
          + ModuloDiff(newSector, timeAfter \div RotationTime) * RotationTime

UpdateLast(newSector) ==
  LET tts == TimeToSeek(newSector)
  IN /\ bufferInit' = IF tts.seek # 0 THEN totalTicks + tts.seek + tts.rotation ELSE bufferInit
     /\ lastSector' = newSector

-----------------------------------------------------------------------------
(* ReadSector and WriteSector in thread t.                                 *)

\* The call, up to lock->Acquire.
Enter(t) ==
  /\ at[t] = "out" /\ calls[t] < MaxCalls
  /\ \E w \in BOOLEAN, s \in Sector : call' = [call EXCEPT ![t] = MakeCall(w, s)]
  /\ at' = [at EXCEPT ![t] = "acquire"] /\ calls' = [calls EXCEPT ![t] = @ + 1]
  /\ UNCHANGED << diskVars, holder, semaphore, buffer >>

Acquire(t) ==
  /\ at[t] = "acquire" /\ holder = Nobody
  /\ holder' = t /\ at' = [at EXCEPT ![t] = "request"]
  /\ UNCHANGED << diskVars, semaphore, call, buffer, calls >>

\* Disk::ReadRequest and WriteRequest; they assert that no request is active.
Request(t) ==
  LET s == call[t].sector
      ticks == ComputeLatency(s, call[t].writing)
  IN /\ at[t] = "request" /\ ~active
     /\ IF call[t].writing THEN data' = [data EXCEPT ![s] = t] /\ UNCHANGED buffer
        ELSE buffer' = [buffer EXCEPT ![t] = data[s]] /\ UNCHANGED data
     /\ active' = TRUE /\ due' = totalTicks + ticks
     /\ UpdateLast(s)
     /\ call' = [call EXCEPT ![t].start = totalTicks, ![t].end = totalTicks + ticks]
     /\ at' = [at EXCEPT ![t] = "wait"]
     /\ UNCHANGED << totalTicks, holder, semaphore, calls >>

\* semaphore->P
Wait(t) ==
  /\ at[t] = "wait" /\ semaphore > 0
  /\ semaphore' = semaphore - 1 /\ at' = [at EXCEPT ![t] = "release"]
  /\ UNCHANGED << diskVars, holder, call, buffer, calls >>

\* lock->Release and the return.
Release(t) ==
  /\ at[t] = "release"
  /\ holder' = Nobody /\ at' = [at EXCEPT ![t] = "out"]
  /\ UNCHANGED << diskVars, semaphore, call, buffer, calls >>

\* Mutant: V twice.
CallBackTwice ==
  /\ active /\ totalTicks >= due
  /\ active' = FALSE /\ semaphore' = semaphore + 2
  /\ UNCHANGED << totalTicks, lastSector, bufferInit, due, data, holder, at, call, buffer, calls >>

\* The interrupt: Disk::CallBack, which calls SynchDisk::CallBack.
CallBack ==
  /\ active /\ totalTicks >= due
  /\ active' = FALSE /\ semaphore' = semaphore + 1
  /\ UNCHANGED << totalTicks, lastSector, bufferInit, due, data, holder, at, call, buffer, calls >>

\* Simulated time; an interrupt that is due is taken first.
Tick ==
  /\ IF active THEN totalTicks < due ELSE totalTicks < MaxIdle
  /\ totalTicks' = totalTicks + 1
  /\ UNCHANGED << lastSector, bufferInit, active, due, data, synchVars >>

Next ==
  \/ CallBack \/ Tick
  \/ \E t \in Thread : Enter(t) \/ Acquire(t) \/ Request(t) \/ Wait(t) \/ Release(t)

\* The machine goes on.  A thread that waits for the lock is not promised it,
\* only not passed over once nobody else comes.
Spec == /\ Init /\ [][Next]_vars
        /\ WF_vars(CallBack) /\ WF_vars(Tick)
        /\ \A t \in Thread : WF_vars(Acquire(t)) /\ WF_vars(Request(t) \/ Wait(t) \/ Release(t))

-----------------------------------------------------------------------------
\* The assertion of the device, "only one request at a time", holds for every
\* thread that gets to it (ReadRequest and WriteRequest under SynchDisk).
OneRequestAtATime == \A t \in Thread : at[t] = "request" => ~active

\* A call returns only after the disk has served this very request, not on an
\* interrupt left over from another one (SynchDisk: "Return only after the
\* data has been read").
ReturnsAfterItsOwn == \A t \in Thread : at[t] = "release" => totalTicks >= call[t].end

\* The disk serves one request at a time, and a call returns only after the
\* disk has served this very request (SynchDisk, Disk::CallBack).
RequestsServed == OneRequestAtATime /\ ReturnsAfterItsOwn

\* The head passed over the whole sector before the request ended: after it
\* was made, or, for a read, since the track buffer was started
\* (ComputeLatency, TimeToSeek, ModuloDiff, UpdateLast).
DataUnderHead ==
  \A t \in Thread : at[t] = "wait" /\ active =>
    LET c == call[t]
        from == IF c.writing THEN c.start ELSE bufferInit
    IN \E k \in 0 .. (c.end \div RotationTime) :
         /\ k % SectorsPerTrack = c.sector % SectorsPerTrack
         /\ k * RotationTime >= from /\ (k + 1) * RotationTime <= c.end

\* Every call returns (lock, request, interrupt and semaphore together): there
\* are finitely many, and from some time on none is under way.
CallsReturn == <>[](\A t \in Thread : at[t] = "out")

=============================================================================
