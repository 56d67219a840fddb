------------------------------- MODULE Loader -------------------------------
(***************************************************************************)
(* From a linked program to a process's memory: coff2noff (coff2noff.c),   *)
(* which turns a COFF file into a NOFF file, and AddrSpace::Load           *)
(* (userprog/addrspace.cc), which several processes run, started by        *)
(* StartProcess (threads/pcb.cc).                                          *)
(*                                                                         *)
(* The host is little-endian: WordToHost and SwapHeader change nothing.    *)
(* A step of Load ends at addrLock->P and at the return; between P and V   *)
(* nothing can be preempted.                                               *)
(***************************************************************************)
EXTENDS Integers, Sequences, FiniteSets, FiniteSetsExt, SequencesExt

CONSTANTS Coff,           \* COFF files: [magic, sections]
          Process,        \* processes that execute the program
          PageSize, NumPhysPages, UserStackSize,
          HeaderSize      \* sizeof(NoffHeader)

VARIABLES
  coff,      \* the COFF file
  section,   \* coff2noff: the next section, 0 before the headers are read
  noffH,     \* coff2noff: the NOFF header
  body,      \* coff2noff: the bytes after the header
  status,    \* coff2noff: "running", "done", or "failed" and the output is unlinked
  frames,    \* gPhysPageBitMap: the frames whose bit is set
  memory,    \* mainMemory, by frame
  addrLock,  \* value of the semaphore
  at,        \* where a process is in StartProcess
  pageTable, \* process -> frames of its pages
  machine    \* "running" or "aborted"

coffVars == << coff, section, noffH, body, status >>
loadVars == << frames, memory, addrLock, at, pageTable, machine >>
vars == << coffVars, loadVars >>

NoSegment == [virtualAddr |-> 0, inFileAddr |-> 0, size |-> 0]
SegmentOf == [s \in {".text", ".rdata", ".data", ".bss"} |->
                CASE s = ".text" -> "code" [] s = ".rdata" -> "readonlyData"
                  [] s = ".data" -> "initData" [] OTHER -> "uninitData"]
ZeroPage == [b \in 0 .. PageSize - 1 |-> 0]

\* coff2noff starts; the kernel has set up memory and frames.
Init ==
  /\ coff \in Coff /\ section = 0 /\ status = "running" /\ body = << >>
  /\ noffH = [s \in {"code", "readonlyData", "initData", "uninitData"} |-> NoSegment]
  /\ frames = {} /\ memory = [f \in 0 .. NumPhysPages - 1 |-> ZeroPage]
  /\ addrLock = 1 /\ at = [p \in Process |-> "new"] /\ pageTable = [p \in Process |-> << >>]
  /\ machine = "running"

-----------------------------------------------------------------------------
(* coff2noff                                                               *)

\* The file header, the system header and the section headers; a file that
\* is too short for them counts as one with a bad magic number.
ReadHeaders ==
  /\ status = "running" /\ section = 0
  /\ IF coff.magic THEN section' = 1 /\ UNCHANGED status
     ELSE status' = "failed" /\ UNCHANGED section
  /\ UNCHANGED << coff, noffH, body, loadVars >>

Section == coff.sections[section]
Advance == status = "running" /\ section \in DOMAIN coff.sections /\ section' = section + 1

\* An empty section is skipped, whatever its name.
SkipSection ==
  /\ Advance /\ Section.s_size = 0
  /\ UNCHANGED << coff, noffH, body, status, loadVars >>

\* .text, .data and .rdata: their bytes go to the end of the output; Read
\* gives up when the input is too short.
CopySection ==
  LET s == Section IN
  /\ Advance /\ s.s_size > 0 /\ s.s_name \in {".text", ".data", ".rdata"}
  /\ noffH' = [noffH EXCEPT ![SegmentOf[s.s_name]] =
                  [virtualAddr |-> s.s_paddr, size |-> s.s_size,
                   inFileAddr |-> HeaderSize + Len(body)]]
  /\ body' = body \o s.data
  /\ status' = IF Len(s.data) < s.s_size THEN "failed" ELSE status
  /\ UNCHANGED << coff, loadVars >>

\* .bss: a second one is added to the first, or refused if it follows it.
BssSection ==
  LET s == Section
      u == noffH.uninitData
  IN /\ Advance /\ s.s_size > 0 /\ s.s_name = ".bss"
     /\ IF u.size = 0
        THEN /\ noffH' = [noffH EXCEPT !.uninitData.virtualAddr = s.s_paddr,
                                       !.uninitData.size = s.s_size]
             /\ UNCHANGED status
        ELSE IF s.s_paddr = u.virtualAddr + u.size
        THEN status' = "failed" /\ UNCHANGED noffH
        ELSE noffH' = [noffH EXCEPT !.uninitData.size = @ + s.s_size] /\ UNCHANGED status
     /\ UNCHANGED << coff, body, loadVars >>

UnknownSection ==
  /\ Advance /\ Section.s_size > 0 /\ Section.s_name \notin DOMAIN SegmentOf
  /\ status' = "failed"
  /\ UNCHANGED << coff, noffH, body, loadVars >>

\* The header is written last.
WriteHeader ==
  /\ status = "running" /\ section = Len(coff.sections) + 1
  /\ status' = "done"
  /\ UNCHANGED << coff, section, noffH, body, loadVars >>

-----------------------------------------------------------------------------
(* AddrSpace::Load in the thread of p.                                     *)

divRoundUp(n, s) == (n \div s) + (IF n % s > 0 THEN 1 ELSE 0)
actualSize == noffH.code.size + noffH.initData.size + noffH.readonlyData.size
NumPages == divRoundUp(actualSize + noffH.uninitData.size + UserStackSize, PageSize)

\* Open fails when coff2noff left no file; that ends in ASSERTNOTREACHED.
LoadOpen(p) ==
  /\ machine = "running" /\ at[p] = "new" /\ status # "running"
  /\ IF status = "done" THEN at' = [at EXCEPT ![p] = "lock"] /\ UNCHANGED machine
     ELSE machine' = "aborted" /\ UNCHANGED at
  /\ UNCHANGED << coffVars, frames, memory, addrLock, pageTable >>

LoadLock(p) ==
  /\ machine = "running" /\ at[p] = "lock" /\ addrLock > 0
  /\ addrLock' = addrLock - 1 /\ at' = [at EXCEPT ![p] = "load"]
  /\ UNCHANGED << coffVars, frames, memory, pageTable, machine >>

\* The frames that FindAndSet returns, the lowest first.
FreeFrames ==
  LET free == (0 .. NumPhysPages - 1) \ frames
  IN [k \in 1 .. Cardinality(free) |->
        CHOOSE f \in free : Cardinality({g \in free : g < f}) = k - 1]

\* The buffer: every segment at its virtual address, the rest zero.  coff2noff
\* writes contiguous segments, which end within actualSize; one that did not would
\* be written past the end of the buffer.
Buffer ==
  [v \in 0 .. actualSize - 1 |->
     LET in == {s \in DOMAIN noffH : s # "uninitData" /\ noffH[s].size > 0
                  /\ v \in noffH[s].virtualAddr .. noffH[s].virtualAddr + noffH[s].size - 1}
         seg == noffH[CHOOSE s \in in : TRUE]
     IN IF in = {} THEN 0 ELSE body[seg.inFileAddr - HeaderSize + v - seg.virtualAddr + 1]]

\* Mutant: lastPage is not corrected when the data fill their last page.
CopyPagesShort(table) ==
  [f \in 0 .. NumPhysPages - 1 |->
     IF f \notin Range(table) THEN memory[f]
     ELSE LET i == (CHOOSE k \in DOMAIN table : table[k] = f) - 1
              pages == divRoundUp(actualSize, PageSize)
              count == IF i = pages - 1 THEN actualSize % PageSize
                       ELSE IF i < pages THEN PageSize ELSE 0
          IN [b \in 0 .. PageSize - 1 |-> IF b < count THEN Buffer[i * PageSize + b] ELSE 0]]

\* The frames are zeroed and the buffer is copied to them page by page, the
\* last page in part.
CopyPages(table) ==
  [f \in 0 .. NumPhysPages - 1 |->
     IF f \notin Range(table) THEN memory[f]
     ELSE LET i == (CHOOSE k \in DOMAIN table : table[k] = f) - 1
              pages == divRoundUp(actualSize, PageSize)
              lastPage == IF actualSize % PageSize = 0 THEN PageSize ELSE actualSize % PageSize
              count == IF i = pages - 1 THEN lastPage ELSE IF i < pages THEN PageSize ELSE 0
          IN [b \in 0 .. PageSize - 1 |-> IF b < count THEN Buffer[i * PageSize + b] ELSE 0]]

TooBig == NumPages > NumPhysPages - Cardinality(frames)

\* Between P and V: allocate and copy, or return FALSE to StartProcess, which
\* aborts the machine; what others do between that V and the abort is lost with it.
LoadWork(p) ==
  /\ machine = "running" /\ at[p] = "load"
  /\ addrLock' = addrLock + 1
  /\ IF TooBig
     THEN machine' = "aborted" /\ UNCHANGED << frames, memory, pageTable, at >>
     ELSE LET table == SubSeq(FreeFrames, 1, NumPages)
          IN /\ pageTable' = [pageTable EXCEPT ![p] = table]
             /\ frames' = frames \cup Range(table)
             /\ memory' = CopyPages(table)
             /\ at' = [at EXCEPT ![p] = "user"]
             /\ UNCHANGED machine
  /\ UNCHANGED coffVars

\* The process exits.  Its Thread is deleted and its AddrSpace is not: the
\* frames stay marked.
Exit(p) ==
  /\ machine = "running" /\ at[p] = "user"
  /\ at' = [at EXCEPT ![p] = "exited"]
  /\ UNCHANGED << coffVars, frames, memory, addrLock, pageTable, machine >>

Next ==
  \/ ReadHeaders \/ SkipSection \/ CopySection \/ BssSection \/ UnknownSection \/ WriteHeader
  \/ \E p \in Process : LoadOpen(p) \/ LoadLock(p) \/ LoadWork(p) \/ Exit(p)

\* coff2noff runs to its end and threads that can run get the processor.
Fairness ==
  /\ WF_vars(ReadHeaders \/ SkipSection \/ CopySection \/ BssSection \/ UnknownSection \/ WriteHeader)
  /\ \A p \in Process : WF_vars(LoadOpen(p)) /\ WF_vars(LoadLock(p)) /\ WF_vars(LoadWork(p))
Spec == Init /\ [][Next]_vars /\ Fairness

-----------------------------------------------------------------------------
\* What the COFF file says is at virtual address v.
Wanted(v) ==
  LET in == {i \in DOMAIN coff.sections : coff.sections[i].s_name # ".bss"
               /\ v \in coff.sections[i].s_paddr
                        .. coff.sections[i].s_paddr + coff.sections[i].s_size - 1}
  IN IF in = {} THEN 0
     ELSE LET s == coff.sections[CHOOSE i \in in : TRUE] IN s.data[v - s.s_paddr + 1]

\* A process that runs sees the program the linker made: every byte of text
\* and data where it was linked, through the page table, and zeros in the
\* uninitialized data and the stack (coff2noff.c and AddrSpace::Load together,
\* whatever other processes load and exit meanwhile).
ImageLoaded ==
  \A p \in Process : at[p] = "user" =>
    \A v \in 0 .. Len(pageTable[p]) * PageSize - 1 :
      memory[pageTable[p][(v \div PageSize) + 1]][v % PageSize] = Wanted(v)

\* The address space holds everything the program uses: its sections and a
\* stack of UserStackSize bytes behind them (AddrSpace::Load).
RoomForAll ==
  \A p \in Process : at[p] = "user" =>
    \A i \in DOMAIN coff.sections :
      coff.sections[i].s_paddr + coff.sections[i].s_size + UserStackSize
        <= Len(pageTable[p]) * PageSize

\* No frame belongs to two processes, and the bitmap knows every frame that
\* is in a page table (AddrSpace::Load).
FramesApart ==
  \A p \in Process : /\ Range(pageTable[p]) \subseteq frames
                     /\ IsInjective(pageTable[p])
                     /\ \A q \in Process \ {p} : Range(pageTable[p]) \cap Range(pageTable[q]) = {}

\* A Load that finds its file fails, and with it the machine, exactly when the
\* programs loaded so far, those that have exited included, and one more do not
\* fit in memory (AddrSpace::Load and StartProcess; exited processes keep
\* their frames).
FailsOnlyWhenFull ==
  machine = "aborted" /\ status = "done" =>
    (Cardinality({p \in Process : pageTable[p] # << >>}) + 1) * NumPages > NumPhysPages

\* Every process that starts gets its program, or the machine stops because
\* there is no file or no memory; none waits forever for addrLock.
LoadsEnd == <>[](machine = "aborted" \/ \A p \in Process : at[p] \in {"user", "exited"})

\* coff2noff.c on two .bss sections: "make sure they are contiguous".
BssContiguous ==
  status = "done" =>
    \A i, j \in DOMAIN coff.sections :
      LET a == coff.sections[i]  b == coff.sections[j]
      IN i < j /\ a.s_name = ".bss" /\ b.s_name = ".bss" /\ a.s_size > 0 /\ b.s_size > 0
         => b.s_paddr = a.s_paddr + a.s_size

\* coff2noff.c: a file with the magic numbers, whole, and with only the
\* segments its header comment lists, ".bss/.sbss" among them, is converted.
ListedConverts ==
  status = "failed" =>
    ~ /\ coff.magic
      /\ \A i \in DOMAIN coff.sections :
           LET s == coff.sections[i]
           IN Len(s.data) = s.s_size /\ s.s_name \in DOMAIN SegmentOf \cup {".sbss"}

=============================================================================
