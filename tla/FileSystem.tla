----------------------------- MODULE FileSystem -----------------------------
(***************************************************************************)
(* The Nachos file system on the disk (filesys/: filesys.cc, directory.cc, *)
(* filehdr.cc, pbitmap.cc, openfile.cc), built without FILESYS_STUB.       *)
(*                                                                         *)
(* A sector is SectorSize cells.  A cell is an integer: a file header is   *)
(* numBytes, numSectors and NumDirect sector numbers; the free map has     *)
(* BitsInByte bits in a cell; a directory entry is two cells, the sector   *)
(* (0: not inUse) and the name, so that an entry may lie in two sectors as *)
(* entry 6 does in the code.  An operation computes in memory and then     *)
(* writes sectors one by one; the machine may crash between two of them.   *)
(* The code "assumes there is no concurrent access to the file system".    *)
(***************************************************************************)
EXTENDS Integers, Sequences, FiniteSets, FiniteSetsExt, SequencesExt

CONSTANTS Name,                 \* file names, positive integers
          SectorSize, BitsInByte, NumDirEntries,
          Size,                 \* sizes given to Create
          Value, MaxWrite,      \* cells that are written, and how many at once
          MaxOps, MayCrash      \* operations, and whether the machine may crash

NumSectors == SectorSize * BitsInByte
NumDirect == SectorSize - 2
FreeMapSector == 0
DirectorySector == 1
DirectoryFileSize == 2 * NumDirEntries

FileSystemConstants ==
  /\ Name \subseteq Nat \ {0} /\ Size \subseteq Nat
  /\ SectorSize \in Nat /\ SectorSize > 2 /\ BitsInByte \in Nat \ {0} /\ NumDirEntries \in Nat

VARIABLES
  disk,    \* sector -> cells
  plan,    \* sectors the operation under way has still to write: << sector, cells >>
  busy,    \* the name it is about, 0 for none
  phase,   \* "blank", "up", "down", or "aborted" by an assertion
  file,    \* the open file: name, header in memory and seekPosition, or << >>
  files,   \* what each file ought to contain
  ops,     \* operations begun
  crashed

vars == << disk, plan, busy, phase, file, files, ops, crashed >>

Cells == 0 .. SectorSize - 1
Zeros == [c \in Cells |-> 0]
divRoundUp(n, s) == (n \div s) + (IF n % s > 0 THEN 1 ELSE 0)

Init ==
  /\ disk = [s \in 0 .. NumSectors - 1 |-> Zeros] /\ plan = << >> /\ busy = 0 /\ phase = "blank"
  /\ file = << >> /\ files = << >> /\ ops = 0 /\ crashed = FALSE

-----------------------------------------------------------------------------
(* File headers and open files.                                            *)

\* FileHeader::FetchFrom and WriteBack
FetchHeader(s) == [numBytes |-> disk[s][0], numSectors |-> disk[s][1],
                   dataSectors |-> [i \in 1 .. NumDirect |-> disk[s][i + 1]]]
HeaderCells(hdr) ==
  [c \in Cells |-> CASE c = 0 -> hdr.numBytes [] c = 1 -> hdr.numSectors
                     [] OTHER -> IF c - 1 \in DOMAIN hdr.dataSectors THEN hdr.dataSectors[c - 1] ELSE 0]

\* FileHeader::ByteToSector
ByteToSector(hdr, offset) == hdr.dataSectors[(offset \div SectorSize) + 1]

\* OpenFile::ReadAt
ReadAt(hdr, numBytes, position) ==
  LET n == IF numBytes <= 0 \/ position >= hdr.numBytes THEN 0
           ELSE Min({numBytes, hdr.numBytes - position})
  IN [i \in 1 .. n |-> disk[ByteToSector(hdr, position + i - 1)][(position + i - 1) % SectorSize]]

\* Mutant: a sector that is written in its middle only is not read.
MustReadEnds(i, first, last, firstAligned, lastAligned) ==
  (i = first /\ ~firstAligned /\ lastAligned) \/ (i = last /\ ~lastAligned /\ first # last)

\* OpenFile::WriteAt: which sectors are read in first.
MustRead(i, first, last, firstAligned, lastAligned) ==
  (i = first /\ ~firstAligned) \/ (i = last /\ ~lastAligned /\ (first # last \/ firstAligned))

\* OpenFile::WriteAt: the sectors it writes.
WriteAt(hdr, from, position) ==
  LET n == IF position >= hdr.numBytes THEN 0 ELSE Min({Len(from), hdr.numBytes - position})
      first == position \div SectorSize
      last == (position + n - 1) \div SectorSize
      lastAligned == position + n = (last + 1) * SectorSize
      Cell(i, p) ==
        IF p \in position .. position + n - 1 THEN from[p - position + 1]
        ELSE IF MustRead(i, first, last, position = first * SectorSize, lastAligned)
                /\ p < hdr.numBytes
        THEN disk[ByteToSector(hdr, p)][p % SectorSize] ELSE 0
  IN IF n = 0 THEN << >>
     ELSE [k \in 1 .. last - first + 1 |->
             LET i == first + k - 1
             IN << ByteToSector(hdr, i * SectorSize), [c \in Cells |-> Cell(i, i * SectorSize + c)] >>]

-----------------------------------------------------------------------------
(* The free map and the directory.                                         *)

Bit(s) == s % BitsInByte
FetchMap ==
  LET cells == ReadAt(FetchHeader(FreeMapSector), SectorSize, 0)
  IN {s \in 0 .. NumSectors - 1 : (cells[(s \div BitsInByte) + 1] \div (2 ^ Bit(s))) % 2 = 1}
MapCells(map) ==
  [i \in 1 .. SectorSize |->
     FoldSet(LAMBDA s, sum : sum + 2 ^ Bit(s), 0, {s \in map : s \div BitsInByte = i - 1})]
WriteMap(hdr, map) == WriteAt(hdr, MapCells(map), 0)

\* Bitmap::FindAndSet n times.
Free(map) == (0 .. NumSectors - 1) \ map
FindAndSet(map, n) ==
  [k \in 1 .. n |-> CHOOSE s \in Free(map) : Cardinality({r \in Free(map) : r < s}) = k - 1]

\* FileHeader::Allocate; << >> if there is no room.
Allocate(map, fileSize) ==
  LET n == divRoundUp(fileSize, SectorSize)
  IN IF Cardinality(Free(map)) < n THEN << >>
     ELSE << [numBytes |-> fileSize, numSectors |-> n, dataSectors |-> FindAndSet(map, n)] >>

FetchDirectory ==
  LET cells == ReadAt(FetchHeader(DirectorySector), DirectoryFileSize, 0)
  IN [i \in 1 .. NumDirEntries |-> [sector |-> cells[2 * i - 1], name |-> cells[2 * i]]]
WriteDirectory(hdr, table) ==
  WriteAt(hdr, [k \in 1 .. DirectoryFileSize |->
                  LET e == table[(k + 1) \div 2] IN IF k % 2 = 1 THEN e.sector ELSE e.name], 0)

\* Directory::FindIndex, 0 for -1, and Directory::Find, 0 for -1 (a file's
\* header is never in sector 0).
FindIndex(table, name) ==
  LET found == {i \in DOMAIN table : table[i].sector # 0 /\ table[i].name = name}
  IN IF found = {} THEN 0 ELSE Min(found)
Find(table, name) == LET i == FindIndex(table, name) IN IF i = 0 THEN 0 ELSE table[i].sector

\* Directory::Add and Remove; Add needs a free entry.
FreeEntries(table) == {i \in DOMAIN table : table[i].sector = 0}
Add(table, name, newSector) ==
  [table EXCEPT ![Min(FreeEntries(table))] = [sector |-> newSector, name |-> name]]
RemoveEntry(table, name) == [table EXCEPT ![FindIndex(table, name)].sector = 0]

-----------------------------------------------------------------------------
(* Operations.                                                             *)

\* The code promises nothing about operations on a disk that a crash may have
\* corrupted; the model stops at the first mount after one.
Idle == phase = "up" /\ plan = << >> /\ ops < MaxOps /\ ~crashed
Begin(name) == busy' = name /\ ops' = ops + 1

\* FileSystem::FileSystem(TRUE)
Format ==
  /\ phase = "blank" /\ plan = << >> /\ busy = 0
  /\ LET map == {FreeMapSector, DirectorySector}
         mapHdr == Allocate(map, SectorSize)[1]
         map1 == map \cup Range(mapHdr.dataSectors)
         dirHdr == Allocate(map1, DirectoryFileSize)[1]
         table == [i \in 1 .. NumDirEntries |-> [sector |-> 0, name |-> 0]]
     IN plan' = << << FreeMapSector, HeaderCells(mapHdr) >>, << DirectorySector, HeaderCells(dirHdr) >> >>
                \o WriteMap(mapHdr, map1 \cup Range(dirHdr.dataSectors)) \o WriteDirectory(dirHdr, table)
  /\ busy' = -1
  /\ UNCHANGED << disk, phase, file, files, ops, crashed >>

\* FileSystem::Create when everything worked: the sectors to write.
Created(name, size, sector, hdr) ==
  << << sector, HeaderCells(hdr) >> >>
  \o WriteDirectory(FetchHeader(DirectorySector), Add(FetchDirectory, name, sector))
  \o WriteMap(FetchHeader(FreeMapSector), FetchMap \cup {sector} \cup Range(hdr.dataSectors))

\* FileSystem::Create; the early returns write nothing.
Create(name, size) ==
  /\ Idle
  /\ LET sector == FindAndSet(FetchMap, 1)[1]
         hdr == Allocate(FetchMap \cup {sector}, size)
     IN IF Find(FetchDirectory, name) # 0 \/ Free(FetchMap) = {}
           \/ FreeEntries(FetchDirectory) = {} \/ hdr = << >>
        THEN UNCHANGED << plan, busy, files, ops >>
        ELSE /\ plan' = Created(name, size, sector, hdr[1]) /\ Begin(name)
             /\ files' = [n \in DOMAIN files \cup {name} |->
                            IF n # name THEN files[n] ELSE ReadAt(hdr[1], size, 0)]
  /\ UNCHANGED << disk, phase, file, crashed >>

\* FileSystem::Open
Open(name) ==
  /\ Idle /\ file = << >> /\ Find(FetchDirectory, name) # 0
  /\ file' = << [name |-> name, hdr |-> FetchHeader(Find(FetchDirectory, name)), seekPosition |-> 0] >>
  /\ UNCHANGED << disk, plan, busy, phase, files, ops, crashed >>

Close ==
  /\ Idle /\ file # << >> /\ file' = << >>
  /\ UNCHANGED << disk, plan, busy, phase, files, ops, crashed >>

Seek(position) ==
  /\ Idle /\ file # << >> /\ file[1].seekPosition # position
  /\ file' = [file EXCEPT ![1].seekPosition = position]
  /\ UNCHANGED << disk, plan, busy, phase, files, ops, crashed >>

\* OpenFile::Read
Read(n) ==
  /\ Idle /\ file # << >> /\ ReadAt(file[1].hdr, n, file[1].seekPosition) # << >>
  /\ file' = [file EXCEPT ![1].seekPosition = @ + Len(ReadAt(file[1].hdr, n, @))]
  /\ UNCHANGED << disk, plan, busy, phase, files, ops, crashed >>

\* OpenFile::Write; the result is the number of cells that fit in the file.
Write(from) ==
  LET position == file[1].seekPosition
      n == Max({0, Min({Len(from), file[1].hdr.numBytes - position})})
  IN /\ Idle /\ file # << >>
     /\ plan' = WriteAt(file[1].hdr, from, position)
     /\ file' = [file EXCEPT ![1].seekPosition = @ + n]
     /\ Begin(file[1].name)
     /\ files' = [files EXCEPT ![file[1].name] =
                    [i \in DOMAIN @ |-> IF i \in position + 1 .. position + n THEN from[i - position] ELSE @[i]]]
     /\ UNCHANGED << disk, phase, crashed >>

\* Mutant: every sector up to the header's is freed.
RemovedTooMuch(name, sector, hdr) ==
  WriteMap(FetchHeader(FreeMapSector), FetchMap \ (0 .. sector))
  \o WriteDirectory(FetchHeader(DirectorySector), RemoveEntry(FetchDirectory, name))

\* FileHeader::Deallocate and FileSystem::Remove: the sectors to write.
Removed(name, sector, hdr) ==
  WriteMap(FetchHeader(FreeMapSector),
           FetchMap \ ({hdr.dataSectors[i] : i \in 1 .. hdr.numSectors} \cup {sector}))
  \o WriteDirectory(FetchHeader(DirectorySector), RemoveEntry(FetchDirectory, name))

\* FileSystem::Remove of a file that is not open; Deallocate asserts that its
\* sectors are marked.
RemoveFile(name) ==
  /\ Idle /\ Find(FetchDirectory, name) # 0
  /\ \A k \in DOMAIN file : file[k].name # name
  /\ LET sector == Find(FetchDirectory, name)
         hdr == FetchHeader(sector)
     IN IF {hdr.dataSectors[i] : i \in 1 .. hdr.numSectors} \subseteq FetchMap
        THEN /\ plan' = Removed(name, sector, hdr) /\ Begin(name)
             /\ files' = [n \in DOMAIN files \ {name} |-> files[n]] /\ UNCHANGED phase
        ELSE phase' = "aborted" /\ UNCHANGED << plan, busy, files, ops >>
  /\ UNCHANGED << disk, file, crashed >>

\* SynchDisk::WriteSector of the next sector.
WriteSector ==
  /\ plan # << >> /\ phase \in {"blank", "up"}
  /\ disk' = [disk EXCEPT ![Head(plan)[1]] = Head(plan)[2]]
  /\ plan' = Tail(plan)
  /\ busy' = IF Len(plan) = 1 THEN 0 ELSE busy
  /\ phase' = IF Len(plan) = 1 THEN "up" ELSE phase
  /\ UNCHANGED << file, files, ops, crashed >>

\* The machine stops; what is in memory is gone.
Crash ==
  /\ phase = "up" /\ plan # << >> /\ MayCrash
  /\ phase' = "down" /\ plan' = << >> /\ file' = << >> /\ crashed' = TRUE
  /\ UNCHANGED << disk, busy, files, ops >>

\* FileSystem::FileSystem(FALSE)
Mount ==
  /\ phase = "down" /\ phase' = "up" /\ busy' = 0
  /\ UNCHANGED << disk, plan, file, files, ops, crashed >>

Next ==
  \/ Format \/ WriteSector \/ Crash \/ Mount \/ Close
  \/ \E name \in Name : Open(name) \/ RemoveFile(name) \/ \E size \in Size : Create(name, size)
  \/ \E n \in 1 .. MaxWrite : \/ Seek(n) \/ Read(n)
                              \/ \E v \in Value : Write([i \in 1 .. n |-> v])
Spec == Init /\ [][Next]_vars

-----------------------------------------------------------------------------
Entries == {i \in 1 .. NumDirEntries : FetchDirectory[i].sector # 0}
SectorsOf(s) == {FetchHeader(s).dataSectors[i] : i \in 1 .. FetchHeader(s).numSectors} \cup {s}
SystemSectors == SectorsOf(FreeMapSector) \cup SectorsOf(DirectorySector)
Content(name) ==
  LET hdr == FetchHeader(Find(FetchDirectory, name)) IN ReadAt(hdr, hdr.numBytes, 0)
Between == phase = "up" /\ plan = << >>

\* Between operations, as long as the machine has not crashed, the disk passes
\* a check: no two entries have one name, no two files (nor the map and the
\* directory) share a sector, the map marks exactly what is in use, and
\* Deallocate's assertion has not failed (Create and Remove with all their
\* failures and reuse of freed sectors).
DiskIsSound ==
  /\ phase # "aborted"
  /\ Between /\ ~crashed =>
       /\ \A i, j \in Entries : i # j =>
            /\ FetchDirectory[i].name # FetchDirectory[j].name
            /\ SectorsOf(FetchDirectory[i].sector) \cap SectorsOf(FetchDirectory[j].sector) = {}
       /\ \A i \in Entries : SectorsOf(FetchDirectory[i].sector) \cap SystemSectors = {}
       /\ FetchMap = SystemSectors \cup UNION {SectorsOf(FetchDirectory[i].sector) : i \in Entries}

\* What is in a file is what was written to it and not overwritten, at any
\* alignment with the sectors and in spite of other files that come and go
\* (OpenFile::WriteAt and ReadAt, Create and Remove).
FilesKeepData ==
  Between /\ ~crashed =>
    /\ {FetchDirectory[i].name : i \in Entries} = DOMAIN files
    /\ \A name \in DOMAIN files : Content(name) = files[name]

\* A crash in the middle of an operation harms no file but the one the
\* operation is about: each other file is found under its name, with its data,
\* on sectors that are marked and that are not the interrupted file's (the
\* order of writes in Create, Remove and WriteAt, and an entry half written).
CrashHitsOneFile ==
  phase = "down" =>
    \A name \in DOMAIN files \ {busy} :
      LET sector == Find(FetchDirectory, name)
      IN /\ sector # 0 /\ Content(name) = files[name]
         /\ SectorsOf(sector) \subseteq FetchMap \ SystemSectors
         /\ \A i \in Entries : FetchDirectory[i].sector # sector =>
              SectorsOf(FetchDirectory[i].sector) \cap SectorsOf(sector) = {}

\* After a crash the file system can be mounted: the headers of the map and of
\* the directory are what Format wrote, and all their sectors are marked, so
\* that no file will be given one (FileSystem, Create and Remove).
MountsAfterCrash ==
  phase = "down" =>
    LET map == {FreeMapSector, DirectorySector}
        mapHdr == Allocate(map, SectorSize)[1]
        dirHdr == Allocate(map \cup Range(mapHdr.dataSectors), DirectoryFileSize)[1]
    IN /\ disk[FreeMapSector] = HeaderCells(mapHdr) /\ disk[DirectorySector] = HeaderCells(dirHdr)
       /\ SystemSectors \subseteq FetchMap

\* filesys.cc: "files cannot be bigger than about 3KB in size", which is what
\* the NumDirect sectors of a header hold.
FilesFitTheirHeader ==
  Between => \A i \in Entries : FetchHeader(FetchDirectory[i].sector).numSectors <= NumDirect

=============================================================================
