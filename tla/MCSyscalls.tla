----------------------------- MODULE MCSyscalls -----------------------------
(***************************************************************************)
(* What system calls on files and semaphores rest on, for TLC: FileSystem, *)
(* FileTable and UserSemaphores.  In a behaviour one of them works,        *)
(* `part`, and the others stay as they start.                              *)
(***************************************************************************)
EXTENDS UserSemaphores

CONSTANTS a, b, c, p1, p2, p3

VARIABLES part,
          disk, plan, busy, phase, file, files, ops, crashed,
          fileTable, host, dir, data, umem, held, ret, machine

-----------------------------------------------------------------------------
(* FileSystem: the directory and the disk fill up, with no data written;   *)
(* the machine crashes before any sector; or there are fewer files, which  *)
(* are written at all alignments.                                          *)

Filled ==
  INSTANCE FileSystem
    WITH SectorSize <- 5, BitsInByte <- 2, NumDirEntries <- 3, Name <- 1 .. 4, Size <- {3, 7},
         Value <- {}, MaxWrite <- 0, MaxOps <- 5, MayCrash <- FALSE
Crashing ==
  INSTANCE FileSystem
    WITH SectorSize <- 5, BitsInByte <- 2, NumDirEntries <- 3, Name <- 1 .. 4, Size <- {0, 7},
         Value <- {}, MaxWrite <- 0, MaxOps <- 5, MayCrash <- TRUE
Written ==
  INSTANCE FileSystem
    WITH SectorSize <- 5, BitsInByte <- 2, NumDirEntries <- 3, Name <- {1, 2}, Size <- {7},
         Value <- {1, 2}, MaxWrite <- 6, MaxOps <- 3, MayCrash <- TRUE

ASSUME Disks == Filled!FileSystemConstants /\ Crashing!FileSystemConstants
                /\ Written!FileSystemConstants

-----------------------------------------------------------------------------
(* FileTable, on a host with ten descriptors in use when programs start:   *)
(* every call, with a table of four entries and few more descriptors, so   *)
(* that both run out; a table of seven, so that the host can have free a   *)
(* descriptor whose number is that of an entry in use (6, once Close(0)    *)
(* was called), which Create then closes; and one file of up to two bytes. *)

Descriptors ==
  INSTANCE FileTable
    WITH MAX_FILE <- 4, Name <- {a, b}, Existing <- {}, OpenType <- {0, 1}, Program <- {p1},
         HostFd <- 0 .. 11, HostBase <- 4, Data <- {0}, UserSize <- 0, MaxLen <- 0,
         Calls <- {"Create", "Remove", "Open", "Close", "Socket", "Send", "Receive", "Connect",
                   "Exec", "Halt"},
         Garbling <- TRUE, table <- fileTable
Collisions ==
  INSTANCE FileTable
    WITH MAX_FILE <- 7, Name <- {a}, Existing <- {a}, OpenType <- {0}, Program <- {p1},
         HostFd <- 0 .. 12, HostBase <- 4, Data <- {0}, UserSize <- 0, MaxLen <- 0,
         Calls <- {"Create", "Open", "Close"},
         Garbling <- TRUE, table <- fileTable
Contents ==
  INSTANCE FileTable
    WITH MAX_FILE <- 4, Name <- {a}, Existing <- {}, OpenType <- 0 .. 2, Program <- {p1},
         HostFd <- 0 .. 10, HostBase <- 4, Data <- {0, 1}, UserSize <- 2, MaxLen <- 2,
         Calls <- {"Create", "Open", "Close", "Read", "Write", "Seek"},
         Garbling <- FALSE, table <- fileTable

-----------------------------------------------------------------------------
(* UserSemaphores as the configuration has it is a table of one entry,     *)
(* which programs share and overtake each other at; here the table is      *)
(* larger, and still has fewer entries than there are names.               *)

Several == INSTANCE UserSemaphores
             WITH MAX_SEMAPHORE <- 2, Program <- {p1, p2}, Name <- {a, b, c}, Value <- {0},
                  MaxSignals <- 1

-----------------------------------------------------------------------------
diskVars == << disk, plan, busy, phase, file, files, ops, crashed >>
fileVars == << fileTable, host, dir, data, umem, held, ret, machine >>
mcVars == << part, diskVars, fileVars, vars >>

MCInit ==
  /\ part \in {"disk", "crashing", "written", "descriptors", "collisions", "contents",
               "shared", "several"}
  /\ Filled!Init
  /\ CASE part = "contents" -> Contents!Init
       [] part = "collisions" -> Collisions!Init
       [] OTHER -> Descriptors!Init
  /\ IF part = "several" THEN Several!Init ELSE Init

MCNext ==
  /\ UNCHANGED part
  /\ \/ part = "disk" /\ Filled!Next /\ UNCHANGED << fileVars, vars >>
     \/ part = "crashing" /\ Crashing!Next /\ UNCHANGED << fileVars, vars >>
     \/ part = "written" /\ Written!Next /\ UNCHANGED << fileVars, vars >>
     \/ part = "descriptors" /\ Descriptors!Next /\ UNCHANGED << diskVars, vars >>
     \/ part = "collisions" /\ Collisions!Next /\ UNCHANGED << diskVars, vars >>
     \/ part = "contents" /\ Contents!Next /\ UNCHANGED << diskVars, vars >>
     \/ part = "shared" /\ Next /\ UNCHANGED << diskVars, fileVars >>
     \/ part = "several" /\ Several!Next /\ UNCHANGED << diskVars, fileVars >>

MCSpec == MCInit /\ [][MCNext]_mcVars

-----------------------------------------------------------------------------
\* The properties of FileSystem and FileTable, those that belong together as
\* one; UserSemaphores' own is UserSemaphoresSound, which names no constant.

\* Between operations the map and the directory are right, no sector belongs
\* to two files, and each file holds what was written to it (FileSystem,
\* OpenFile).
DiskKeepsFiles == Filled!DiskIsSound /\ Filled!FilesKeepData

\* A crash in the middle of an operation harms no file but the one it is about,
\* and the disk can be mounted again (the order of writes in Create, Remove and
\* WriteAt).
CrashIsContained == Crashing!CrashHitsOneFile /\ Crashing!MountsAfterCrash

\* Entries of the table and descriptors of the host stay in step, a file that
\* is open under its name is not removed, and no host call whose failure is an
\* ASSERT fails on behalf of a program while the host has descriptors
\* (filesys.h, openfile.h, ksyscall.h, sysdep.cc).
FileTableSound ==
  /\ part = "contents" => /\ Contents!TypeOK /\ Contents!DescriptorsSound
                          /\ Contents!OpenFilesExist /\ Contents!HostCallsSucceed
  /\ part = "collisions" => /\ Collisions!TypeOK /\ Collisions!DescriptorsSound
                            /\ Collisions!OpenFilesExist /\ Collisions!HostCallsSucceed
  /\ part \notin {"contents", "collisions"} =>
       /\ Descriptors!TypeOK /\ Descriptors!DescriptorsSound
       /\ Descriptors!OpenFilesExist /\ Descriptors!HostCallsSucceed

=============================================================================
