------------------------------- MODULE Memory -------------------------------
(***************************************************************************)
(* Virtual memory of the simulated machine, machine/translate.cc: reads    *)
(* and writes of 1, 2 or 4 bytes through the page table, as operators on   *)
(* the main memory mem, a function from physical addresses to bytes, and   *)
(* on the page table pt, a sequence of TranslationEntry records.           *)
(*                                                                         *)
(* A byte has ByteBits bits (8 in the code), so that a word, four bytes,   *)
(* is small enough to enumerate; words and halves are little-endian, as    *)
(* on the host, where WordToHost and ShortToHost return their argument.    *)
(* The build has no TLB (USE_TLB is not defined): tlb is NULL.             *)
(***************************************************************************)
EXTENDS Integers, Sequences

CONSTANTS ByteBits,      \* bits of a byte
          PageSize,      \* bytes of a page, a multiple of 4
          NumPhysPages   \* frames of main memory

ASSUME MemoryAssumption ==
  /\ ByteBits \in Nat \ {0} /\ NumPhysPages \in Nat \ {0}
  /\ PageSize \in Nat \ {0} /\ PageSize % 4 = 0

Byte == 2 ^ ByteBits
Half == Byte ^ 2
Word == Byte ^ 4
SignBit == Word \div 2
MemorySize == NumPhysPages * PageSize

ToWord(x) == x % Word
ToInt(w) == IF w >= SignBit THEN w - Word ELSE w

\* class TranslationEntry; virtualPage is only looked at in a TLB.
TranslationEntry ==
  [physicalPage : Int, valid : BOOLEAN, readOnly : BOOLEAN, use : BOOLEAN, dirty : BOOLEAN]

\* A byte of main memory as a char, which is signed.
SignedChar(b) == ToWord(IF 2 * b >= Byte THEN b - Byte ELSE b)

\* Mutant: the write leaves the entry clean.
TranslateClean(pt, virtAddr, size, writing) ==
  LET vpn == virtAddr \div PageSize IN
  IF virtAddr % size # 0 \/ vpn >= Len(pt)
    THEN [exc |-> "AddressError", phys |-> 0, pt |-> pt]
    ELSE [exc |-> "None", phys |-> pt[vpn + 1].physicalPage * PageSize + (virtAddr % PageSize),
          pt |-> [pt EXCEPT ![vpn + 1].use = TRUE]]

\* Machine::Translate: the exception or the physical address, and the page
\* table with its use and dirty bits set.
Translate(pt, virtAddr, size, writing) ==
  LET vpn == virtAddr \div PageSize
      fault(which) == [exc |-> which, phys |-> 0, pt |-> pt]
      entry == pt[vpn + 1]
  IN CASE virtAddr % size # 0 -> fault("AddressError")
       [] virtAddr % size = 0 /\ vpn >= Len(pt) -> fault("AddressError")
       [] OTHER ->
            IF ~entry.valid THEN fault("PageFault")
            ELSE IF entry.readOnly /\ writing THEN fault("ReadOnly")
            ELSE IF entry.physicalPage \notin 0 .. NumPhysPages - 1 THEN fault("BusError")
            ELSE [exc |-> "None",
                  phys |-> entry.physicalPage * PageSize + (virtAddr % PageSize),
                  pt |-> [pt EXCEPT ![vpn + 1].use = TRUE,
                                    ![vpn + 1].dirty = @ \/ writing]]

\* The loads of ReadMem and the stores of WriteMem, after the translation t:
\* a byte is read sign-extended, a half zero-extended.
ReadAt(mem, t, size) ==
  LET b(k) == mem[t.phys + k]
  IN [exc |-> t.exc, pt |-> t.pt,
      value |-> CASE t.exc # "None" -> 0
                  [] t.exc = "None" /\ size = 1 -> SignedChar(b(0))
                  [] t.exc = "None" /\ size = 2 -> b(0) + Byte * b(1)
                  [] t.exc = "None" /\ size = 4 ->
                       b(0) + Byte * b(1) + Half * b(2) + Half * Byte * b(3)]

WriteAt(mem, t, size, value) ==
  [exc |-> t.exc, pt |-> t.pt,
   mem |-> IF t.exc # "None" THEN mem
           ELSE [p \in DOMAIN mem |->
                   IF p \in t.phys .. t.phys + size - 1
                     THEN (value \div Byte ^ (p - t.phys)) % Byte ELSE mem[p]]]

\* Machine::ReadMem, Machine::WriteMem
ReadMem(mem, pt, addr, size) == ReadAt(mem, Translate(pt, addr, size, FALSE), size)
WriteMem(mem, pt, addr, size, value) == WriteAt(mem, Translate(pt, addr, size, TRUE), size, value)
=============================================================================
