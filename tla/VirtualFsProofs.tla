--------------------------- MODULE VirtualFsProofs ----------------------------
(***************************************************************************)
(* Proofs about VirtualFsUse, for every size of the region, of the chunks, *)
(* of the files, and every range of offsets and lengths.                   *)
(***************************************************************************)
EXTENDS VirtualFsUse, TLAPS

AnyByte == [gen : 0..2, at : 0..Capacity]

\* The load in progress: what is left is what is not copied yet, and what was
\* copied is in place under the new length. A load that is done without an error
\* has left the whole file.
Copied(n) == \A a \in 0..(n - 1) : sram[a] = Byte(load.gen, a)

LoadInv ==
    /\ load.pc \in {"length", "copy"} =>
          load.at + load.left = load.size /\ load.size <= Capacity /\ load.rc = 0
    /\ load.pc = "length" => load.at = 0
    /\ load.pc = "copy" => lengthWord = load.size /\ Copied(load.at)
    /\ load.pc = "done" /\ load.rc = 0 =>
          load.size <= Capacity /\ lengthWord = load.size /\ Copied(load.size)

\* The reader of a file that is loaded: the pointer is where the bytes read so
\* far end, and the end was reported only where it is reached.
UseInv ==
    /\ phase \in {"reset", "use"} =>
          /\ load.pc = "idle" /\ load.size <= Capacity
          /\ lengthWord = load.size /\ Copied(load.size)
    /\ phase = "use" =>
          /\ filesize = lengthWord
          /\ sramReadAddr = got.from + Len(got.bytes)
          /\ \A i \in 1..Len(got.bytes) :
                got.bytes[i] = Byte(load.gen, got.from + i - 1)
          /\ status = 1 => sramReadAddr + 1 >= load.size
    /\ got \in [from : Nat, bytes : Seq(AnyByte)]

\* The test for the end adds one to the pointer: that never wraps around.
PointerInv == sramReadAddr + 1 < Wrap

Inv == TypeOK /\ LoadInv /\ UseInv /\ PointerInv

-------------------------------------------------------------------------------

\* Before the first load nothing is claimed of the region.
LEMMA InitInv == Init => Inv
  <1> SUFFICES ASSUME Init PROVE Inv
    OBVIOUS
  <1> USE SizesAssumption, UseAssumption DEF Init
  <1>1. TypeOK
    BY DEF TypeOK, NoByte, Byte, NotLoading, Addr
  <1>2. LoadInv
    BY DEF LoadInv, NotLoading
  <1>3. UseInv
    BY DEF UseInv
  <1>4. PointerInv
    BY DEF PointerInv
  <1>5. QED
    BY <1>1, <1>2, <1>3, <1>4 DEF Inv

\* Below the end of the address space the sums are plain sums.
LEMMA PlusIsSum ==
    ASSUME NEW a \in Nat, NEW b \in Nat, a + b < Wrap PROVE Plus(a, b) = a + b
  BY DEF Plus

LEMMA EofIsPlain == Inv => (Eof <=> sramReadAddr + 1 >= filesize)
  BY PlusIsSum, SizesAssumption DEF Inv, TypeOK, PointerInv, Eof, Tell

\* What a read hands over lies inside the file when the reader is not at its end.
LEMMA ReadStaysInside ==
    ASSUME Inv, phase = "use", ~Eof, NEW len \in 0..MaxLen
    PROVE  /\ ReadLen(len) \in Nat
           /\ sramReadAddr + ReadLen(len) <= lengthWord
  <1>1. /\ sramReadAddr \in Nat /\ lengthWord \in Nat /\ len \in Nat
        /\ filesize = lengthWord
    BY SizesAssumption, UseAssumption DEF Inv, TypeOK, UseInv
  <1>2. sramReadAddr + 1 < filesize
    BY <1>1, EofIsPlain
  <1>3. QED
    BY <1>1, <1>2 DEF Tell, ReadLen, Minus

\* A load starts, leaving the region as it is.
LEMMA StartLoadInv == Inv /\ StartLoad => Inv'
  <1> SUFFICES ASSUME Inv, StartLoad PROVE Inv'
    OBVIOUS
  <1> USE SizesAssumption, UseAssumption
         DEF StartLoad, OpenInput, regionVars, readerVars
  <1>1. TypeOK'
    BY DEF Inv, TypeOK
  <1>2. LoadInv'
    BY DEF Inv, TypeOK, LoadInv, Copied
  <1>3. UseInv'
    BY DEF Inv, TypeOK, UseInv
  <1>4. PointerInv'
    BY DEF Inv, PointerInv
  <1>5. QED
    BY <1>1, <1>2, <1>3, <1>4 DEF Inv

\* A step of the loader keeps what was copied and adds to it.
LEMMA LoadStepInv == Inv /\ LoadStep => Inv'
  <1> SUFFICES ASSUME Inv, LoadStep PROVE Inv'
    OBVIOUS
  <1> USE SizesAssumption, UseAssumption
  <1>0. PointerInv'
    BY DEF LoadStep, readerVars, Inv, PointerInv
  <1>1. CASE StoreLength
    <2>1. /\ load.pc = "length" /\ load'.pc = "copy" /\ lengthWord' = load.size
          /\ load'.gen = load.gen /\ load'.size = load.size /\ load'.at = load.at
          /\ load'.left = load.left /\ load'.rc = load.rc
          /\ UNCHANGED <<sram, sramReadAddr, filesize, phase, status, got>>
          /\ phase = "load"
      BY <1>1 DEF StoreLength, LoadStep, readerVars, Inv, TypeOK
    <2>2. load.at = 0 /\ load.at + load.left = load.size /\ load.rc = 0
          /\ load.size <= Capacity
      BY <2>1 DEF Inv, LoadInv
    <2>3. TypeOK'
      BY <1>1, <2>1, <2>2 DEF StoreLength, Inv, TypeOK
    <2>4. LoadInv'
      BY <2>1, <2>2 DEF LoadInv, Copied
    <2>5. UseInv'
      BY <2>1 DEF Inv, UseInv
    <2>6. QED
      BY <1>0, <2>3, <2>4, <2>5 DEF Inv
  <1>2. ASSUME NEW readFails \in BOOLEAN, CopyChunk(readFails) PROVE Inv'
    <2> DEFINE n == IF load.left > ReadSize THEN ReadSize ELSE load.left
    <2>1. CASE load.left = 0 \/ readFails
      <3>1. /\ load.pc = "copy" /\ load'.pc = "done" /\ load'.rc \in {0, 1}
            /\ load'.gen = load.gen /\ load'.size = load.size
            /\ load'.at = load.at /\ load'.left = load.left
            /\ (load.left # 0 => load'.rc = 1)
            /\ UNCHANGED <<sram, lengthWord, sramReadAddr, filesize, phase,
                           status, got>>
            /\ phase = "load"
        BY <1>2, <2>1 DEF CopyChunk, LoadStep, readerVars, Inv, TypeOK
      <3>2. TypeOK'
        BY <1>2, <2>1, <3>1 DEF CopyChunk, Inv, TypeOK
      <3>3. LoadInv'
        <4> SUFFICES ASSUME load'.rc = 0
                     PROVE  /\ load'.size <= Capacity /\ lengthWord' = load'.size
                            /\ Copied(load.size)'
          BY <3>1 DEF LoadInv
        <4>1. load.at = load.size
          BY <3>1 DEF Inv, TypeOK, LoadInv
        <4>2. QED
          BY <3>1, <4>1 DEF Inv, LoadInv, Copied
      <3>4. UseInv'
        BY <3>1 DEF Inv, UseInv
      <3>5. QED
        BY <1>0, <3>2, <3>3, <3>4 DEF Inv
    <2>2. CASE load.left # 0 /\ ~readFails
      <3>1. /\ sram' = [a \in Addr |->
                          IF a \in load.at..(load.at + n - 1)
                          THEN Byte(load.gen, a) ELSE sram[a]]
            /\ load' = [load EXCEPT !.left = @ - n, !.at = @ + n]
            /\ lengthWord' = lengthWord /\ load.pc = "copy" /\ phase = "load"
        BY <1>2, <2>2 DEF CopyChunk, LoadStep
      <3>2. n \in Nat /\ n <= load.left /\ load.left \in Nat /\ load.at \in Nat
        BY <3>1 DEF Inv, TypeOK
      <3>3. load.at + load.left = load.size /\ load.size <= Capacity
        BY <3>1 DEF Inv, LoadInv
      <3> HIDE DEF n
      <3>4. TypeOK'
        <4>1. \A a \in Addr : Byte(load.gen, a) \in [gen : 0..2, at : 0..Capacity]
          BY DEF Byte, Addr, Inv, TypeOK
        <4>2. sram' \in [Addr -> [gen : 0..2, at : 0..Capacity]]
          BY <3>1, <4>1 DEF Inv, TypeOK
        <4>3. load' \in [pc : {"idle", "length", "copy", "done"}, gen : 0..2,
                         size : 0..(Capacity + 1), left : 0..(Capacity + 1),
                         at : 0..Capacity, rc : {0, 1}]
          <5>1. load.at + n \in 0..Capacity /\ load.left - n \in 0..(Capacity + 1)
            BY <3>2, <3>3 DEF Inv, TypeOK
          <5>2. QED
            BY <3>1, <5>1 DEF Inv, TypeOK
        <4>4. UNCHANGED <<sramReadAddr, filesize, phase, status>>
          BY DEF LoadStep, readerVars
        <4>5. QED
          BY <3>1, <4>2, <4>3, <4>4 DEF Inv, TypeOK
      <3>5. \A a \in 0..(load.at + n - 1) : sram'[a] = Byte(load.gen, a)
        <4> SUFFICES ASSUME NEW a \in 0..(load.at + n - 1)
                     PROVE  sram'[a] = Byte(load.gen, a)
          OBVIOUS
        <4>1. a \in Addr
          BY <3>2, <3>3 DEF Addr, Inv, TypeOK
        <4>2. CASE a \in load.at..(load.at + n - 1)
          BY <3>1, <4>1, <4>2
        <4>3. CASE a \in 0..(load.at - 1)
          BY <3>1, <3>2, <4>1, <4>3 DEF Inv, LoadInv, Copied
        <4>4. QED
          BY <3>2, <4>2, <4>3
      <3>6. /\ load'.pc = "copy" /\ load'.at = load.at + n /\ load'.gen = load.gen
            /\ load'.left = load.left - n /\ load'.size = load.size
            /\ load'.rc = load.rc
        BY <3>1 DEF Inv, TypeOK
      <3>7. LoadInv'
        BY <3>1, <3>2, <3>3, <3>5, <3>6 DEF Inv, LoadInv, Copied
      <3>8. UseInv'
        BY <3>1 DEF LoadStep, readerVars, Inv, UseInv
      <3>9. QED
        BY <1>0, <3>4, <3>7, <3>8 DEF Inv
    <2>3. QED
      BY <2>1, <2>2
  <1>3. QED
    BY <1>1, <1>2 DEF LoadStep

\* The end of a load: the region may be read only if it holds the file.
LEMMA LoadDoneInv == Inv /\ LoadDone => Inv'
  BY SizesAssumption, UseAssumption
     DEF LoadDone, LoadReturned, regionVars, readerVars, Inv, TypeOK, LoadInv,
         UseInv, PointerInv, Copied

\* A reset takes over the size of the file that is there.
LEMMA ResetInv == Inv /\ Reset => Inv'
  BY SizesAssumption, UseAssumption
     DEF Reset, ResetReadPr, regionVars, Inv, TypeOK, LoadInv, UseInv,
         PointerInv, Copied

\* A read appends the bytes at the pointer to those read before.
LEMMA ReadInv == \A len \in 0..MaxLen : Inv /\ DoRead(len) => Inv'
  <1> SUFFICES ASSUME NEW len \in 0..MaxLen, Inv, DoRead(len) PROVE Inv'
    OBVIOUS
  <1> USE SizesAssumption, UseAssumption
  <1>1. CASE Eof
    <2>1. got' = got
      <3>1. got.bytes \o <<>> = got.bytes
        BY DEF Inv, UseInv
      <3>2. QED
        BY <1>1, <3>1 DEF DoRead, ReadBytes, Inv, UseInv
    <2>2. QED
      <3>1. /\ UNCHANGED <<sram, lengthWord, load, sramReadAddr, filesize, phase>>
            /\ phase = "use" /\ status' = 1 /\ sramReadAddr + 1 >= filesize
        BY <1>1, EofIsPlain DEF DoRead, ReadBuf, regionVars, readerVars
      <3>2. TypeOK'
        BY <3>1 DEF Inv, TypeOK
      <3>3. LoadInv'
        BY <3>1 DEF Inv, LoadInv, Copied
      <3>4. UseInv'
        BY <3>1, <2>1 DEF Inv, UseInv, Copied
      <3>5. PointerInv'
        BY <3>1 DEF Inv, PointerInv
      <3>6. QED
        BY <3>2, <3>3, <3>4, <3>5 DEF Inv
  <1>2. CASE ~Eof
    <2> DEFINE n == ReadLen(len)
    <2>1. n \in Nat /\ sramReadAddr + n <= lengthWord
      BY <1>2, ReadStaysInside DEF DoRead
    <2>0. /\ \A k \in 0..n : Plus(sramReadAddr, k) = sramReadAddr + k
          /\ sramReadAddr + n + 1 < Wrap
      <3>1. /\ sramReadAddr \in Nat /\ lengthWord \in Nat
            /\ lengthWord <= Capacity
        BY DEF DoRead, Inv, TypeOK, UseInv
      <3>2. QED
        BY <2>1, <3>1 DEF Plus
    <2>2. /\ filesize' = lengthWord /\ sramReadAddr' = sramReadAddr + n
          /\ status' = 0 /\ phase = "use" /\ phase' = "use"
          /\ UNCHANGED <<sram, lengthWord, load>>
      BY <1>2, <2>0, <2>1 DEF DoRead, ReadBuf, Tell, regionVars
    <2>3. /\ load.size <= Capacity /\ lengthWord = load.size /\ Copied(load.size)
          /\ sramReadAddr = got.from + Len(got.bytes) /\ sramReadAddr \in Nat
          /\ got.from \in Nat /\ got.bytes \in Seq(AnyByte)
          /\ got \in [from : Nat, bytes : Seq(AnyByte)]
          /\ \A i \in 1..Len(got.bytes) :
                got.bytes[i] = Byte(load.gen, got.from + i - 1)
      BY <2>2 DEF Inv, TypeOK, UseInv
    <2> HIDE DEF n
    <2>4. \A i \in 1..n : ByteAt(sramReadAddr + i - 1)
                            = Byte(load.gen, sramReadAddr + i - 1)
      <3> SUFFICES ASSUME NEW i \in 1..n
                   PROVE  ByteAt(sramReadAddr + i - 1)
                            = Byte(load.gen, sramReadAddr + i - 1)
        OBVIOUS
      <3>1. sramReadAddr + i - 1 \in 0..(load.size - 1)
        <4>1. load.size \in Nat
          BY DEF Inv, TypeOK
        <4>2. QED
          BY <2>1, <2>3, <4>1
      <3>2. sramReadAddr + i - 1 \in Addr
        <4>1. load.size \in Nat
          BY DEF Inv, TypeOK
        <4>2. QED
          BY <2>3, <3>1, <4>1 DEF Addr
      <3>3. QED
        BY <2>3, <3>1, <3>2 DEF ByteAt, Copied
    <2> DEFINE more == [i \in 1..n |-> ByteAt(sramReadAddr + i - 1)]
    <2>5. ReadBytes(len) = more
      <3>1. \A i \in 1..n : Plus(sramReadAddr, i - 1) = sramReadAddr + i - 1
        BY <2>0, <2>1, <2>3
      <3>2. ReadBytes(len) = [i \in 1..n |-> ByteAt(Plus(sramReadAddr, i - 1))]
        BY <1>2 DEF ReadBytes, Tell, n
      <3>3. QED
        BY <3>1, <3>2
    <2>6. \A i \in 1..n : ByteAt(sramReadAddr + i - 1) \in AnyByte
      <3> SUFFICES ASSUME NEW a \in Int PROVE ByteAt(a) \in AnyByte
        BY <2>1, <2>3
      <3>1. NoByte \in AnyByte
        BY DEF NoByte, Byte, AnyByte
      <3>2. QED
        BY <3>1 DEF ByteAt, AnyByte, Inv, TypeOK
    <2>7. more \in Seq(AnyByte) /\ Len(more) = n
      BY <2>1, <2>6
    <2>8. \A i \in 1..n : more[i] = Byte(load.gen, sramReadAddr + i - 1)
      BY <2>4
    <2>9. /\ got' = [got EXCEPT !.bytes = @ \o more]
      BY <2>5 DEF DoRead
    <2> HIDE DEF more
    <2>10. got'.from = got.from /\ got'.bytes = got.bytes \o more
      BY <2>9 DEF Inv, UseInv
    <2>11. /\ got'.bytes \in Seq(AnyByte)
           /\ Len(got'.bytes) = Len(got.bytes) + n
           /\ \A i \in 1..Len(got'.bytes) :
                got'.bytes[i] = Byte(load.gen, got.from + i - 1)
      <3>1. /\ got'.bytes \in Seq(AnyByte)
            /\ Len(got'.bytes) = Len(got.bytes) + n
        <4>1. ASSUME NEW s \in Seq(AnyByte), NEW t \in Seq(AnyByte)
              PROVE  s \o t \in Seq(AnyByte) /\ Len(s \o t) = Len(s) + Len(t)
          OBVIOUS
        <4>2. QED
          BY <2>3, <2>7, <2>10, <4>1
      <3> SUFFICES ASSUME NEW i \in 1..(Len(got.bytes) + n)
                   PROVE  got'.bytes[i] = Byte(load.gen, got.from + i - 1)
        BY <3>1
      <3>2. CASE i <= Len(got.bytes)
        BY <2>1, <2>3, <2>7, <2>10, <3>2
      <3>3. CASE i > Len(got.bytes)
        <4> DEFINE j == i - Len(got.bytes)
        <4>1. j \in 1..n /\ got.from + i - 1 = sramReadAddr + j - 1
          BY <2>1, <2>3, <3>3
        <4>2. got'.bytes[i] = more[j]
          BY <2>1, <2>3, <2>7, <2>10, <3>3
        <4>3. QED
          BY <2>8, <4>1, <4>2
      <3>4. QED
        BY <2>1, <2>3, <3>2, <3>3
    <2>12. TypeOK'
      <3>1. sramReadAddr' \in 0..(Wrap - 1) /\ filesize' \in 0..(Wrap - 1)
        <4>1. lengthWord \in 0..(Wrap - 1)
          BY DEF Inv, TypeOK
        <4>2. QED
          BY <2>1, <2>2, <2>3, <4>1
      <3>2. UNCHANGED <<sram, lengthWord, load>> /\ phase' = "use" /\ status' = 0
        BY <2>2
      <3>3. QED
        BY <3>1, <3>2 DEF Inv, TypeOK
    <2>13. LoadInv'
      BY <2>2 DEF Inv, LoadInv, Copied
    <2>14. UseInv'
      <3>1. got' \in [from : Nat, bytes : Seq(AnyByte)]
        BY <2>3, <2>9, <2>10, <2>11
      <3>2. sramReadAddr' = got'.from + Len(got'.bytes)
        BY <2>1, <2>2, <2>3, <2>10, <2>11
      <3>3. load'.pc = "idle"
        BY <2>2 DEF Inv, UseInv
      <3>4. QED
        BY <2>2, <2>3, <2>10, <2>11, <3>1, <3>2, <3>3 DEF UseInv, Copied
    <2>15. PointerInv'
      BY <2>0, <2>2 DEF PointerInv
    <2>16. QED
      BY <2>12, <2>13, <2>14, <2>15 DEF Inv
  <1>3. QED
    BY <1>1, <1>2

\* A seek starts afresh; where it is refused the reader is past the file.
LEMMA SeekInv == \A offset \in 0..MaxOffset : Inv /\ DoSeek(offset) => Inv'
  <1> SUFFICES ASSUME NEW offset \in 0..MaxOffset, Inv, DoSeek(offset) PROVE Inv'
    OBVIOUS
  <1> USE SizesAssumption, UseAssumption
  <1>1. /\ UNCHANGED <<sram, lengthWord, load, filesize, phase>>
        /\ phase = "use" /\ sramReadAddr' = offset
        /\ got' = [from |-> offset, bytes |-> <<>>]
        /\ status' = IF offset > SeekEnd THEN 1 ELSE 0
    BY DEF DoSeek, Seek, SeekRefused, regionVars
  <1>2. TypeOK'
    BY <1>1 DEF Inv, TypeOK
  <1>3. LoadInv'
    BY <1>1 DEF Inv, LoadInv, Copied
  <1>4. UseInv'
    <2>1. /\ load.pc = "idle" /\ load.size <= Capacity /\ load.size \in Nat
          /\ lengthWord = load.size /\ Copied(load.size) /\ filesize = lengthWord
      BY <1>1 DEF Inv, TypeOK, UseInv
    <2>2. /\ got'.from = offset /\ got'.bytes = <<>> /\ Len(got'.bytes) = 0
          /\ got' \in [from : Nat, bytes : Seq(AnyByte)]
      BY <1>1
    <2>3. QED
      BY <1>1, <2>1, <2>2 DEF UseInv, Copied
  <1>5. PointerInv'
    BY <1>1 DEF PointerInv
  <1>6. QED
    BY <1>2, <1>3, <1>4, <1>5 DEF Inv

\* Every step keeps the invariant.
LEMMA NextInv == Inv /\ [Next]_vars => Inv'
  <1> SUFFICES ASSUME Inv, [Next]_vars PROVE Inv'
    OBVIOUS
  <1>1. CASE UNCHANGED vars
    BY <1>1 DEF vars, regionVars, readerVars, Inv, TypeOK, LoadInv, UseInv,
                PointerInv, Copied
  <1>2. CASE Next
    BY <1>2, StartLoadInv, LoadStepInv, LoadDoneInv, ResetInv, ReadInv, SeekInv
       DEF Next
  <1>3. QED
    BY <1>1, <1>2

LEMMA AlwaysInv == Spec => []Inv
  BY InitInv, NextInv, PTL DEF Spec

-------------------------------------------------------------------------------

\* The registers, counters and addresses keep their types; no pointer and no
\* size ever leaves 32 bits.
THEOREM TypeCorrect == Spec => []TypeOK
  <1>1. Inv => TypeOK
    BY DEF Inv
  <1>2. QED
    BY <1>1, AlwaysInv, PTL

\* The copy loop of virtual_fs_api_copyMusic2Sram never writes past the region,
\* whatever the sizes of files and chunks.
THEOREM CopiesStayInRegion == Spec => []CopyStaysInRegion
  <1>1. Inv => CopyStaysInRegion
    BY DEF Inv, LoadInv, CopyStaysInRegion
  <1>2. QED
    BY <1>1, AlwaysInv, PTL

\* A program that reads only after a load that succeeded reads a region that
\* holds the whole of the file loaded last.
THEOREM RegionAlwaysHoldsFile == Spec => []RegionHoldsFile
  <1>1. Inv => RegionHoldsFile
    BY DEF Inv, UseInv, RegionHoldsFile, Holds, Copied
  <1>2. QED
    BY <1>1, AlwaysInv, PTL

\* The reader delivers the file in order, without a gap, up to its last byte
\* but one at least.
THEOREM ReaderDeliversFile == Spec => []ReadsDeliverFile
  <1>1. Inv => ReadsDeliverFile
    BY SizesAssumption DEF Inv, TypeOK, UseInv, ReadsDeliverFile
  <1>2. QED
    BY <1>1, AlwaysInv, PTL

\* No read moves the pointer past the end of the file, wherever a seek put it.
THEOREM ReaderStaysInFile == Spec => ReadsStayInFile
  <1> DEFINE A == \A len \in 0..MaxLen : DoRead(len) =>
                     sramReadAddr' = sramReadAddr \/ sramReadAddr' <= lengthWord
  <1>1. Inv /\ [Next]_vars => [A]_vars
    <2> SUFFICES ASSUME Inv, NEW len \in 0..MaxLen, DoRead(len)
                 PROVE sramReadAddr' = sramReadAddr \/ sramReadAddr' <= lengthWord
      OBVIOUS
    <2>1. CASE Eof
      BY <2>1 DEF DoRead, ReadBuf, readerVars
    <2>2. CASE ~Eof
      <3>1. /\ ReadLen(len) \in Nat /\ sramReadAddr + ReadLen(len) <= lengthWord
            /\ sramReadAddr \in Nat /\ lengthWord \in 0..(Wrap - 1)
        BY <2>2, ReadStaysInside DEF DoRead, Inv, TypeOK
      <3>2. Plus(sramReadAddr, ReadLen(len)) = sramReadAddr + ReadLen(len)
        BY <3>1, PlusIsSum, SizesAssumption
      <3>3. QED
        BY <2>2, <3>1, <3>2 DEF DoRead, ReadBuf, Tell
    <2>3. QED
      BY <2>1, <2>2
  <1>2. QED
    BY <1>1, AlwaysInv, PTL DEF Spec, ReadsStayInFile
===============================================================================
