------------------------------ MODULE VirtualFs -------------------------------
(***************************************************************************)
(* The one-file "file system" in shared SRAM (virtual_fs_api.c, one copy   *)
(* for each core).  The CM33 loads a file from the SD card into the music  *)
(* region, its size into the length word; a codec on either core reads     *)
(* the region like a file, through a read pointer and a cached file size   *)
(* of its own.                                                             *)
(*                                                                         *)
(* Addresses are offsets from CM33DSP_MUSIC_SOURCE_ADDR_START.  A byte is  *)
(* the file (or the load) it came from, a number, and its offset there.    *)
(* FatFs is external: f_open fails or not, a f_read delivers all it is     *)
(* asked for or fails.                                                     *)
(***************************************************************************)
EXTENDS Integers, Sequences

CONSTANTS
    Capacity,   \* ADDR_END - ADDR_START as the CM33 has them: what a file may need
    SeekEnd,    \* ADDR_END - ADDR_START as the reader has them (the DSP's is larger)
    Wrap,       \* 2^32
    Start,      \* CM33DSP_MUSIC_SOURCE_ADDR_START
    ReadSize    \* READSIZE, the chunk of the copy loop

ASSUME SizesAssumption ==
    /\ Capacity \in Nat /\ SeekEnd \in Nat /\ Wrap \in Nat
    /\ ReadSize \in Nat \ {0}
    /\ Capacity + 1 < Wrap /\ Capacity <= SeekEnd
    /\ Start \in Nat /\ SeekEnd + Start < Wrap

VARIABLES
    sram,           \* the music region
    lengthWord,     \* the word at CM33DSP_MUSIC_SOURCE_LENGTH_ADDR
    sramReadAddr,   \* the reader's pointer
    filesize,       \* the reader's cached size
    load            \* copyMusic2Sram: where it is, what it loads, what is left

regionVars == <<sram, lengthWord>>
readerVars == <<sramReadAddr, filesize>>

Addr == 0..(Capacity - 1)
Byte(gen, a) == [gen |-> gen, at |-> a]
NoByte == Byte(0, 0)

\* uint32_t sums and differences
Plus(a, b) == IF a + b < Wrap THEN a + b ELSE a + b - Wrap
Minus(a, b) == IF b <= a THEN a - b ELSE Wrap + a - b

-------------------------------------------------------------------------------
(* The reader *)

Tell == sramReadAddr

\* Mutant: the end is taken to be one byte earlier still.
EofEarlier == Tell + 2 >= filesize

\* Mutant: an end that is tested with equality, and so can be jumped over.
EofEqual == Tell = filesize

Eof == Plus(Tell, 1) >= filesize

\* Mutant: only the size is refreshed.
ResetReadPrKeepsPointer ==
    /\ sramReadAddr' = sramReadAddr
    /\ filesize' = lengthWord

ResetReadPr ==
    /\ sramReadAddr' = 0
    /\ filesize' = lengthWord

\* The pointer is moved even when the offset is refused. An offset so large that
\* the address wraps around lies below the region, and is not refused.
Seek(offset) == sramReadAddr' = offset /\ UNCHANGED filesize
SeekRefused(offset) == offset > SeekEnd /\ offset < Wrap - Start

\* What virtual_fs_api_readbuf_autoMovePr copies when it is not at the end;
\* the caller is told 0 and not how many bytes it got.
ReadLen(len) ==
    IF len > Minus(lengthWord, Tell) THEN Minus(lengthWord, Tell) ELSE len

\* Mutant: the pointer is not moved.
ReadBufKeepsPointer(len) ==
    /\ filesize' = IF Eof THEN filesize ELSE lengthWord
    /\ UNCHANGED sramReadAddr

ReadBuf(len) ==
    IF Eof THEN UNCHANGED readerVars
    ELSE /\ filesize' = lengthWord
         /\ sramReadAddr' = Plus(Tell, ReadLen(len))

\* Outside the region the reader would find whatever is in memory there.
ByteAt(a) == IF a \in Addr THEN sram[a] ELSE NoByte
ReadBytes(len) ==
    IF Eof THEN <<>> ELSE [i \in 1..ReadLen(len) |-> ByteAt(Plus(Tell, i - 1))]

-------------------------------------------------------------------------------
(* The loader: virtual_fs_api_copyMusic2Sram *)

NotLoading == [pc |-> "idle", gen |-> 0, size |-> 0, left |-> 0, at |-> 0, rc |-> 0]

\* Mutant: no size check.
OpenInputUnchecked(gen, present, size) ==
    /\ load.pc = "idle"
    /\ load' = [pc   |-> IF present THEN "length" ELSE "done",
                gen  |-> gen, size |-> size, left |-> size, at |-> 0,
                rc   |-> IF present THEN 0 ELSE 1]
    /\ UNCHANGED regionVars

\* f_open, f_size, the size check
OpenInput(gen, present, size) ==
    /\ load.pc = "idle"
    /\ load' = [pc   |-> IF present /\ size <= Capacity THEN "length" ELSE "done",
                gen  |-> gen, size |-> size, left |-> size, at |-> 0,
                rc   |-> IF present /\ size <= Capacity THEN 0 ELSE 1]
    /\ UNCHANGED regionVars

StoreLength ==
    /\ load.pc = "length"
    /\ lengthWord' = load.size
    /\ load' = [load EXCEPT !.pc = "copy"]
    /\ UNCHANGED sram

\* Mutant: the result of f_read is not looked at.
CopyChunkIgnoresError(readFails) ==
    /\ load.pc = "copy"
    /\ IF load.left = 0
       THEN load' = [load EXCEPT !.pc = "done"] /\ UNCHANGED sram
       ELSE LET n == IF load.left > ReadSize THEN ReadSize ELSE load.left IN
            /\ sram' = IF readFails THEN sram
                       ELSE [a \in Addr |->
                               IF a \in load.at..(load.at + n - 1)
                               THEN Byte(load.gen, a) ELSE sram[a]]
            /\ load' = [load EXCEPT !.left = @ - n, !.at = @ + n]
    /\ UNCHANGED lengthWord

\* One turn of the copy loop, or the end of it. A failed f_read leaves the
\* loop with what was copied so far in place and the new length stored.
CopyChunk(readFails) ==
    /\ load.pc = "copy"
    /\ IF load.left = 0
       THEN load' = [load EXCEPT !.pc = "done"] /\ UNCHANGED sram
       ELSE IF readFails
       THEN load' = [load EXCEPT !.pc = "done", !.rc = 1] /\ UNCHANGED sram
       ELSE LET n == IF load.left > ReadSize THEN ReadSize ELSE load.left IN
            /\ sram' = [a \in Addr |->
                          IF a \in load.at..(load.at + n - 1)
                          THEN Byte(load.gen, a) ELSE sram[a]]
            /\ load' = [load EXCEPT !.left = @ - n, !.at = @ + n]
    /\ UNCHANGED lengthWord

\* The file numbered gen is in the region, whole, and its size in the word.
Holds(gen, size) ==
    /\ lengthWord = size
    /\ \A a \in 0..(size - 1) : sram[a] = Byte(gen, a)

\* The caller has the result.
LoadReturned == load.pc = "done" /\ load' = [load EXCEPT !.pc = "idle"]
===============================================================================
