----------------------------- MODULE VirtualFsUse -----------------------------
(***************************************************************************)
(* VirtualFs on its own, under a program that, like the encode tests and   *)
(* the CM33's decode test, loads a file, resets the reader when that        *)
(* succeeded, and then reads and seeks as it likes until the next load.    *)
(***************************************************************************)
EXTENDS VirtualFs

CONSTANTS
    MaxOffset,  \* bound: largest offset the program seeks to
    MaxLen      \* bound: largest number of bytes it asks for

ASSUME UseAssumption ==
    /\ MaxOffset \in Nat /\ MaxOffset + 1 < Wrap /\ MaxOffset < Wrap - Start
    /\ MaxLen \in Nat

VARIABLES
    phase,      \* "load", "reset", "use"
    status,     \* what the last read returned
    got         \* what was read since the last reset or seek, and from where

vars == <<regionVars, readerVars, load, phase, status, got>>

Init ==
    /\ sram = [a \in Addr |-> NoByte] /\ lengthWord \in 0..(Wrap - 1)
    /\ sramReadAddr = 0 /\ filesize = 0
    /\ load = NotLoading
    /\ phase = "load" /\ status = 0 /\ got = [from |-> 0, bytes |-> <<>>]

StartLoad ==
    /\ phase \in {"load", "use"} /\ phase' = "load"
    /\ \E present \in BOOLEAN, size \in 0..(Capacity + 1) :
          OpenInput(IF load.gen = 1 THEN 2 ELSE 1, present, size)
    /\ UNCHANGED <<readerVars, status, got>>

LoadStep ==
    /\ phase = "load"
    /\ StoreLength \/ \E readFails \in BOOLEAN : CopyChunk(readFails)
    /\ UNCHANGED <<readerVars, phase, status, got>>

LoadDone ==
    /\ phase = "load" /\ LoadReturned
    /\ phase' = IF load.rc = 0 THEN "reset" ELSE "load"
    /\ UNCHANGED <<regionVars, readerVars, status, got>>

Reset ==
    /\ phase \in {"reset", "use"} /\ phase' = "use"
    /\ ResetReadPr
    /\ status' = 0 /\ got' = [from |-> 0, bytes |-> <<>>]
    /\ UNCHANGED <<regionVars, load>>

DoRead(len) ==
    /\ phase = "use"
    /\ ReadBuf(len)
    /\ status' = IF Eof THEN 1 ELSE 0
    /\ got' = [got EXCEPT !.bytes = @ \o ReadBytes(len)]
    /\ UNCHANGED <<regionVars, load, phase>>

DoSeek(offset) ==
    /\ phase = "use"
    /\ Seek(offset)
    /\ status' = IF SeekRefused(offset) THEN 1 ELSE 0
    /\ got' = [from |-> offset, bytes |-> <<>>]
    /\ UNCHANGED <<regionVars, load, phase>>

Next ==
    \/ StartLoad \/ LoadStep \/ LoadDone \/ Reset
    \/ \E len \in 0..MaxLen : DoRead(len)
    \/ \E offset \in 0..MaxOffset : DoSeek(offset)

Spec == Init /\ [][Next]_vars

-------------------------------------------------------------------------------
(* Properties *)

TypeOK ==
    /\ sram \in [Addr -> [gen : 0..2, at : 0..Capacity]] /\ lengthWord \in 0..(Wrap - 1)
    /\ sramReadAddr \in 0..(Wrap - 1) /\ filesize \in 0..(Wrap - 1)
    /\ load \in [pc : {"idle", "length", "copy", "done"}, gen : 0..2,
                 size : 0..(Capacity + 1), left : 0..(Capacity + 1),
                 at : 0..Capacity, rc : {0, 1}]
    /\ phase \in {"load", "reset", "use"} /\ status \in {0, 1}

\* No read goes past the file: whatever offset the pointer was moved to, the
\* unsigned "size - tell" that bounds the copy never wraps around.
ReadsStayInFile ==
    [][\A len \in 0..MaxLen : DoRead(len) =>
           sramReadAddr' = sramReadAddr \/ sramReadAddr' <= lengthWord]_vars

\* The copy loop writes no byte at or past ADDR_END, above which the length
\* word lies: the loop moves at + left bytes in all, the size that was checked.
CopyStaysInRegion ==
    load.pc \in {"length", "copy"} =>
        load.at + load.left = load.size /\ load.size <= Capacity

\* While the reader may use it the region holds the file last loaded, all of
\* it, and the cached size is its size: nothing of an earlier, larger file and
\* no size left from an earlier load.
RegionHoldsFile ==
    phase \in {"reset", "use"} =>
        /\ Holds(load.gen, load.size)
        /\ phase = "use" => filesize = lengthWord

\* What is read is the file, from where the pointer was, in order and without a
\* gap; and a reader that is told 1 has had all of it but at most one byte.
ReadsDeliverFile ==
    phase = "use" =>
        /\ \A i \in 1..Len(got.bytes) :
              got.bytes[i] = Byte(load.gen, got.from + i - 1)
        /\ status = 1 => got.from + Len(got.bytes) + 1 >= load.size
===============================================================================
