------------------------------ MODULE BitStream -------------------------------
(***************************************************************************)
(* What a bit reader promises the decoder: it stands at a bit of the       *)
(* stream; a read returns the bits that come next and moves past them; a   *)
(* frame's CRC is that of the bytes since its sync; after a bad frame it   *)
(* stands behind the sync again.  There is no buffer and no client here.   *)
(***************************************************************************)
EXTENDS Integers, Sequences

CONSTANTS
    BitsPerByte,
    Streams,        \* what a stream may hold: sequences of bytes
    Lengths         \* the numbers of bits that reads ask for

VARIABLES
    stream,
    pos,            \* bits of the stream that were read
    sync,           \* the byte behind the last frame sync, 0 before the first
    answer          \* what the last read was asked for and what it returned

vars == <<stream, pos, sync, answer>>

Unary == -1     \* asks for the bits up to the first one
Crc == -2       \* asks for the CRC of the bytes since the sync

End == Len(stream) * BitsPerByte
Bit(p) == stream[(p \div BitsPerByte) + 1][(p % BitsPerByte) + 1]
BitsFrom(from, n) == [k \in 1..n |-> Bit(from + k - 1)]
Result(want, status, got) == [want |-> want, status |-> status, got |-> got]
Nothing == Result(0, "ok", <<>>)

Init ==
    /\ stream \in Streams
    /\ pos = 0 /\ sync = 0
    /\ answer = Nothing

Ask ==
    /\ answer.status # "pending"
    /\ \E want \in Lengths \cup {Unary} : answer' = Result(want, "pending", <<>>)
    /\ UNCHANGED <<stream, pos, sync>>

Read ==
    /\ answer.status = "pending" /\ answer.want # Unary
    /\ pos + answer.want <= End
    /\ pos' = pos + answer.want
    /\ answer' = Result(answer.want, "ok", BitsFrom(pos, answer.want))
    /\ UNCHANGED <<stream, sync>>

\* A read of no bits asks nobody for them.
ReadNothing ==
    /\ answer.status # "pending" /\ 0 \in Lengths
    /\ answer' = Nothing
    /\ UNCHANGED <<stream, pos, sync>>

ReadUnary ==
    /\ answer.status = "pending" /\ answer.want = Unary
    /\ \E n \in 1..(End - pos) :
          /\ Bit(pos + n - 1) = 1
          /\ \A k \in 1..(n - 1) : Bit(pos + k - 1) = 0
          /\ pos' = pos + n
          /\ answer' = Result(Unary, "ok", BitsFrom(pos, n))
    /\ UNCHANGED <<stream, sync>>

\* A read that fails may have taken some of the bits.
Fail ==
    /\ answer.status = "pending"
    /\ pos' \in pos..End
    /\ answer' = Result(answer.want, "failed", <<>>)
    /\ UNCHANGED <<stream, sync>>

FrameSync ==
    /\ answer.status # "pending"
    /\ pos % BitsPerByte = 0
    /\ sync' = pos \div BitsPerByte
    /\ UNCHANGED <<stream, pos, answer>>

\* The CRC of the bytes between the sync and here
FrameCrc ==
    /\ answer.status # "pending"
    /\ pos % BitsPerByte = 0
    /\ answer' = Result(Crc, "ok",
                        SubSeq(stream, sync + 1, pos \div BitsPerByte))
    /\ UNCHANGED <<stream, pos, sync>>

\* Back to right behind the sync of the bad frame, or one byte further.
Rewind ==
    /\ answer.status # "pending"
    /\ pos' \in {sync * BitsPerByte, (sync + 1) * BitsPerByte}
    /\ UNCHANGED <<stream, sync, answer>>

Seek ==
    /\ answer.status # "pending"
    /\ pos' \in {b * BitsPerByte : b \in 0..Len(stream)}
    /\ answer' = Nothing /\ sync' = 0
    /\ UNCHANGED stream

Next ==
    \/ Ask \/ Read \/ ReadNothing \/ ReadUnary \/ Fail
    \/ FrameSync \/ FrameCrc \/ Rewind \/ Seek

Spec == Init /\ [][Next]_vars
===============================================================================
