----------------------------- MODULE BitReaderUse -----------------------------
(***************************************************************************)
(* BitReader between a client that delivers the stream in pieces of any    *)
(* size, or fails, and a decoder that reads as libFLAC's does: metadata    *)
(* under a limit, then frames, each from its sync to its CRC, with a       *)
(* rewind when it was bad.                                                 *)
(*                                                                         *)
(* A read is a list of parts still to do.  The client is called in the     *)
(* middle of a read, so each call of it is a step.                         *)
(***************************************************************************)
EXTENDS BitClient

CONSTANTS
    RawLengths,     \* bound: the bits that a read_raw_uint32 asks for
    LongLengths,    \* bound: those of a read_raw_uint64 of more than a word
    SkipLengths,    \* bound: those of a skip_bits_no_crc
    BlockLengths,   \* bound: the bytes of a byte block
    LimitLengths,   \* bound: the bytes of a limited metadata block
    SeekPoints,     \* bound: the bytes a seek goes to
    MaxScribble     \* bound: most bytes that a client stores before it fails

ASSUME UseAssumption ==
    /\ Capacity >= 2
    /\ RawLengths \subseteq 1..BitsPerWord
    /\ LongLengths \subseteq (BitsPerWord + 1)..(2 * BitsPerWord)
    /\ SkipLengths \subseteq Nat /\ BlockLengths \subseteq Nat
    /\ \A n \in LimitLengths : n \in Nat /\ n * BitsPerByte < None
    /\ SeekPoints \subseteq Nat /\ MaxScribble \in Nat

VARIABLES
    call,       \* the read in progress, or the last one
    lastSync,   \* the decoder's last_seen_framesync
    frame,      \* "search", "header" (right behind a sync), "body", "footer"
    limitEnd    \* where the limit that is set ends, or Unlimited

vars == <<stream, fed, br, call, lastSync, frame, limitEnd>>

Unlimited == -1
Unary == -1     \* for the length of a read_unary_unsigned
Crc == -2       \* for that of a get_read_crc16
StreamBits == Len(stream) * BitsPerByte

NoCall == [want |-> 0, todo |-> <<>>, got |-> <<>>, end |-> "ok", from |-> 0]

Init ==
    /\ stream \in Streams
    /\ fed = 0 /\ br = NewReader
    /\ call = NoCall
    /\ lastSync = 0 /\ frame = "search" /\ limitEnd = Unlimited

-------------------------------------------------------------------------------
(* The parts of a read *)

Raw(n) == [do |-> "raw", n |-> n]       \* read_raw_uint32 of n bits
Bits(n) == [do |-> "bits", n |-> n]     \* the same, the limit already charged
Block(n) == [do |-> "block", n |-> n]   \* a byte block, from its limit check
InBlock(n) == [do |-> "inBlock", n |-> n]
UnaryPart == [do |-> "unary", n |-> 0]

Part == Head(call.todo)
Then(parts) == [call EXCEPT !.todo = parts \o Tail(@)]
Got(bits, parts) == [Then(parts) EXCEPT !.got = @ \o bits]
Failed(why) == [call EXCEPT !.todo = <<>>, !.got = <<>>, !.end = why]

DoRaw ==
    /\ Part.do = "raw"
    /\ IF OverLimit(br, Part.n)
       THEN br' = InvalidateLimit(br) /\ call' = Failed("limit")
       ELSE br' = Charge(br, Part.n) /\ call' = Then(<<Bits(Part.n)>>)

DoBits ==
    /\ Part.do = "bits" /\ Unconsumed(br) >= Part.n
    /\ call' = Got(NextBits(br, Part.n), <<>>)
    /\ br' = Consume(br, Part.n)

DoBlock ==
    /\ Part.do = "block"
    /\ IF OverLimit(br, Part.n * BitsPerByte)
       THEN br' = InvalidateLimit(br) /\ call' = Failed("limit")
       ELSE call' = Then(<<InBlock(Part.n)>>) /\ UNCHANGED br

WholeWords == br.consumed_bits = 0 /\ Part.n >= BytesPerWord

\* A byte of the head word, or one of the last that fill no word
DoBlockByte ==
    /\ Part.do = "inBlock" /\ Part.n > 0 /\ ~WholeWords
    /\ call' = Then(<<Raw(BitsPerByte), InBlock(Part.n - 1)>>)
    /\ UNCHANGED br

DoBlockWord ==
    /\ Part.do = "inBlock" /\ WholeWords
    /\ br.consumed_words < br.words
    /\ call' = Got(NextBits(br, BitsPerWord), <<InBlock(Part.n - BytesPerWord)>>)
    /\ br' = ChargeWord(Consume(br, BitsPerWord))

DoBlockEnd ==
    /\ Part.do = "inBlock" /\ Part.n = 0
    /\ call' = Then(<<>>) /\ UNCHANGED br

\* The zeros in front of the first one bit in the buffer, if there is one
StopBits == {n \in 1..Unconsumed(br) : NextBits(br, n)[n] = 1}
Zeros(n) == [k \in 1..n |-> 0]

DoUnary ==
    /\ Part.do = "unary" /\ Unconsumed(br) > 0
    /\ IF StopBits = {}
       THEN /\ call' = Got(Zeros(Unconsumed(br)), <<UnaryPart>>)
            /\ br' = Consume(br, Unconsumed(br))
       ELSE LET n == CHOOSE m \in StopBits : \A k \in StopBits : m <= k IN
            /\ call' = Got(Append(Zeros(n - 1), 1), <<>>)
            /\ br' = Consume(br, n)

\* Where the functions call bitreader_read_from_client_
WantsMore ==
    \/ Part.do = "bits" /\ Unconsumed(br) < Part.n
    \/ Part.do = "inBlock" /\ WholeWords /\ br.consumed_words >= br.words
    \/ Part.do = "unary" /\ Unconsumed(br) = 0

\* The CRC that runs on outside of a frame is read by nobody and not kept here.
Kept(b) == IF frame \in {"header", "body"} THEN b
           ELSE [b EXCEPT !.read_crc16 = <<>>]

\* bitreader_read_from_client_: n bytes, with the client's true or false. That
\* there is no space for any is ruled out by BufferNeverTooSmall.
Refill(n, ok) ==
    LET b == BeforeRead(br)
        data == SubSeq(stream, fed + 1, fed + n)
    IN /\ WantsMore
       /\ n <= SpaceLeft(b) /\ fed + n <= Len(stream)
       /\ SpaceLeft(b) > 0
       /\ IF ok THEN n > 0 ELSE n <= MaxScribble
       /\ IF ok
          THEN br' = Kept(Filled(b, data)) /\ fed' = fed + n /\ UNCHANGED call
          ELSE br' = Kept(NotFilled(b, data)) /\ call' = Failed("client") /\ UNCHANGED fed

ReadStep ==
    /\ call.todo # <<>>
    /\ \/ /\ \/ DoRaw \/ DoBits \/ DoUnary
             \/ DoBlock \/ DoBlockByte \/ DoBlockWord \/ DoBlockEnd
          /\ UNCHANGED fed
       \/ \E n \in 0..(Capacity * BytesPerWord), ok \in BOOLEAN : Refill(n, ok)
    /\ frame' = IF frame = "header" /\ call'.todo = <<>> /\ call'.end = "ok"
                THEN "body" ELSE frame
    /\ limitEnd' = IF br'.read_limit = None THEN Unlimited ELSE limitEnd
    /\ UNCHANGED <<stream, lastSync>>

-------------------------------------------------------------------------------
(* What the decoder asks for *)

\* After a read over the limit the metadata reader may go on, to skip the rest;
\* when the client failed the decoder's state is final.
Between == call.todo = <<>>
Ready == Between /\ call.end # "client"

Begin(want, parts) ==
    /\ Ready
    /\ call' = [want |-> want, todo |-> parts, got |-> <<>>, end |-> "ok",
                from |-> Position]
    /\ UNCHANGED <<stream, fed, br, lastSync, frame, limitEnd>>

ReadRawUint32(bits) == Begin(bits, <<Raw(bits)>>)

\* read_raw_uint64 of more than a word
ReadRawUint64(bits) ==
    Begin(bits, <<Raw(bits - BitsPerWord), Raw(BitsPerWord)>>)

ReadUint32LittleEndian ==
    Begin(BitsPerWord, [i \in 1..BytesPerWord |-> Raw(BitsPerByte)])

\* skip_bits_no_crc: to the next byte, whole bytes, the rest
SkipBits(bits) ==
    LET n == br.consumed_bits % BitsPerByte
        head == IF n = 0 THEN 0
                ELSE IF BitsPerByte - n < bits THEN BitsPerByte - n ELSE bits
        nvals == (bits - head) \div BitsPerByte
        tail == (bits - head) % BitsPerByte
    IN Begin(bits, (IF head > 0 THEN <<Raw(head)>> ELSE <<>>)
                       \o (IF nvals > 0 THEN <<Block(nvals)>> ELSE <<>>)
                       \o (IF tail > 0 THEN <<Raw(tail)>> ELSE <<>>))

\* skip_ and read_byte_block_aligned_no_crc, which differ in what they return
ReadByteBlock(nvals) ==
    /\ ByteAligned(br)
    /\ Begin(nvals * BitsPerByte, <<Block(nvals)>>)

ReadUnary == ~br.read_limit_set /\ Begin(Unary, <<UnaryPart>>)

Metadata ==
    /\ frame = "search"
    /\ \/ \E nvals \in BlockLengths : ReadByteBlock(nvals)
       \/ \E bits \in SkipLengths : SkipBits(bits)
       \/ ReadUint32LittleEndian

\* A metadata block is read under a limit of its length.
BlockLimit(nbytes) ==
    /\ Ready /\ frame = "search" /\ ~br.read_limit_set /\ ByteAligned(br)
    /\ br' = SetLimit(br, nbytes * BitsPerByte)
    /\ limitEnd' = Position + nbytes * BitsPerByte
    /\ UNCHANGED <<stream, fed, call, lastSync, frame>>

\* read_metadata_picture_ finds a length in it that goes over its own.
GiveUpBlock ==
    /\ Ready /\ br.read_limit_set
    /\ br' = InvalidateLimit(br) /\ limitEnd' = Unlimited
    /\ UNCHANGED <<stream, fed, call, lastSync, frame>>

EndBlock ==
    /\ Between /\ br.read_limit_set
    /\ br' = RemoveLimit(br) /\ limitEnd' = Unlimited
    /\ UNCHANGED <<stream, fed, call, lastSync, frame>>

\* frame_sync_ found the two bytes of a sync, read_frame_ starts the CRC.
FrameSync ==
    /\ Ready /\ frame = "search" /\ ~br.read_limit_set
    /\ ByteAligned(br) /\ Position >= 2 * BitsPerByte
    /\ br' = ResetReadCrc16(SetFramesyncLocation(br), <<>>)
    /\ lastSync' = Position \div BitsPerByte
    /\ frame' = "header"
    /\ UNCHANGED <<stream, fed, call, limitEnd>>

FrameCrc ==
    /\ Ready /\ frame = "body" /\ ByteAligned(br)
    /\ br' = GetReadCrc16(br)
    /\ call' = [NoCall EXCEPT !.want = Crc, !.got = br'.read_crc16]
    /\ frame' = "footer"
    /\ UNCHANGED <<stream, fed, lastSync, limitEnd>>

\* Without a header that is good read_frame_ leaves the reader where it is.
BadHeader ==
    /\ Between /\ frame = "header" /\ frame' = "search"
    /\ UNCHANGED <<stream, fed, br, call, lastSync, limitEnd>>

GoodFrame ==
    /\ Ready /\ frame = "footer" /\ frame' = "search"
    /\ UNCHANGED <<stream, fed, br, call, lastSync, limitEnd>>

\* read_frame_: rewind within the buffer or, when the sync left it, seek.
BadFrame ==
    /\ Between /\ frame \in {"body", "footer"} /\ frame' = "search"
    /\ IF FramesyncInBuffer(br)
       THEN br' = RewindToAfterLastSeenFramesync(br) /\ UNCHANGED fed
       ELSE /\ br' = Clear(RewindToAfterLastSeenFramesync(br))
            /\ fed' = lastSync
    /\ UNCHANGED <<stream, call, lastSync, limitEnd>>

\* FLAC__stream_decoder_flush and a seek by the client
SeekTo(b) ==
    /\ Between /\ ~br.read_limit_set /\ b <= Len(stream)
    /\ br' = Clear(br) /\ fed' = b /\ lastSync' = 0
    /\ call' = NoCall /\ frame' = "search"
    /\ UNCHANGED <<stream, limitEnd>>

Next ==
    \/ ReadStep
    \/ \E bits \in RawLengths : ReadRawUint32(bits)
    \/ \E bits \in LongLengths : ReadRawUint64(bits)
    \/ ReadUnary \/ Metadata
    \/ \E n \in LimitLengths : BlockLimit(n)
    \/ GiveUpBlock \/ EndBlock
    \/ FrameSync \/ BadHeader \/ FrameCrc \/ GoodFrame \/ BadFrame
    \/ \E b \in SeekPoints : SeekTo(b)

Spec == Init /\ [][Next]_vars

-------------------------------------------------------------------------------
(* Properties *)

\* The words and the odd bytes behind them are the last bytes that the client
\* delivered, in order and each once, however often the buffer was shifted, its
\* tail word swapped for the client and swapped or put back. No more of them is
\* consumed than there is (the assertions of read_raw_uint32 and the unsigned
\* subtraction of get_input_bits_unconsumed), after a rewind too, and a sync that
\* was remembered is still where it was.
BufferHoldsStream ==
    /\ Available(br) <= Capacity * BytesPerWord /\ Available(br) <= fed
    /\ \A a \in 0..(Available(br) - 1) :
          br.buffer[a] = stream[fed - Available(br) + a + 1]
    /\ br.consumed_words <= br.words /\ Unconsumed(br) >= 0
    /\ FramesyncInBuffer(br) =>
          /\ br.last_seen_framesync <= Available(br)
          /\ frame # "search" =>
                fed - Available(br) + br.last_seen_framesync = lastSync

\* While a metadata block is read, no read of any kind gets past its end.
LimitRespected == limitEnd # Unlimited => Position <= limitEnd

\* The reader with its buffer and its client reads as one that has the stream:
\* the bits in order, a CRC over the bytes of the frame and no others, and a
\* rewind to the place behind the sync.
Abstract == INSTANCE BitStream WITH
    Lengths <- RawLengths \cup LongLengths \cup SkipLengths
                  \cup {n * BitsPerByte : n \in BlockLengths} \cup {BitsPerWord},
    pos <- IF call.todo = <<>> THEN Position ELSE call.from,
    sync <- lastSync,
    answer <- [want |-> call.want,
               status |-> IF call.todo # <<>> THEN "pending"
                          ELSE IF call.end = "ok" THEN "ok" ELSE "failed",
               got |-> IF call.todo # <<>> THEN <<>> ELSE call.got]

ImplementsBitStream == Abstract!Init /\ [][Abstract!Next]_Abstract!vars

\* When a function needs more the buffer has room for it once the consumed words
\* are shifted out: the read never fails because "buffer is too small".
BufferNeverTooSmall ==
    call.todo # <<>> /\ WantsMore => SpaceLeft(BeforeRead(br)) > 0
===============================================================================
