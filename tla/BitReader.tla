------------------------------ MODULE BitReader -------------------------------
(***************************************************************************)
(* The bit reader of libFLAC (bitreader.c, the same file on both cores):   *)
(* a buffer of words between a client that delivers bytes and a decoder    *)
(* that takes bits.  A reader is a record with the fields of struct        *)
(* FLAC__BitReader; every operator returns the reader as the function      *)
(* leaves it.  Functions that may have to ask the client for more come in  *)
(* parts: what they do before, Refill, and what they do after.             *)
(*                                                                         *)
(* A byte is a tuple of bits, its first bit the most significant; the      *)
(* buffer lists the bytes of each word from the most significant one, so   *)
(* that its order is the order of the stream.  Memory holds a word the     *)
(* other way round (both cores are little-endian): MemoryOrder says where. *)
(* The CRC is the sequence of the bytes it was computed from.              *)
(***************************************************************************)
EXTENDS Integers, Sequences

CONSTANTS
    BytesPerWord,   \* FLAC__BYTES_PER_WORD
    BitsPerByte,    \* 8
    Capacity,       \* FLAC__BITREADER_DEFAULT_CAPACITY, in words
    Wrap            \* 2^32

ASSUME ReaderAssumption ==
    /\ BytesPerWord \in Nat \ {0} /\ BitsPerByte \in Nat \ {0}
    /\ Capacity \in Nat \ {0} /\ Wrap \in Nat \ {0, 1}

BitsPerWord == BytesPerWord * BitsPerByte
None == Wrap - 1
Addr == 0..(Capacity * BytesPerWord - 1)

\* Memory from malloc that nothing was stored in: its bits are neither 0 nor 1.
Unwritten == [i \in 1..BitsPerByte |-> 2]

NewReader ==
    [buffer |-> [a \in Addr |-> Unwritten],
     words |-> 0, bytes |-> 0, consumed_words |-> 0, consumed_bits |-> 0,
     read_crc16 |-> <<>>, crc16_offset |-> 0, crc16_align |-> 0,
     read_limit_set |-> FALSE, read_limit |-> None,
     last_seen_framesync |-> None]

Clear(br) ==
    [br EXCEPT !.words = 0, !.bytes = 0,
               !.consumed_words = 0, !.consumed_bits = 0,
               !.read_limit_set = FALSE, !.read_limit = None,
               !.last_seen_framesync = None]

-------------------------------------------------------------------------------
(* Where the reader is *)

Available(br) == br.words * BytesPerWord + br.bytes
Consumed(br) == br.consumed_words * BitsPerWord + br.consumed_bits
Unconsumed(br) ==
    (br.words - br.consumed_words) * BitsPerWord
        + br.bytes * BitsPerByte - br.consumed_bits
ByteAligned(br) == br.consumed_bits % BitsPerByte = 0

BitAt(br, p) == br.buffer[p \div BitsPerByte][(p % BitsPerByte) + 1]
NextBits(br, n) == [k \in 1..n |-> BitAt(br, Consumed(br) + k - 1)]

\* Mutant: the end of the head word is not noticed.
ConsumeNoCarry(br, n) == [br EXCEPT !.consumed_bits = @ + n]

\* The n next bits, which are in the buffer, become consumed.
Consume(br, n) ==
    LET p == br.consumed_bits + n IN
    [br EXCEPT !.consumed_words = @ + p \div BitsPerWord,
               !.consumed_bits = p % BitsPerWord]

-------------------------------------------------------------------------------
(* The running CRC *)

\* Bytes from..(to - 1) of the buffer
BytesOf(br, from, to) == [i \in 1..(to - from) |-> br.buffer[from + i - 1]]

ResetReadCrc16(br, seed) ==
    [br EXCEPT !.read_crc16 = seed,
               !.crc16_offset = br.consumed_words,
               !.crc16_align = br.consumed_bits]

\* Mutant: a head word of which only a part counts is taken whole.
Crc16UpdateBlockIgnoresAlign(br) ==
    IF br.consumed_words > br.crc16_offset
    THEN [br EXCEPT !.read_crc16 =
                        @ \o BytesOf(br, br.crc16_offset * BytesPerWord,
                                     br.consumed_words * BytesPerWord),
                    !.crc16_offset = 0, !.crc16_align = 0]
    ELSE [br EXCEPT !.crc16_offset = 0]

\* The bytes behind crc16_align of the first consumed word, then the other
\* consumed words.
Crc16UpdateBlock(br) ==
    IF br.consumed_words > br.crc16_offset
    THEN [br EXCEPT !.read_crc16 =
                        @ \o BytesOf(br, br.crc16_offset * BytesPerWord
                                             + br.crc16_align \div BitsPerByte,
                                     br.consumed_words * BytesPerWord),
                    !.crc16_offset = 0, !.crc16_align = 0]
    ELSE [br EXCEPT !.crc16_offset = 0]

\* The whole words, then the bytes of the partly consumed one.
GetReadCrc16(br) ==
    LET b == Crc16UpdateBlock(br)
        word == b.consumed_words * BytesPerWord
    IN [b EXCEPT !.read_crc16 =
                    @ \o BytesOf(b, word + b.crc16_align \div BitsPerByte,
                                 word + b.consumed_bits \div BitsPerByte),
                 !.crc16_align = IF b.crc16_align < b.consumed_bits
                                 THEN b.consumed_bits ELSE @]

-------------------------------------------------------------------------------
(* bitreader_read_from_client_ *)

\* Mutant: the buffer is only shifted when all of its words are consumed.
ShiftToFrontWhenEmpty(br) ==
    LET b == Crc16UpdateBlock(br) IN
    IF br.consumed_words < br.words \/ br.bytes > 0 THEN br
    ELSE [b EXCEPT !.words = 0, !.consumed_words = 0]

\* The consumed words go into the CRC and the others move to the front.
ShiftToFront(br) ==
    LET b == Crc16UpdateBlock(br)
        start == br.consumed_words
        end == br.words + (IF br.bytes > 0 THEN 1 ELSE 0)
        moved == (end - start) * BytesPerWord
    IN IF start = 0 THEN br
       ELSE [b EXCEPT !.buffer = [a \in Addr |->
                          IF a < moved THEN br.buffer[a + start * BytesPerWord]
                          ELSE br.buffer[a]],
                      !.words = @ - start, !.consumed_words = 0]

BeforeRead(br) == [ShiftToFront(br) EXCEPT !.last_seen_framesync = None]

SpaceLeft(br) == (Capacity - br.words) * BytesPerWord - br.bytes

\* The byte that address a stands for when words lie in memory as they are.
MemoryOrder(a) ==
    (a \div BytesPerWord) * BytesPerWord + BytesPerWord - 1 - (a % BytesPerWord)
InWords(a, first, last) == a \div BytesPerWord \in first..last

\* SWAP_BE_WORD_TO_HOST on the words first..last
SwapWords(buffer, first, last) ==
    [a \in Addr |->
        IF InWords(a, first, last) THEN buffer[MemoryOrder(a)] ELSE buffer[a]]

\* What the client stores from memory address target on
StoreAt(buffer, target, data) ==
    [a \in Addr |->
        IF MemoryOrder(a) \in target..(target + Len(data) - 1)
        THEN data[MemoryOrder(a) - target + 1] ELSE buffer[a]]

\* Mutant: the odd tail word is not swapped before the client stores to it.
TailForClientUnswapped(br) == br.buffer

TailForClient(br) ==
    IF br.bytes > 0 THEN SwapWords(br.buffer, br.words, br.words)
    ELSE br.buffer

\* The client stored data and said true.
Filled(b, data) ==
    LET stored == StoreAt(TailForClient(b), Available(b), data)
        end == Available(b) + Len(data)
        lastWord == (end + BytesPerWord - 1) \div BytesPerWord - 1
    IN [b EXCEPT !.buffer = SwapWords(stored, b.words, lastWord),
                 !.words = end \div BytesPerWord,
                 !.bytes = end % BytesPerWord]

\* The client said false, whatever it stored: the tail word is put back.
NotFilled(b, data) ==
    LET stored == StoreAt(TailForClient(b), Available(b), data) IN
    [b EXCEPT !.buffer = [a \in Addr |->
        IF InWords(a, b.words, b.words) THEN b.buffer[a] ELSE stored[a]]]

-------------------------------------------------------------------------------
(* Limits of metadata blocks *)

SetLimit(br, limit) ==
    [br EXCEPT !.read_limit = limit, !.read_limit_set = TRUE]
RemoveLimit(br) == [br EXCEPT !.read_limit_set = FALSE, !.read_limit = None]
InvalidateLimit(br) == [br EXCEPT !.read_limit = None]

Limited(br) == br.read_limit_set /\ br.read_limit < None
OverLimit(br, bits) == Limited(br) /\ br.read_limit < bits

\* Mutant: the bits are not taken off the limit.
ChargeNothing(br, bits) == br

\* read_raw_uint32 takes the bits off the limit before it has them.
Charge(br, bits) ==
    IF Limited(br) THEN [br EXCEPT !.read_limit = @ - bits] ELSE br

\* The loops over whole words take them off without looking: a limit that was
\* invalidated wraps around.
ChargeWord(br) ==
    IF br.read_limit_set
    THEN [br EXCEPT !.read_limit = (@ - BitsPerWord) % Wrap] ELSE br

-------------------------------------------------------------------------------
(* Frame synchronisation *)

SetFramesyncLocation(br) ==
    [br EXCEPT !.last_seen_framesync =
        br.consumed_words * BytesPerWord + br.consumed_bits \div BitsPerByte]

FramesyncInBuffer(br) == br.last_seen_framesync # None

RewindToAfterLastSeenFramesync(br) ==
    LET next == br.last_seen_framesync + 1 IN
    [br EXCEPT !.consumed_words =
                   IF FramesyncInBuffer(br) THEN next \div BytesPerWord ELSE 0,
               !.consumed_bits =
                   IF FramesyncInBuffer(br)
                   THEN (next % BytesPerWord) * BitsPerByte ELSE 0]
===============================================================================
