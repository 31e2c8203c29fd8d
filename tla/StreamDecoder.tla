---------------------------- MODULE StreamDecoder -----------------------------
(***************************************************************************)
(* The stream decoder of libFLAC (stream_decoder.c, the same code on both  *)
(* cores) as the demo runs it: process_until_end_of_stream over the file   *)
(* in the music region, which may be damaged or cut off.  Below it are     *)
(* BitReader and VirtualFs, joined by the decoder's read, seek, tell and   *)
(* eof callbacks.                                                          *)
(*                                                                         *)
(* A byte is 16#ff, the second byte of a sync, "other", or a byte that is  *)
(* known by its frame and its place there.  A checksum is right when the   *)
(* bytes it covers are those of one frame: collisions are left out.  How   *)
(* many bytes the subframes of a damaged frame seem to have, and whether   *)
(* they seem to be wrong, is any.                                          *)
(***************************************************************************)
EXTENDS Integers, Sequences, SequencesExt

CONSTANTS
    BytesPerWord, BufferWords,  \* the bit reader's buffer
    Capacity,                   \* the music region
    Wrap, Start,                \* 2^32, CM33DSP_MUSIC_SOURCE_ADDR_START
    MinRepairSize,              \* 16: frames as short as this are not made up
    MaxRepairFrames,            \* 50: most frames that are made up for a gap
    MaxRepairSamples,           \* 5 * sample_rate: most samples
    Inputs,                     \* bound: streams and the files they became
    MaxExtraBody,               \* bound: what a damaged body may seem longer
    MaxWritten                  \* bound: frames kept in the history

ASSUME DecoderAssumption ==
    /\ BytesPerWord \in Nat \ {0} /\ BufferWords \in Nat \ {0}
    /\ Capacity \in Nat /\ Wrap \in Nat /\ Start \in Nat
    /\ Start + Capacity + BytesPerWord * BufferWords < Wrap
    /\ MinRepairSize \in Nat \ {0}
    /\ MaxRepairFrames \in Nat /\ MaxRepairSamples \in Nat
    /\ MaxExtraBody \in Nat /\ MaxWritten \in Nat

\* The region lies behind addresses as many as the reader's buffer has bytes. What is in
\* a file comes from the frames of its stream. Every frame has subframes, in which there
\* is no header of another, and a damaged header may ask for as many bytes of a block
\* size as any.
ASSUME InputsAssumption ==
    LET AnyByte == [is : STRING, of : Nat, at : Nat] IN
    /\ BytesPerWord * BufferWords <= Start
    /\ \A input \in Inputs :
          /\ input.file \in Seq(AnyByte) /\ Len(input.file) <= Capacity
          /\ input.frames \in Seq([size : Nat \ {0}, body : Seq(AnyByte) \ {<<>>},
                                   hints : 0..MaxExtraBody,
                                   verbatim : BOOLEAN, future : BOOLEAN])
          /\ \A f \in 1..Len(input.frames) : \A i \in 1..Len(input.frames[f].body) :
                input.frames[f].body[i].is # "parameters"
          /\ \A i \in 1..Len(input.file) :
                input.file[i].is = "parameters" => input.file[i].of \in 1..Len(input.frames)

VARIABLES
    sram, lengthWord, sramReadAddr, filesize, load,
    br,                     \* the bit reader
    input,                  \* the stream of this run and the file it became
    state,                  \* protected_->state
    pc,                     \* what is read next, or "returned"
    raw,                    \* raw_header
    skip,                   \* bytes of a metadata block, or of a body, to come
    cached, lookahead,
    last_seen_framesync,
    has_stream_info, fixed_block_size,
    frame,                  \* the frame being read
    last_frame,             \* the frame last written, or NoFrame
    gap,                    \* padding_samples_needed
    zeroed,                 \* samples of output that silence was put over
    written,                \* history: what the client was given
    beyond                  \* history: bytes in the buffer that are not of the file

fsVars == <<sram, lengthWord, sramReadAddr, filesize, load>>
frameVars == <<fixed_block_size, frame, last_frame, gap, zeroed, written>>
syncVars == <<cached, lookahead, last_seen_framesync>>
fileVars == <<fsVars, beyond, input>>
vars == <<fileVars, br, state, pc, raw, skip, has_stream_info,
          syncVars, frameVars>>

BitsPerByte == 8
Fs == INSTANCE VirtualFs WITH SeekEnd <- Capacity, ReadSize <- 1
Reader == INSTANCE BitReader WITH Capacity <- BufferWords

-------------------------------------------------------------------------------
(* Streams *)

Byte(is, of, at) == [is |-> is, of |-> of, at |-> at]
FF == Byte("ff", 0, 0)
Sync2 == Byte("sync2", 0, 0)        \* x >> 1 = 0x7c
Other == Byte("other", 0, 0)
Marker == Byte("marker", 0, 0)      \* the four bytes of FLAC__STREAM_SYNC_STRING
StreamInfo(last) == Byte("streaminfo", last, 0)     \* the whole block, last is 0 or 1
Block(length, last) == Byte("block", last, length)  \* the header of another

\* A frame is [size, body, hints, verbatim, future]: its block size, the bytes of its
\* subframes, those of its block size in the header, whether samples of a fixed width
\* follow the first byte of its body, and whether reserved bits make it unparseable.
\* Frames are numbered from 0, frames[f] has number f - 1.
Header(frames, f) ==
    <<FF, Sync2, Byte("parameters", f, 1), Byte("parameters", f, 2),
      Byte("number", f, 1)>>
        \o [i \in 1..frames[f].hints |-> Byte("blocksize", f, i)]
        \o <<Byte("crc8", f, 1)>>
UpToCrc(frames, f) == Header(frames, f) \o frames[f].body
Crc16(f) == <<Byte("crc16", f, 1), Byte("crc16", f, 2)>>
Whole(frames, f) == UpToCrc(frames, f) \o Crc16(f)

\* A stream as the encoder writes it: STREAMINFO, another block, the frames
Metadata == <<Marker, StreamInfo(0), Block(1, 1), Other>>
Stream(frames) ==
    Metadata \o FlattenSeq([f \in 1..Len(frames) |-> Whole(frames, f)])

Frames == input.frames
NoFrame == [of |-> 0, at |-> 0, size |-> 0, next |-> 0]
Silence == 0

-------------------------------------------------------------------------------
(* The decoder's input *)

Init ==
    /\ input \in Inputs
    /\ lengthWord = Len(input.file)
    /\ sram = [a \in Fs!Addr |-> IF a < lengthWord THEN input.file[a + 1] ELSE Other]
    /\ sramReadAddr = 0 /\ filesize = lengthWord /\ load = Fs!NotLoading
    /\ br = [Reader!NewReader EXCEPT !.buffer = [a \in Reader!Addr |-> Other]]
    /\ state = "SEARCH_FOR_METADATA" /\ pc = "marker" /\ raw = <<>> /\ skip = 0
    /\ cached = FALSE /\ lookahead = Other /\ last_seen_framesync = 0
    /\ has_stream_info = FALSE /\ fixed_block_size = 0
    /\ frame = NoFrame /\ last_frame = NoFrame
    /\ gap = 0 /\ zeroed = 0 /\ written = <<>> /\ beyond = 0

InFrame == state = "READ_FRAME"

\* The CRC that runs on outside of a frame is read by nobody and not kept here.
Kept(b) == IF InFrame THEN b ELSE [b EXCEPT !.read_crc16 = <<>>]

\* What virtual_fs_api_readbuf_autoMovePr copies, beside the region anything
Copied(n) ==
    LET bytes == Fs!ReadBytes(n)
    IN [i \in 1..Len(bytes) |-> IF bytes[i] = Fs!NoByte THEN Other ELSE bytes[i]]

\* file_read_callback_: what is in memory from target on when it is done, what it
\* copied and behind that what was there before. It leaves *bytes as it is, so the
\* reader takes all of it as stored, however little was left of the file.
Stored(b, target, n) ==
    LET memory == Reader!TailForClient(b)
        copied == Copied(n)
    IN [i \in 1..n |-> IF i <= Len(copied) THEN copied[i]
                       ELSE memory[Reader!MemoryOrder(target + i - 1)]]

\* Bytes that the next step reads: frame_sync_ and find_metadata_ take the
\* lookahead instead when there is one; the CRC-16 is one read of two bytes.
Reads ==
    CASE pc \in {"returned", "bad", "gap"} -> 0
      [] pc \in {"marker", "sync"} -> IF cached THEN 0 ELSE 1
      [] pc = "crc16" -> 2
      [] pc = "skip" -> IF skip = 0 THEN 0 ELSE 1
      [] OTHER -> 1
Ready == Reader!Unconsumed(br) >= Reads * BitsPerByte

Next1(i) == br.buffer[Reader!Consumed(br) \div BitsPerByte + i - 1]
Read == br' = Reader!Consume(br, Reads * BitsPerByte)

\* A read in a subframe or of the CRC-16 that meets the end makes the frame a bad
\* one; any other makes process_until_end_of_stream return.
EndOfStream ==
    /\ state' = "END_OF_STREAM"
    /\ pc' = IF pc \in {"body", "crc16"} THEN "bad" ELSE "returned"

\* bitreader_read_from_client_ over read_callback_ and file_read_callback_. The
\* check for the end that virtual_fs_api_readbuf_autoMovePr repeats says nothing
\* new, and *bytes = 0 is ruled out by BufferNeverTooSmall.
Refill ==
    /\ ~Ready
    /\ \E b \in {Kept(Reader!BeforeRead(br))} :     \* TLC evaluates b only once
          LET n == Reader!SpaceLeft(b) IN
          /\ IF Fs!Eof
             THEN br' = Reader!NotFilled(b, <<>>) /\ EndOfStream /\ UNCHANGED beyond
             ELSE /\ \E data \in {Stored(b, Reader!Available(b), n)} :
                        br' = Reader!Filled(b, data)
                  /\ beyond' = beyond + n - Len(Copied(n))
                  /\ UNCHANGED <<state, pc>>
          /\ Fs!ReadBuf(n)
    /\ UNCHANGED <<sram, lengthWord, load, input, raw, skip, has_stream_info,
                   syncVars, frameVars>>

\* get_decode_position, an unsigned subtraction, where the bytes behind the end
\* of the file count as read from it
DecodePosition(b) == Fs!Minus(Fs!Tell, Reader!Unconsumed(b) \div BitsPerByte)

-------------------------------------------------------------------------------
(* Metadata *)

\* Mutant: the lookahead is kept when it was taken.
TakeKeepsLookahead ==
    IF cached THEN UNCHANGED <<cached, lookahead, br>>
    ELSE Read /\ UNCHANGED <<cached, lookahead>>

\* The lookahead, when there is one, in the place of the next byte
Take == IF cached THEN cached' = FALSE /\ UNCHANGED <<lookahead, br>>
        ELSE Read /\ UNCHANGED <<cached, lookahead>>
Taken == IF cached THEN lookahead ELSE Next1(1)

\* A second 16#ff may be the first byte of the sync.
LookAhead(x) == cached' = TRUE /\ lookahead' = x

\* read_frame_ starts with the CRC over the two bytes of the sync.
StartFrame(b) ==
    /\ state' = "READ_FRAME" /\ pc' = "parameters" /\ raw' = <<FF, Sync2>>
    /\ br' = Reader!ResetReadCrc16(b, <<FF, Sync2>>)

FindMetadata ==
    /\ pc = "marker" /\ Ready
    /\ Take
    /\ \/ Taken = Marker /\ state' = "READ_METADATA" /\ pc' = "metadata"
       \/ Taken = FF /\ pc' = "marker2" /\ UNCHANGED state
       \/ Taken \notin {FF, Marker} /\ UNCHANGED <<state, pc>>
    /\ UNCHANGED <<fileVars, raw, skip, last_seen_framesync, has_stream_info, frameVars>>

\* A frame in front of any metadata: its place is not remembered.
FindMetadata2 ==
    /\ pc = "marker2" /\ Ready
    /\ \/ /\ Next1(1) = Sync2
          /\ StartFrame(Reader!Consume(br, BitsPerByte))
          /\ UNCHANGED <<cached, lookahead>>
       \/ /\ Next1(1) = FF /\ LookAhead(FF) /\ Read
          /\ pc' = "marker" /\ UNCHANGED <<state, raw>>
       \/ /\ Next1(1) \notin {FF, Sync2} /\ Read
          /\ pc' = "marker" /\ UNCHANGED <<state, raw, cached, lookahead>>
    /\ UNCHANGED <<fileVars, skip, last_seen_framesync, has_stream_info, frameVars>>

AfterBlock(last) ==
    IF last = 1 THEN state' = "SEARCH_FOR_FRAME_SYNC" /\ pc' = "sync"
    ELSE pc' = "metadata" /\ UNCHANGED state

\* read_metadata_: STREAMINFO, or the header of a block that the filter skips.
\* Other bytes are a block header of any length.
ReadMetadata ==
    /\ pc = "metadata" /\ Ready /\ Read
    /\ \/ /\ Next1(1).is = "streaminfo"
          /\ has_stream_info' = TRUE
          /\ AfterBlock(Next1(1).of)
          /\ UNCHANGED <<raw, skip>>
       \/ /\ Next1(1).is = "block"
          /\ skip' = Next1(1).at /\ raw' = <<Next1(1)>> /\ pc' = "skip"
          /\ UNCHANGED <<state, has_stream_info>>
       \/ /\ Next1(1).is \notin {"streaminfo", "block"}
          /\ \E n \in 0..MaxExtraBody, last \in 0..1 :
                skip' = n /\ raw' = <<Block(n, last)>>
          /\ pc' = "skip" /\ UNCHANGED <<state, has_stream_info>>
    /\ UNCHANGED <<fileVars, syncVars, frameVars>>

SkipBlock ==
    /\ pc = "skip" /\ Ready /\ Read
    /\ IF skip > 0 THEN skip' = skip - 1 /\ UNCHANGED <<state, pc, raw>>
       ELSE AfterBlock(raw[1].of) /\ raw' = <<>> /\ UNCHANGED skip
    /\ UNCHANGED <<fileVars, has_stream_info, syncVars, frameVars>>

-------------------------------------------------------------------------------
(* frame_sync_ *)

SearchSync ==
    /\ pc = "sync" /\ Ready
    /\ Take
    /\ pc' = IF Taken = FF THEN "sync2" ELSE "sync"
    /\ UNCHANGED <<fileVars, state, raw, skip, last_seen_framesync,
                   has_stream_info, frameVars>>

SearchSync2 ==
    /\ pc = "sync2" /\ Ready
    /\ LET b == Reader!Consume(br, BitsPerByte) IN
       \/ /\ Next1(1) = Sync2
          /\ StartFrame(Reader!SetFramesyncLocation(b))
          /\ last_seen_framesync' = DecodePosition(b)
          /\ UNCHANGED <<cached, lookahead>>
       \/ /\ Next1(1) = FF /\ LookAhead(FF)
          /\ br' = b /\ pc' = "sync" /\ UNCHANGED <<state, raw, last_seen_framesync>>
       \/ /\ Next1(1) \notin {FF, Sync2}
          /\ br' = b /\ pc' = "sync" /\ UNCHANGED <<state, raw, syncVars>>
    /\ UNCHANGED <<fileVars, skip, has_stream_info, frameVars>>

-------------------------------------------------------------------------------
(* read_frame_header_ *)

\* The header is bad: the search goes on behind the bytes that were read.
BadHeader == state' = "SEARCH_FOR_FRAME_SYNC" /\ pc' = "sync" /\ raw' = <<>>

\* 16#ff is in no header; parameters of no frame may name a sample rate that there
\* is not.
ReadParameters ==
    /\ pc = "parameters" /\ Ready /\ Read
    /\ \/ Next1(1) = FF /\ LookAhead(FF) /\ BadHeader
       \/ /\ Next1(1) # FF
          /\ raw' = Append(raw, Next1(1))
          /\ pc' = IF Len(raw) = 3 THEN "number" ELSE "parameters"
          /\ UNCHANGED <<state, cached, lookahead>>
       \/ /\ Next1(1) # FF /\ Len(raw) = 3 /\ raw[3].is # "parameters"
          /\ BadHeader /\ UNCHANGED <<cached, lookahead>>
    /\ UNCHANGED <<fileVars, skip, last_seen_framesync, has_stream_info, frameVars>>

\* How many bytes of a block size the parameters ask for
Hints == IF raw[3].is = "parameters" /\ raw[3].at = 1 THEN {Frames[raw[3].of].hints}
         ELSE 0..MaxExtraBody

NumberDone ==
    \E n \in Hints : skip' = n /\ pc' = IF n = 0 THEN "crc8" ELSE "blocksize"

\* read_utf8_uint32: 16#ff starts no number and is nothing else in one, a second
\* byte of a sync starts a longer one; what else is not a frame's number may be
\* any. The byte that showed the number to be bad is looked at again.
ReadNumber ==
    /\ pc \in {"number", "number2"} /\ Ready /\ Read
    /\ \/ /\ Next1(1) \notin {FF, Sync2}
          /\ raw' = Append(raw, Next1(1))
          /\ NumberDone /\ UNCHANGED <<state, cached, lookahead>>
       \/ /\ pc = "number" /\ Next1(1) # FF /\ Next1(1).is # "number"
          /\ raw' = Append(raw, Next1(1))
          /\ pc' = "number2" /\ UNCHANGED <<state, skip, cached, lookahead>>
       \/ /\ pc = "number" => Next1(1) # Sync2 /\ Next1(1).is # "number"
          /\ LookAhead(Next1(1)) /\ BadHeader /\ UNCHANGED skip
    /\ UNCHANGED <<fileVars, last_seen_framesync, has_stream_info, frameVars>>

ReadBlockSize ==
    /\ pc = "blocksize" /\ Ready /\ Read
    /\ raw' = Append(raw, Next1(1))
    /\ skip' = skip - 1
    /\ pc' = IF skip = 1 THEN "crc8" ELSE "blocksize"
    /\ UNCHANGED <<fileVars, state, has_stream_info, syncVars, frameVars>>

BlockSize == Frames[1].size     \* minimum and maximum of STREAMINFO

\* Mutant: the number of a short last frame is taken times its own size.
LocatedByOwnSize(f) ==
    [of |-> f, at |-> Frames[f].size * (f - 1), size |-> Frames[f].size, next |-> 0]

\* The sample number from the frame number, and next_fixed_block_size
Located(f) ==
    LET number == f - 1
        size == Frames[f].size
        at(n, next) == [of |-> f, at |-> n * number, size |-> size, next |-> next]
    IN IF fixed_block_size # 0 THEN at(fixed_block_size, 0)
       ELSE IF has_stream_info THEN at(BlockSize, BlockSize)
       ELSE IF number = 0 THEN at(size, size)
       ELSE at(size, 0)

HeadersEndingIn(bytes) == {f \in 1..Len(Frames) : bytes = Header(Frames, f)}

ReadCrc8 ==
    LET header == Append(raw, Next1(1))
        good == HeadersEndingIn(header)
    IN /\ pc = "crc8" /\ Ready /\ Read
       /\ \/ good = {} /\ BadHeader /\ UNCHANGED frame
          \/ \E f \in good :
                /\ frame' = Located(f)
                /\ IF Frames[f].future THEN BadHeader
                   ELSE raw' = header /\ pc' = "body" /\ UNCHANGED state
       /\ UNCHANGED <<fileVars, skip, has_stream_info, syncVars,
                      fixed_block_size, last_frame, gap, zeroed, written>>

-------------------------------------------------------------------------------
(* read_frame_ *)

BadFrame == state' = "SEARCH_FOR_FRAME_SYNC" /\ pc' = "bad" /\ raw' = <<>>

\* The subframes and the padding. How long they are is settled in a frame that is
\* whole so far, and in one of verbatim samples. Others may end anywhere, turn out to
\* be wrong, or to have more wasted bits than their samples have: then read_subframe_
\* returns without a new state.
ReadBody ==
    LET bytes == Append(raw, Next1(1))
        whole == UpToCrc(Frames, frame.of)
        settled == \/ IsPrefix(bytes, whole)
                   \/ /\ Frames[frame.of].verbatim
                      /\ IsPrefix(Append(Header(Frames, frame.of), Head(Frames[frame.of].body)),
                                  bytes)
        b == Reader!Consume(br, BitsPerByte)
    IN /\ pc = "body" /\ Ready
       /\ \/ /\ Len(bytes) < Len(whole) + (IF settled THEN 0 ELSE MaxExtraBody)
             /\ br' = b /\ raw' = bytes /\ UNCHANGED <<state, pc>>
          \/ /\ settled => Len(bytes) = Len(whole)
             /\ br' = Reader!GetReadCrc16(b) /\ raw' = br'.read_crc16  \* frame_crc
             /\ pc' = "crc16" /\ UNCHANGED state
          \/ ~settled /\ br' = b /\ BadFrame
          \/ ~settled /\ br' = b /\ pc' = "returned" /\ UNCHANGED <<state, raw>>
       /\ UNCHANGED <<fileVars, skip, has_stream_info, syncVars, frameVars>>

LastEnd == last_frame.at + last_frame.size

\* padding_samples_needed: what is missing in front of the frame, when there was a
\* frame before, at most so many frames or samples. All frames of a stream have the
\* same rate, channels and bits per sample.
Padding ==
    IF last_frame # NoFrame /\ LastEnd < frame.at /\ last_frame.size >= MinRepairSize
    THEN Min({frame.at - LastEnd, MaxRepairSamples, MaxRepairFrames * last_frame.size})
    ELSE 0

ReadCrc16 ==
    /\ pc = "crc16" /\ Ready /\ Read
    /\ \/ /\ raw = UpToCrc(Frames, frame.of)
          /\ <<Next1(1), Next1(2)>> = Crc16(frame.of)
          /\ pc' = "gap" /\ gap' = Padding /\ zeroed' = 0
          /\ raw' = <<>> /\ UNCHANGED state
       \/ /\ \/ raw # UpToCrc(Frames, frame.of)
             \/ <<Next1(1), Next1(2)>> # Crc16(frame.of)
          /\ BadFrame /\ UNCHANGED <<gap, zeroed>>
    /\ UNCHANGED <<fileVars, skip, has_stream_info, syncVars,
                   fixed_block_size, frame, last_frame, written>>

\* write_audio_frame_to_client_: the client goes on or aborts.
Write(f, zeros) ==
    /\ last_frame' = f
    /\ written' = IF Len(written) < MaxWritten
                  THEN Append(written, [of |-> f.of, at |-> f.at, size |-> f.size,
                                        zeroed |-> zeros])
                  ELSE written
Aborted == state' = "ABORTED" /\ pc' = "returned"

\* One frame of silence. It is made in output, which holds the frame that was read.
WriteSilence ==
    LET size == Min({gap, last_frame.size}) IN
    /\ pc = "gap" /\ gap > 0
    /\ Write([of |-> Silence, at |-> LastEnd, size |-> size, next |-> 0], size)
    /\ gap' = gap - size
    /\ zeroed' = IF size > zeroed THEN size ELSE zeroed
    /\ UNCHANGED <<state, pc>> \/ Aborted
    /\ UNCHANGED <<fileVars, br, raw, skip, has_stream_info, syncVars,
                   fixed_block_size, frame>>

WriteFrame ==
    /\ pc = "gap" /\ gap = 0
    /\ fixed_block_size' = IF frame.next # 0 THEN frame.next ELSE fixed_block_size
    /\ Write(frame, Min({zeroed, frame.size}))
    /\ \/ state' = "SEARCH_FOR_FRAME_SYNC" /\ pc' = "sync"
       \/ Aborted
    /\ UNCHANGED <<fileVars, br, raw, skip, has_stream_info, syncVars, frame, gap, zeroed>>

\* Mutant: the search goes on behind what was read of the bad frame.
RewindStays ==
    /\ pc = "bad" /\ state' = "SEARCH_FOR_FRAME_SYNC" /\ pc' = "sync"
    /\ UNCHANGED <<fileVars, br, raw, skip, has_stream_info, syncVars, frameVars>>

\* Mutant: the buffer is kept over the seek.
RewindKeepsBuffer ==
    LET seeks == ~Reader!FramesyncInBuffer(br) /\ last_seen_framesync # 0 IN
    /\ pc = "bad" /\ state' = "SEARCH_FOR_FRAME_SYNC" /\ pc' = "sync"
    /\ IF seeks THEN Fs!Seek(last_seen_framesync) ELSE UNCHANGED <<sramReadAddr, filesize>>
    /\ br' = Reader!RewindToAfterLastSeenFramesync(br)
    /\ UNCHANGED <<sram, lengthWord, load, input, beyond, raw, skip, has_stream_info,
                   syncVars, frameVars>>

\* A frame that is not good, or not all there: back to behind its sync, in the buffer
\* or by a seek. When neither is possible the buffer is read from its start.
Rewind ==
    LET b == Reader!RewindToAfterLastSeenFramesync(br)
        seeks == ~Reader!FramesyncInBuffer(br) /\ last_seen_framesync # 0
        refused == seeks /\ Fs!SeekRefused(last_seen_framesync)
    IN /\ pc = "bad"
       /\ IF seeks THEN Fs!Seek(last_seen_framesync) ELSE UNCHANGED <<sramReadAddr, filesize>>
       /\ br' = IF seeks /\ ~refused THEN Reader!Clear(b) ELSE b
       /\ beyond' = IF seeks /\ ~refused THEN 0 ELSE beyond
       /\ state' = IF refused THEN "SEEK_ERROR" ELSE "SEARCH_FOR_FRAME_SYNC"
       /\ pc' = IF refused THEN "returned" ELSE "sync"
       /\ UNCHANGED <<sram, lengthWord, load, input, raw, skip, has_stream_info,
                      syncVars, frameVars>>

-------------------------------------------------------------------------------

Go ==
    \/ Refill
    \/ FindMetadata \/ FindMetadata2 \/ ReadMetadata \/ SkipBlock
    \/ SearchSync \/ SearchSync2
    \/ ReadParameters \/ ReadNumber \/ ReadBlockSize \/ ReadCrc8
    \/ ReadBody \/ ReadCrc16 \/ WriteSilence \/ WriteFrame \/ Rewind
Returned == pc = "returned" /\ UNCHANGED vars
Next == Go \/ Returned

\* The decoder is a loop: it goes on as long as it did not return.
Spec == Init /\ [][Next]_vars /\ WF_vars(Go)

-------------------------------------------------------------------------------
(* Properties *)

Bytes == {FF, Sync2, Other, Marker} \cup
         {input.file[i] : i \in 1..Len(input.file)}
WrittenFrame == [of : 0..Len(Frames), at : Nat, size : Nat \ {0}, zeroed : Nat]
FrameRead == [of : 0..Len(Frames), at : Nat, size : Nat, next : Nat]

TypeOK ==
    /\ sram \in [Fs!Addr -> Bytes] /\ sramReadAddr \in 0..(Wrap - 1)
    /\ filesize = lengthWord /\ lengthWord = Len(input.file)
    /\ br.words \in 0..BufferWords /\ br.bytes \in 0..(BytesPerWord - 1)
    /\ br.consumed_words \in 0..BufferWords
    /\ br.consumed_bits \in 0..(Reader!BitsPerWord - 1)
    /\ state \in {"SEARCH_FOR_METADATA", "READ_METADATA", "SEARCH_FOR_FRAME_SYNC",
                  "READ_FRAME", "END_OF_STREAM", "ABORTED", "SEEK_ERROR"}
    /\ pc \in {"marker", "marker2", "metadata", "skip", "sync", "sync2", "parameters",
               "number", "number2", "blocksize", "crc8", "body", "crc16", "bad",
               "gap", "returned"}
    /\ raw \in Seq(Bytes \cup {Block(n, last) : n \in 0..MaxExtraBody, last \in 0..1})
    /\ skip \in Nat /\ cached \in BOOLEAN /\ lookahead \in Bytes
    /\ last_seen_framesync \in 0..(Wrap - 1)
    /\ has_stream_info \in BOOLEAN /\ fixed_block_size \in Nat
    /\ frame \in FrameRead /\ last_frame \in FrameRead
    /\ gap \in Nat /\ zeroed \in Nat /\ written \in Seq(WrittenFrame)
    /\ beyond \in 0..(BufferWords * BytesPerWord)

Ended == pc = "returned" /\ state = "END_OF_STREAM"
Unread == Reader!Unconsumed(br) \div BitsPerByte
NextAt == Reader!Consumed(br) \div BitsPerByte

\* Bytes of the file that are in the buffer and not taken, and where in the file the
\* decoder is, as long as it did not take bytes from behind its end
UnreadOfFile == Unread - beyond
InFile == beyond <= Unread
Position == sramReadAddr - UnreadOfFile
FileByte(p) == IF p \in 1..Len(input.file) THEN input.file[p] ELSE Other

\* Refills, shifts of the buffer, rewinds and seeks neither lose nor repeat nor
\* reorder a byte: what the decoder takes next is the file from where it is. The byte
\* that is kept to be looked at again is the one that was read last, never one from
\* before a refill, a rewind or another search. In a frame, the place to seek to when
\* it is bad is right behind its sync; and so is the place in the buffer, as long as
\* the sync is there.
ReaderKeepsItsPlace ==
    /\ InFile =>
          /\ \A i \in 0..(UnreadOfFile - 1) :
                br.buffer[NextAt + i] = FileByte(Position + i + 1)
          /\ cached => lookahead = FileByte(Position)
    /\ InFrame /\ last_seen_framesync # 0 =>
          /\ beyond = 0 => /\ FileByte(last_seen_framesync) = Sync2
                           /\ FileByte(last_seen_framesync - 1) = FF
          /\ Reader!FramesyncInBuffer(br) /\ br.last_seen_framesync > 0 =>
                 br.buffer[br.last_seen_framesync - 1] = Sync2

\* With a STREAMINFO every frame is given the place it has in the stream, whatever was
\* lost in front of it and however short it is. A gap between two frames is filled
\* with silence, up to the frame or up to the limits, and never beyond; no gap is left
\* but behind the limits or a tiny frame.
End(w) == w.at + w.size
Silent(i, j) == \A k \in (i + 1)..(j - 1) : written[k].of = Silence
FramesAreInPlace ==
    /\ has_stream_info =>
          \A i \in 1..Len(written) :
              written[i].of # Silence => written[i].at = BlockSize * (written[i].of - 1)
    /\ \A i, j \in 1..Len(written) :
          i < j /\ written[i].of # Silence /\ written[j].of # Silence /\ Silent(i, j)
                /\ End(written[i]) < written[j].at =>
              LET gap_ == written[j].at - End(written[i])
                  most == IF written[i].size < MinRepairSize THEN 0
                          ELSE Min({MaxRepairSamples, MaxRepairFrames * written[i].size})
              IN /\ End(written[j - 1]) - End(written[i]) = Min({gap_, most})
                 /\ \A k \in i..(j - 2) : written[k + 1].at = End(written[k])

\* Places in the file where frame f stands whole
Starts(f) ==
    {p \in 1..Len(input.file) : IsPrefix(Whole(Frames, f), SubSeq(input.file, p, Len(input.file)))}
LongestHeader == 7 + MaxExtraBody
SyncBefore(p) ==
    \E q \in (p - LongestHeader)..(p - 1) : FileByte(q) = FF /\ FileByte(q + 1) = Sync2

\* Damage stays where it is: when the end is reached, every frame that is whole in
\* the file was written, unless a sync in front of it made it a part of what looked
\* like a header, or the file ends with it: then its last byte may not be read. In a file
\* that is shorter than the buffer get_decode_position may wrap around, against its own
\* assertion: then a bad frame is rewound to an address in front of the region, which is
\* taken for the end, and what is behind its sync is never read.
DamageIsLocal ==
    Ended /\ IsPrefix(Metadata, input.file) /\ Len(written) < MaxWritten
          /\ BytesPerWord * BufferWords <= Len(input.file) =>
        \A f \in 1..Len(Frames) : \A p \in Starts(f) :
            \/ \E i \in 1..Len(written) : written[i].of = f
            \/ SyncBefore(p) \/ Frames[f].future
            \/ p + Len(Whole(Frames, f)) - 1 = Len(input.file)

\* The search goes on behind the sync of a bad frame: as long as no byte from behind
\* the end of the file is in the buffer the decoder gets on in the file.
SearchGoesOn ==
    [][pc = "bad" /\ pc' = "sync" /\ beyond = 0 /\ last_seen_framesync # 0 =>
           Position' >= last_seen_framesync]_vars

Intact == input.file = Stream(Frames) /\ \A f \in 1..Len(Frames) : ~Frames[f].future
Numbers == [f \in 1..Len(Frames) |-> f]

\* A file that is not damaged comes to its end with its frames written, once each and
\* in order. Only the last one may be missing, and only when a refill left the last
\* byte of the file, because the end is reported one byte early.
IntactIsDecoded ==
    Intact =>
        /\ [](pc = "bad" => state = "END_OF_STREAM" /\ Fs!Tell + 1 = filesize)
        /\ <>(/\ pc = "returned"
              /\ state = "END_OF_STREAM" =>
                     /\ [i \in 1..Len(written) |-> written[i].of] \in {Numbers, Front(Numbers)}
                     /\ \A i \in 1..Len(written) : written[i].zeroed = 0)

\* What stream_decoder.h says of process_until_end_of_stream, that it goes on until
\* the end: whatever the file, it returns.
DecodingEnds == <>(pc = "returned")

\* What is written of a frame is what was in it ("add silence to compensate" means
\* the frames that are missing).
FramesKeepTheirSamples == \A i \in 1..Len(written) :
    written[i].of # Silence => written[i].zeroed = 0
===============================================================================
