----------------------------- MODULE StreamEncoder -----------------------------
(***************************************************************************)
(* The stream encoder of libFLAC (stream_encoder.c) as my_EncodeDemo runs  *)
(* it on either core: a stereo song is fed to process_interleaved in       *)
(* blocks of READSIZE, with verification on, and finish writes the last    *)
(* frame and goes back to complete STREAMINFO.                             *)
(*                                                                         *)
(* A subframe is its signal without its wasted bits: predictors and        *)
(* residual coding, which give it back as it was, are left out, and so are *)
(* the bits they come to: the channel assignment and the size of a frame   *)
(* may be any. A file is a sequence of units, one for each part of a       *)
(* metadata block and FrameSizes units for a frame.                        *)
(***************************************************************************)
EXTENDS Integers, Sequences, SequencesExt

CONSTANTS
    Blocksize,          \* protected_->blocksize
    BitsPerSample,      \* protected_->bits_per_sample, below 32
    LooseFrames,        \* loose_mid_side_stereo_frames
    NoFramesize,        \* 2^24 - 1, what min_framesize starts with
    FrameSizes,         \* bound: units of a frame
    Encodes             \* bound: songs and how they are encoded

ASSUME EncoderAssumption ==
    /\ Blocksize \in Nat \ {0} /\ BitsPerSample \in Nat \ {0}
    /\ LooseFrames \in Nat \ {0}
    /\ FrameSizes \subseteq Nat \ {0}
    /\ NoFramesize \in Nat /\ \A n \in FrameSizes : n < NoFramesize
    /\ Encodes \subseteq [song : Seq(Int \X Int),            \* pairs of samples
                          readsize : Nat \ {0},              \* READSIZE
                          stereo : {"independent", "loose", "full"},  \* by the level
                          writemode : {"card", "sram"},
                          room : Nat]                        \* of the card, in units

\* What the proofs have to be told of powers
ASSUME PowersAssumption == 2^0 = 1 /\ \A w \in 0..BitsPerSample : 2^w \in Nat \ {0}

VARIABLES
    encode,                 \* one of Encodes
    pc, ok,                 \* of my_EncodeDemo
    buffer,                 \* what process_interleaved has not yet taken
    at,                     \* samples read from the song
    state,                  \* protected_->state
    error, update,          \* in finish; in update_metadata_
    signal, mid_side,       \* integer_signal, integer_signal_mid_side
    frame_count, last_channel_assignment,       \* loose_mid_side_stereo_frame_count
    current_frame_number,
    info,                   \* streaminfo: total_samples, min_, max_framesize, md5sum
    fifo,                   \* verify.input_fifo
    file, fp, broken,       \* the output file, as FatFs keeps it
    streaminfo_offset,
    written,                \* bytes_written, samples_written, frames_written
    progress,               \* history: what progress_callback was told last
    frames,                 \* history: the frames that were passed on
    audio,                  \* history: what they decode to
    failed                  \* history: something failed, or a sample was too large

clientVars == <<ok, buffer, at>>
looseVars == <<frame_count, last_channel_assignment>>
historyVars == <<frames, audio>>
frameVars == <<signal, mid_side, looseVars, current_frame_number, info, fifo, historyVars>>
cardVars == <<file, fp, broken>>
outputVars == <<cardVars, written, progress>>
vars == <<encode, pc, clientVars, state, error, update, frameVars, outputVars, streaminfo_offset, failed>>

song == encode.song
stereo == encode.stereo
writemode == encode.writemode
room == encode.room

-------------------------------------------------------------------------------
(* Samples, channels and subframes *)

Channels == 1..2
Empty == [c \in Channels |-> <<>>]
Side(l, r) == l - r
Mid(l, r) == (l + r) \div 2
InRange(x) == x \in -(2^(BitsPerSample - 1))..(2^(BitsPerSample - 1) - 1)

\* get_wasted_bits_: zeros at the end of every sample, none when all are 0
Wasted(s, n) ==
    IF \A i \in 1..n : s[i] = 0 THEN 0
    ELSE Max({w \in 0..BitsPerSample : \A i \in 1..n : s[i] % 2^w = 0})

\* Mutant: the sample behind the block is shifted, too.
ShiftedAll(s, n) == [i \in DOMAIN s |-> s[i] \div 2^Wasted(s, n)]

\* The shift is in place, over the block and not the sample behind it.
Shifted(s, n) ==
    [i \in DOMAIN s |-> IF i <= n THEN s[i] \div 2^Wasted(s, n) ELSE s[i]]

Subframe(s, n) == [wasted |-> Wasted(s, n), signal |-> [i \in 1..n |-> Shifted(s, n)[i]]]

Coding(assignment, left_right, ms) ==
    CASE assignment = "independent" -> left_right
      [] assignment = "left_side" -> <<left_right[1], ms[2]>>
      [] assignment = "right_side" -> <<ms[2], left_right[2]>>
      [] assignment = "mid_side" -> ms

\* undo_channel_coding of the decoder
Undo(assignment, x, y) ==
    CASE assignment = "independent" -> <<x, y>>
      [] assignment = "left_side" -> <<x, x - y>>
      [] assignment = "right_side" -> <<x + y, y>>
      [] assignment = "mid_side" -> LET mid == 2 * x + (y % 2)
                                    IN <<(mid + y) \div 2, (mid - y) \div 2>>

\* What the verify decoder makes of a frame
Decoded(frame) ==
    LET channel(c, i) == frame.subframes[c].signal[i] * 2^frame.subframes[c].wasted
    IN [i \in 1..frame.size |-> Undo(frame.assignment, channel(1, i), channel(2, i))]

-------------------------------------------------------------------------------
(* The output file *)

\* A unit of the file
Unit(is, value) == [is |-> is, value |-> value]
NoMd5 == <<>>
Magic == <<Unit("magic", 0)>>
StreamInfo(framesizes, total, md5) ==
    <<Unit("streaminfo", Blocksize), Unit("framesizes", framesizes),
      Unit("total", total), Unit("md5", md5)>>
UserBlocks == <<Unit("vorbis_comment", 0), Unit("padding", 0)>>
FrameUnits(frame) == [i \in 1..frame.bytes |-> Unit(i, frame)]

\* f_write of FatFs: with a full card it writes what fits and returns FR_OK; an
\* error stays with the file.
FWrite(units) ==
    LET fits == Max({0, Min({Len(units), room - fp})})
        Put(n) == /\ file' = SubSeq(file, 1, fp) \o SubSeq(units, 1, n)
                                 \o SubSeq(file, fp + n + 1, Len(file))
                  /\ fp' = fp + n
    IN \/ ~broken /\ Put(fits) /\ UNCHANGED broken
       \/ ~broken /\ broken' = TRUE /\ \E n \in 0..fits : Put(n)
       \/ broken /\ UNCHANGED cardVars

\* f_lseek: behind the end of a file that the card has no room for, the end
FLseek(p) ==
    \/ ~broken /\ fp' = Min({p, Len(file)}) /\ UNCHANGED <<file, broken>>
    \/ broken' = TRUE /\ UNCHANGED <<file, fp>>

\* Mutant: the counters are those of before this write.
ProgressBehind(units, samples) == written

\* file_write_callback_ tells the client what will have been written.
Progress(units, samples) ==
    [bytes |-> written.bytes + Len(units), samples |-> written.samples + samples,
     frames |-> written.frames + (IF samples > 0 THEN 1 ELSE 0)]

\* file_write_callback_: nothing is kept of output to SRAM.
WriteCallback(units, samples) ==
    IF writemode = "sram" THEN UNCHANGED <<cardVars, progress>>
    ELSE /\ FWrite(units)
         /\ progress' = IF ~broken' /\ samples > 0 THEN Progress(units, samples)
                        ELSE progress

\* write_frame_ and what write_bitbuffer_ does of it but the verification
WriteFrame(units, samples) ==
    /\ WriteCallback(units, samples)
    /\ written' = IF broken' THEN written
                  ELSE [bytes |-> written.bytes + Len(units),
                        samples |-> written.samples + samples,
                        frames |-> Max({written.frames, current_frame_number + 1})]

-------------------------------------------------------------------------------
(* Initialisation *)

Init ==
    /\ encode \in Encodes
    /\ pc = "open" /\ ok = TRUE /\ buffer = <<>> /\ at = 0 /\ state = "UNINITIALIZED"
    /\ error = FALSE /\ update = 1 /\ signal = Empty /\ mid_side = Empty
    /\ frame_count = 0 /\ last_channel_assignment = "independent"
    /\ current_frame_number = 0
    /\ info = [total |-> 0, min |-> NoFramesize, max |-> 0, md5 |-> NoMd5]
    /\ fifo = <<>> /\ file = <<>> /\ fp = 0 /\ broken = FALSE /\ streaminfo_offset = 0
    /\ written = [bytes |-> 0, samples |-> 0, frames |-> 0]
    /\ progress = written /\ frames = <<>> /\ audio = <<>> /\ failed = FALSE

\* What is left of a call for which memory is short
OutOfMemory == {"MEMORY_ALLOCATION_ERROR", "FRAMING_ERROR", "VERIFY_DECODER_ERROR"}

\* The setters of my_EncodeDemo, init_file_internal_, which opens the file, and
\* init_stream_internal_ up to its first write
Open ==
    /\ pc = "open"
    /\ \/ state' = "OK" /\ pc' = "magic" /\ UNCHANGED <<ok, failed>>
       \/ /\ state' \in OutOfMemory \cup {"UNINITIALIZED", "IO_ERROR"}
          /\ ok' = FALSE /\ failed' = TRUE /\ pc' = "finish"
    /\ UNCHANGED <<encode, buffer, at, error, update, frameVars, outputVars, streaminfo_offset>>

\* One block of metadata. The verify decoder takes them as they are.
WriteMetadata(here, units, next) ==
    /\ pc = here
    /\ \/ WriteFrame(units, 0) /\ state' = IF broken' THEN "CLIENT_ERROR" ELSE state
       \/ state' \in OutOfMemory /\ UNCHANGED outputVars
    /\ IF state' = "OK" THEN pc' = next /\ UNCHANGED <<ok, failed>>
       ELSE pc' = "finish" /\ ok' = FALSE /\ failed' = TRUE
    /\ UNCHANGED <<encode, buffer, at, error, update, frameVars>>

WriteMagic == WriteMetadata("magic", Magic, "streaminfo") /\ UNCHANGED streaminfo_offset

\* Mutant: the offset is looked for behind the block.
WriteStreamInfoLate ==
    /\ WriteMetadata("streaminfo", StreamInfo(<<0, 0>>, Len(song), NoMd5), "blocks")
    /\ streaminfo_offset' = IF writemode = "card" /\ state' = "OK" THEN fp' ELSE 0

\* The total is the estimate, which is what the header of the song says.
WriteStreamInfo ==
    /\ WriteMetadata("streaminfo", StreamInfo(<<0, 0>>, Len(song), NoMd5), "blocks")
    /\ streaminfo_offset' = IF writemode = "card" /\ state' \notin OutOfMemory THEN fp ELSE 0

WriteUserBlocks ==
    \/ WriteMetadata("blocks", <<UserBlocks[1]>>, "padding") /\ UNCHANGED streaminfo_offset
    \/ WriteMetadata("padding", <<UserBlocks[2]>>, "read") /\ UNCHANGED streaminfo_offset

-------------------------------------------------------------------------------
(* Frames *)

\* Mutant: the assignment is kept for one frame more.
CountOneMore(n) == IF n + 1 > LooseFrames THEN 0 ELSE n + 1

\* Frames since both codings were tried
Count(n) == IF n + 1 >= LooseFrames THEN 0 ELSE n + 1

WithMidSide == stereo # "independent"       \* do_mid_side_stereo
Decides == stereo # "loose" \/ frame_count = 0
DoIndependent == Decides \/ last_channel_assignment = "independent"
DoMidSide == WithMidSide /\ (Decides \/ last_channel_assignment # "independent")

Assignments ==
    (IF DoIndependent THEN {"independent"} ELSE {})
    \cup (IF DoMidSide THEN {"mid_side"} ELSE {})
    \cup (IF stereo = "full" THEN {"left_side", "right_side"} ELSE {})

\* process_subframes_
FrameOf(left_right, ms, size, assignment, bytes) ==
    LET coded == Coding(assignment, left_right, ms)
    IN [number |-> current_frame_number, size |-> size, assignment |-> assignment,
        subframes |-> [c \in Channels |-> Subframe(coded[c], size)], bytes |-> bytes]

\* process_frame_ over the first size samples of what is buffered, with input in the
\* verify FIFO. Memory may be short anywhere, also in the verify decoder; an encoder
\* that is not OK looks at nothing of the frame any more.
ProcessFrame(left_right, ms, input, size) ==
    LET md5 == info.md5 \o [i \in 1..size |-> <<left_right[1][i], left_right[2][i]>>]
    IN \/ /\ state' \in OutOfMemory
          /\ fifo' = input /\ failed' = TRUE
          /\ UNCHANGED <<looseVars, current_frame_number, info, historyVars, outputVars>>
       \/ \E assignment \in Assignments, bytes \in FrameSizes :
          LET frame == FrameOf(left_right, ms, size, assignment, bytes)
              same == Decoded(frame) = SubSeq(input, 1, size)
          IN /\ IF stereo = "loose" THEN frame_count' = Count(frame_count)
                ELSE UNCHANGED frame_count
             /\ last_channel_assignment' = assignment
             /\ \/ /\ ~same
                   /\ state' = "VERIFY_MISMATCH_IN_AUDIO_DATA"
                   /\ fifo' = input
                   /\ UNCHANGED <<current_frame_number, info, historyVars, outputVars, failed>>
                \/ /\ same
                   /\ fifo' = SubSeq(input, size + 1, Len(input))
                   /\ WriteFrame(FrameUnits(frame), size)
                   /\ failed' = (failed \/ broken')
                   /\ IF broken'
                      THEN /\ state' = "CLIENT_ERROR"
                           /\ UNCHANGED <<current_frame_number, info, historyVars>>
                      ELSE /\ current_frame_number' = current_frame_number + 1
                           /\ info' = [total |-> info.total + size, md5 |-> md5,
                                       min |-> Min({bytes, info.min}),
                                       max |-> Max({bytes, info.max})]
                           /\ frames' = Append(frames, frame)
                           /\ audio' = audio \o Decoded(frame)
                           /\ UNCHANGED state

-------------------------------------------------------------------------------
(* process_interleaved *)

Buffered == Len(signal[1])      \* current_sample_number

ReadBlock ==
    /\ pc = "read" /\ ok /\ at < Len(song)
    /\ LET need == Min({encode.readsize, Len(song) - at}) IN
       \/ /\ buffer' = SubSeq(song, at + 1, at + need) /\ at' = at + need
          /\ pc' = "process" /\ UNCHANGED ok
       \/ ok' = FALSE /\ pc' = "finish" /\ UNCHANGED <<buffer, at>>
    /\ UNCHANGED <<encode, state, error, update, frameVars, outputVars, streaminfo_offset, failed>>

AllRead ==
    /\ pc = "read" /\ (ok => at = Len(song))
    /\ pc' = "finish"
    /\ UNCHANGED <<encode, clientVars, state, error, update, frameVars, outputVars,
                   streaminfo_offset, failed>>

\* Samples of one turn of the loop, up to one more than a block
TurnSize == Min({Blocksize + 1 - Buffered, Len(buffer)})

\* Mutant: the buffers begin again empty.
OverreadForgotten(left_right, ms) == signal' = Empty /\ mid_side' = Empty

\* Mutant: the sample behind the block is moved in one of the buffers only.
OverreadOfSignal(left_right, ms) ==
    /\ signal' = [c \in Channels |-> <<left_right[c][Blocksize + 1]>>]
    /\ mid_side' = IF WithMidSide THEN [c \in Channels |-> <<ms[c][1]>>] ELSE ms

\* The sample that was read over the block begins the next one.
MoveOverread(left_right, ms) ==
    /\ signal' = [c \in Channels |-> <<left_right[c][Blocksize + 1]>>]
    /\ mid_side' = IF WithMidSide THEN [c \in Channels |-> <<ms[c][Blocksize + 1]>>] ELSE ms

\* A buffer after process_subframes_, which shifts the blocks that it codes
InPlace(s, coded) == IF coded THEN [c \in Channels |-> Shifted(s[c], Blocksize)] ELSE s

\* The buffers with the samples of a turn
WithLeftRight(taken) ==
    [c \in Channels |-> signal[c] \o [i \in 1..Len(taken) |-> taken[i][c]]]
WithMidAndSide(taken) ==
    IF WithMidSide
    THEN <<mid_side[1] \o [i \in 1..Len(taken) |-> Mid(taken[i][1], taken[i][2])],
           mid_side[2] \o [i \in 1..Len(taken) |-> Side(taken[i][1], taken[i][2])]>>
    ELSE mid_side

\* One turn of the loop. It processes a block when it has one sample more; the last
\* block is for finish.
Turn ==
    LET taken == SubSeq(buffer, 1, TurnSize)
        rest == SubSeq(buffer, TurnSize + 1, Len(buffer))
        left_right == WithLeftRight(taken)
        ms == WithMidAndSide(taken)
        input == fifo \o taken
        good == \A i \in 1..Len(taken) : \A c \in Channels : InRange(taken[i][c])
    IN /\ pc = "process"
       /\ \/ /\ ~good
             /\ state' = "CLIENT_ERROR" /\ fifo' = input /\ failed' = TRUE
             /\ UNCHANGED <<signal, mid_side, looseVars, current_frame_number, info, historyVars,
                            outputVars>>
          \/ /\ good /\ Buffered + TurnSize <= Blocksize
             /\ signal' = left_right /\ mid_side' = ms /\ fifo' = input
             /\ UNCHANGED <<state, looseVars, current_frame_number, info, historyVars,
                            outputVars, failed>>
          \/ /\ good /\ Buffered + TurnSize > Blocksize
             /\ ProcessFrame(left_right, ms, input, Blocksize)
             /\ IF state' = "OK"
                THEN MoveOverread(InPlace(left_right, DoIndependent), InPlace(ms, DoMidSide))
                ELSE UNCHANGED <<signal, mid_side>>
       /\ buffer' = rest
       /\ ok' = (state' = "OK")
       /\ pc' = IF ~ok' THEN "finish" ELSE IF rest = <<>> THEN "read" ELSE "process"
       /\ UNCHANGED <<encode, at, error, update, streaminfo_offset>>

-------------------------------------------------------------------------------
(* finish *)

Finish ==
    /\ pc = "finish"
    /\ pc' = "seek"
    /\ IF state = "OK" /\ Buffered > 0
       THEN /\ ProcessFrame(signal, mid_side, fifo, Buffered)
            /\ error' = (state' # "OK")
            /\ IF state' = "OK" THEN signal' = Empty /\ mid_side' = Empty
               ELSE UNCHANGED <<signal, mid_side>>
       ELSE UNCHANGED <<state, frameVars, outputVars, error, failed>>
    /\ UNCHANGED <<encode, clientVars, update, streaminfo_offset>>

\* What update_metadata_ writes, in its order. The total is below 2^36.
Updates ==
    <<[at |-> streaminfo_offset + 3, unit |-> Unit("md5", info.md5)],
      [at |-> streaminfo_offset + 2, unit |-> Unit("total", info.total)],
      [at |-> streaminfo_offset + 1, unit |-> Unit("framesizes", <<info.min, info.max>>)]>>

\* Mutant: the state is not looked at after update_metadata_.
CalledUnnoticed(next) ==
    /\ IF broken' THEN state' = "CLIENT_ERROR" /\ pc' = "close"
       ELSE pc' = next /\ UNCHANGED state
    /\ failed' = (failed \/ broken') /\ UNCHANGED error
    /\ UNCHANGED <<encode, clientVars, frameVars, written, progress, streaminfo_offset>>

\* A call of update_metadata_ that fails ends it.
Called(next) ==
    /\ IF broken' THEN state' = "CLIENT_ERROR" /\ error' = TRUE /\ pc' = "close"
       ELSE pc' = next /\ UNCHANGED <<state, error>>
    /\ failed' = (failed \/ broken')
    /\ UNCHANGED <<encode, clientVars, frameVars, written, progress, streaminfo_offset>>

Seek ==
    /\ pc = "seek" /\ state = "OK" /\ update <= Len(Updates)
    /\ IF writemode = "sram" THEN UNCHANGED cardVars ELSE FLseek(Updates[update].at)
    /\ Called("overwrite") /\ UNCHANGED update

Overwrite ==
    /\ pc = "overwrite"
    /\ IF writemode = "sram" THEN UNCHANGED cardVars ELSE FWrite(<<Updates[update].unit>>)
    /\ Called("seek") /\ update' = update + 1

Updated ==
    /\ pc = "seek" /\ (state = "OK" => update > Len(Updates))
    /\ pc' = "close"
    /\ UNCHANGED <<encode, clientVars, state, frameVars, outputVars, update, error,
                   streaminfo_offset, failed>>

\* The file is closed, whatever that comes to; my_EncodeDemo returns.
Close ==
    /\ pc = "close" /\ pc' = "returned"
    /\ state' = IF error THEN state ELSE "UNINITIALIZED"
    /\ ok' = (ok /\ ~error)
    /\ UNCHANGED <<encode, buffer, at, frameVars, outputVars, update, error,
                   streaminfo_offset, failed>>

-------------------------------------------------------------------------------

Go ==
    \/ Open \/ WriteMagic \/ WriteStreamInfo \/ WriteUserBlocks
    \/ ReadBlock \/ AllRead \/ Turn
    \/ Finish \/ Seek \/ Overwrite \/ Updated \/ Close
Returned == pc = "returned" /\ UNCHANGED vars
Next == Go \/ Returned

\* One thread of control that nothing holds up.
Spec == Init /\ [][Next]_vars /\ WF_vars(Go)

-------------------------------------------------------------------------------
(* Properties *)

Pair == Int \X Int
Pairs(s) == [i \in 1..Len(s[1]) |-> <<s[1][i], s[2][i]>>]
Given == SubSeq(song, 1, at - Len(buffer))

TypeOK ==
    /\ pc \in {"open", "magic", "streaminfo", "blocks", "padding", "read", "process",
               "finish", "seek", "overwrite", "close", "returned"}
    /\ ok \in BOOLEAN /\ error \in BOOLEAN /\ broken \in BOOLEAN /\ failed \in BOOLEAN
    /\ state \in OutOfMemory \cup {"UNINITIALIZED", "OK", "IO_ERROR", "CLIENT_ERROR",
                                  "VERIFY_MISMATCH_IN_AUDIO_DATA"}
    /\ buffer \in Seq(Pair) /\ fifo \in Seq(Pair) /\ at \in 0..Len(song)
    /\ \A c \in Channels :
          /\ signal[c] \in Seq(Int) /\ Len(signal[c]) <= Blocksize
          /\ mid_side[c] \in Seq(Int)
          /\ Len(mid_side[c]) = IF WithMidSide THEN Buffered ELSE 0
    /\ frame_count \in 0..(LooseFrames - 1)
    /\ current_frame_number \in Nat
    /\ info \in [total : Nat, min : Nat, max : Nat, md5 : Seq(Pair)]
    /\ fp \in 0..Len(file) /\ Len(file) <= room
    /\ streaminfo_offset \in Nat /\ update \in 1..(Len(Updates) + 1)

\* No sample is lost, repeated or changed between the song and the frames, whatever
\* the sizes of reads and blocks, the channel assignments and the wasted bits.
Lossless == state = "OK" => audio \o Pairs(signal) = Given

\* The verify FIFO, of blocksize + 1, never overflows, and holds what is buffered; and
\* verification finds no fault with what was coded.
VerifyIsQuiet ==
    /\ Len(fifo) <= Blocksize + 1
    /\ state = "OK" => fifo = Pairs(signal)
    /\ state # "VERIFY_MISMATCH_IN_AUDIO_DATA"

\* The file of an encode without errors is the stream of its frames, with a STREAMINFO
\* that tells their sizes, the samples that were read and their MD5, also when the
\* song could not be read to its end; on a full card it is as much as there is room for.
Stream ==
    LET sizes == {frames[i].bytes : i \in 1..Len(frames)}
        framesizes == IF sizes = {} THEN <<NoFramesize, 0>> ELSE <<Min(sizes), Max(sizes)>>
    IN Magic \o StreamInfo(framesizes, at, SubSeq(song, 1, at)) \o UserBlocks
         \o FlattenSeq([i \in 1..Len(frames) |-> FrameUnits(frames[i])])
FileIsTheStream ==
    pc = "returned" /\ ~failed /\ writemode = "card" =>
        /\ file = SubSeq(Stream, 1, Min({room, Len(Stream)}))
        /\ \A i \in 1..Len(frames) :
              /\ frames[i].number = i - 1
              /\ i < Len(frames) => frames[i].size = Blocksize

\* Whatever fails, in init, in a frame or in the update of STREAMINFO at the end, the
\* client is told.
ErrorsAreReported == pc = "returned" /\ failed => ~ok

\* With loose mid-side stereo LooseFrames frames in a row have one assignment, which
\* is never one of left and side or right and side.
LooseIsSticky ==
    stereo = "loose" =>
        \A i \in 1..Len(frames) :
            /\ frames[i].assignment \in {"independent", "mid_side"}
            /\ (i - 1) % LooseFrames # 0 => frames[i].assignment = frames[i - 1].assignment

\* The progress callback is told the bytes and the samples that are written with the
\* frame it is called for, and from the second frame on the frames. (What the first
\* call says of frames is not what stream_encoder.h says it is: 2 are told.)
ProgressIsTrue ==
    LET Sum(f) == FoldSeq(LAMBDA x, y : x + y, 0, f)
        n == Len(frames)
    IN writemode = "card" /\ n > 0 /\ ~broken =>
        /\ progress.bytes = Len(Magic \o StreamInfo(<<0, 0>>, 0, NoMd5) \o UserBlocks)
                            + Sum([i \in 1..n |-> frames[i].bytes])
        /\ progress.samples = Sum([i \in 1..n |-> frames[i].size])
        /\ n > 1 => progress.frames = n

\* An encode comes to its end, and with success when nothing failed and the song was
\* read to its end.
EndsInSuccess == <>(pc = "returned" /\ (~failed /\ at = Len(song) => ok))
===============================================================================
