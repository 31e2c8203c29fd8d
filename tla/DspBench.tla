------------------------------- MODULE DspBench -------------------------------
(***************************************************************************)
(* The whole demo on two cores (the DSP_RUN build): the DSP's main program *)
(* (dsp/xtensa/source/main_dsp.c) encodes every song at every compression  *)
(* level and then decodes every compressed file; the CM33 (getMUMsg_DealCMD)*)
(* loads the file the DSP names into the shared music region, which the    *)
(* DSP reads through its virtual file system.  The link is DspService,     *)
(* which DspLink implements; the codec is external: it may refuse to start *)
(* or give up at any block, and a decoder reads and seeks as it likes, for *)
(* ever if its file is damaged (StreamDecoder is where it is modelled).    *)
(***************************************************************************)
EXTENDS InterCpuCommands, VirtualFs

CONSTANTS
    Songs,          \* TEST_MUSIC_NUMS
    LastLevel,      \* the highest compression level (8)
    HeaderBytes,    \* 44
    BlockSamples,   \* READSIZE of main_dsp.c
    Data, NoData,   \* of DspService; no call here carries data
    Disks           \* the contents of the SD card to consider

\* buffer and pcm of main_dsp.c, sized for two channels of two bytes
BufferBytes == 4 * BlockSamples
PcmSamples == 2 * BlockSamples

ASSUME BenchAssumption ==
    /\ Songs \in 0..15 /\ LastLevel \in 0..14
    /\ BlockSamples \in Nat \ {0} /\ HeaderBytes \in 1..BufferBytes

\* A file of the card, by the name the CM33 builds for it: the song's WAV file,
\* or its compressed file of one level (filelist[num >> 4] and num & 0xf).
Wav(song) == 16 * song + 16
Flac(song, level) == 16 * song + level + 1
Names == {Wav(s) : s \in 0..(Songs - 1)}
         \cup {Flac(s, l) : s \in 0..(Songs - 1), l \in 0..LastLevel}

\* What f_open, f_size and f_read make of a file; whether its header is one that
\* my_EncodeDemo accepts, with the channels, the bytes of a channel's sample
\* (bps / 8) and the samples it comes to (a header with none of the first two is
\* left out: line 142 divides by both); whether it is an undamaged FLAC file.
DiskFile == [present : BOOLEAN, size : Nat, readable : Nat, wave : BOOLEAN,
             channels : Nat \ {0}, width : Nat \ {0}, samples : Nat,
             sound : BOOLEAN]
ASSUME DisksAssumption == Disks \subseteq [Names -> DiskFile]

VARIABLES
    disk,           \* what the SD card holds (never changes: nothing is written)
    cmPc,           \* the CM33: "serve", or "load" inside copyMusic2Sram
    caller, queue, answer, performed, result,   \* the link, see DspService
    dspPc,          \* the DSP's main program
    testMusicNums, fileIter, compresslevel, xter, iter,     \* its locals
    buffer,         \* my_EncodeDemo reads the WAVE data into here
    channels, width,    \* what the header says of the samples (width is bps / 8)
    left,           \* samples still to encode
    fed             \* the channels' samples this encoder was given so far

linkVars == <<caller, queue, answer, performed, result>>
loopVars == <<testMusicNums, fileIter, compresslevel, xter, iter>>
encVars  == <<buffer, channels, width, left, fed>>
dspVars  == <<dspPc, loopVars, encVars, readerVars>>
cmVars   == <<cmPc, load, regionVars>>
vars == <<disk, cmVars, linkVars, dspVars>>

Link == INSTANCE DspService

Init ==
    /\ disk \in Disks
    /\ cmPc = "serve"
    /\ Link!Init
    /\ dspPc = "getNums"
    /\ testMusicNums = 0 /\ fileIter = 0 /\ compresslevel = 0 /\ xter = 0 /\ iter = 0
    /\ buffer = [i \in 1..BufferBytes |-> NoByte]
    /\ channels = 0 /\ width = 0 /\ left = 0 /\ fed = <<>>
    /\ sram = [a \in Addr |-> NoByte] /\ lengthWord = 0
    /\ sramReadAddr = 0 /\ filesize = 0
    /\ load = NotLoading

-------------------------------------------------------------------------------
(* The CM33's command loop *)

Requested == Head(queue)
Name(request) == IF request.cmd = TE_MODE_TEST_ENCODE THEN Wav(request.arg)
                 ELSE Flac(request.arg \div 16, request.arg % 16)

\* getDecodeFileStructByIndexNum and getEncodeFileStructByIndexNum build the
\* name and call copyMusic2Sram.
StartLoad ==
    /\ cmPc = "serve" /\ queue # <<>>
    /\ Requested.cmd \in {TE_MODE_TEST_ENCODE, TE_MODE_TEST_DECODE}
    /\ LET file == disk[Name(Requested)] IN
       OpenInput(Name(Requested), file.present, file.size)
    /\ cmPc' = "load"
    /\ UNCHANGED <<disk, linkVars, dspVars>>

LoadStep ==
    /\ cmPc = "load"
    /\ \/ StoreLength
       \/ CopyChunk(load.at >= disk[load.gen].readable)
    /\ UNCHANGED <<disk, cmPc, linkVars, dspVars>>

\* Mutant: the encode request is acknowledged whatever the load came to.
AckForOk(cmd, rc) == TE_ACK_OK

\* The result of the load is the result of getEncodeFileStructByIndexNum; that of
\* getDecodeFileStructByIndexNum is 0 either way.
AckFor(cmd, rc) == IF cmd = TE_MODE_TEST_ENCODE /\ rc = 1
                   THEN TE_ACK_ERROR ELSE TE_ACK_OK

FinishLoad ==
    /\ cmPc = "load" /\ LoadReturned
    /\ Link!Perform(AckFor(Requested.cmd, load.rc), NoData)
    /\ cmPc' = "serve"
    /\ UNCHANGED <<disk, regionVars, dspVars>>

\* GET_MUSICNUM and CLOSE (of two files nothing opened)
ServeOther ==
    /\ cmPc = "serve" /\ queue # <<>>
    /\ Requested.cmd \in {TE_MODE_GET_MUSICNUM, TE_MODE_CLOSE}
    /\ Link!Perform(Songs, NoData)
    /\ UNCHANGED <<disk, cmVars, dspVars>>

Cm33Step == StartLoad \/ LoadStep \/ FinishLoad \/ ServeOther

-------------------------------------------------------------------------------
(* The DSP's main program *)

CallLink(cmd, arg, from, to) ==
    /\ dspPc = from /\ dspPc' = to
    /\ Link!Issue([cmd |-> cmd, arg |-> arg, data |-> NoData])
    /\ UNCHANGED <<disk, cmVars, loopVars, encVars, readerVars>>

GetMusicFileNums == CallLink(TE_MODE_GET_MUSICNUM, 0, "getNums", "gotNums")

GotMusicFileNums ==
    /\ dspPc = "gotNums" /\ dspPc' = "encFile"
    /\ Link!Return
    /\ testMusicNums' = result'.value
    /\ UNCHANGED <<disk, cmVars, fileIter, compresslevel, xter, iter,
                   encVars, readerVars>>

\* for(fileIter ...): CM33InitEncodeFileStructByIndex(fileIter)
PrepareEncode ==
    /\ fileIter < testMusicNums
    /\ CallLink(TE_MODE_TEST_ENCODE, fileIter, "encFile", "encPrepared")

AllEncoded ==
    /\ dspPc = "encFile" /\ fileIter >= testMusicNums
    /\ dspPc' = "decFile"
    /\ UNCHANGED <<disk, cmVars, linkVars, loopVars, encVars, readerVars>>

\* Mutant: the answer is not waited for.
EncodePreparedNoWait ==
    /\ dspPc = "encPrepared"
    /\ dspPc' = "encLevel"
    /\ compresslevel' = 0
    /\ UNCHANGED <<disk, cmVars, linkVars, testMusicNums, fileIter, xter, iter,
                   encVars, readerVars>>

EncodePrepared ==
    /\ dspPc = "encPrepared"
    /\ Link!Return
    /\ dspPc' = IF result'.value = TE_ACK_ERROR THEN "halted" ELSE "encLevel"
    /\ compresslevel' = 0
    /\ UNCHANGED <<disk, cmVars, testMusicNums, fileIter, xter, iter,
                   encVars, readerVars>>

\* for(compresslevel ...): virtual_fs_api_resetReadPr, my_EncodeDemo
StartEncode ==
    /\ dspPc = "encLevel" /\ compresslevel <= LastLevel
    /\ ResetReadPr
    /\ dspPc' = "header"
    /\ UNCHANGED <<disk, cmVars, linkVars, loopVars, encVars>>

AllLevelsEncoded ==
    /\ dspPc = "encLevel" /\ compresslevel > LastLevel
    /\ fileIter' = fileIter + 1
    /\ dspPc' = "encFile"
    /\ UNCHANGED <<disk, cmVars, linkVars, testMusicNums, compresslevel, xter,
                   iter, encVars, readerVars>>

\* The caller's buffer after a read: its first bytes replaced, the rest as it was.
Into(b, bytes) ==
    [i \in DOMAIN b |-> IF i \in DOMAIN bytes THEN bytes[i] ELSE b[i]]

\* Whose header is in b: that of the file read, or, if that file is shorter than
\* a header, one that what an earlier read left behind completes.
OwnHeader(b) == \A i \in 1..HeaderBytes : b[i] = Byte(b[1].gen, i - 1)
HeaderOf(b) == IF OwnHeader(b) THEN {b[1].gen} ELSE Names

\* "RIFF", "WAVEfmt " and "data" are in place. In a header of two files that is
\* possible if the first is a WAVE file.
MayBeWave(b) == b[1].gen \in Names /\ disk[b[1].gen].wave

\* my_EncodeDemo up to the encoder: the header, then FLAC__stream_encoder_new
\* and ..._init_file, which may fail.
ReadHeader ==
    /\ dspPc = "header"
    /\ ReadBuf(HeaderBytes)
    /\ buffer' = Into(buffer, ReadBytes(HeaderBytes))
    /\ \/ /\ Eof \/ ~MayBeWave(buffer') \/ ~OwnHeader(buffer')
          /\ dspPc' = "close"
          /\ UNCHANGED <<channels, width, left>>
       \/ /\ ~Eof /\ MayBeWave(buffer')
          /\ dspPc' \in {"close", "read", "finish"}
          /\ \E source \in HeaderOf(buffer') :
                /\ channels' = disk[source].channels
                /\ width' = disk[source].width
                /\ left' = disk[source].samples
    /\ UNCHANGED <<disk, cmVars, linkVars, loopVars, fed>>

\* The first n samples in b: a low and a high byte each, whatever the width.
\* Behind the buffer is whatever is in memory there.
InBuffer(b, i) == IF i \in DOMAIN b THEN b[i] ELSE NoByte
Pcm(b, n) == [i \in 1..n |-> <<InBuffer(b, 2 * i - 1), InBuffer(b, 2 * i)>>]

\* A block of more than two channels or four bytes a sample is written past the
\* end of buffer or pcm, and the program may go anywhere from there.
PastTheEnd(bytes, n) == Len(bytes) > BufferBytes \/ n > PcmSamples

FrameBytes == channels * width

\* Mutant: the last block is passed on with the length of a full one.
ReadBlockFeedsFullBlock ==
    /\ dspPc = "read" /\ left > 0
    /\ LET need == IF left > BlockSamples THEN BlockSamples ELSE left
           bytes == ReadBytes(need * FrameBytes) IN
       /\ ReadBuf(need * FrameBytes)
       /\ buffer' = Into(buffer, bytes)
       /\ IF Eof
          THEN dspPc' = "finish" /\ UNCHANGED fed
          ELSE /\ fed' = fed \o Pcm(buffer', BlockSamples * channels)
               /\ \/ dspPc' \in {"read", "finish"}
                  \/ PastTheEnd(bytes, need * channels) /\ dspPc' = "overrun"
       /\ left' = left - need
    /\ UNCHANGED <<disk, cmVars, linkVars, loopVars, channels, width>>

\* The loop that feeds the encoder: need samples are read and, if the read
\* succeeded, converted and given to FLAC__stream_encoder_process_interleaved.
ReadBlock ==
    /\ dspPc = "read" /\ left > 0
    /\ LET need == IF left > BlockSamples THEN BlockSamples ELSE left
           bytes == ReadBytes(need * FrameBytes) IN
       /\ ReadBuf(need * FrameBytes)
       /\ buffer' = Into(buffer, bytes)
       /\ IF Eof
          THEN dspPc' = "finish" /\ UNCHANGED fed
          ELSE /\ fed' = fed \o Pcm(buffer', need * channels)
               /\ \/ dspPc' \in {"read", "finish"}
                  \/ PastTheEnd(bytes, need * channels) /\ dspPc' = "overrun"
       /\ left' = left - need
    /\ UNCHANGED <<disk, cmVars, linkVars, loopVars, channels, width>>

AllBlocksRead ==
    /\ dspPc = "read" /\ left = 0
    /\ dspPc' = "finish"
    /\ UNCHANGED <<disk, cmVars, linkVars, loopVars, encVars, readerVars>>

\* Mutant: the level is not advanced.
FinishEncodeSameLevel ==
    /\ dspPc = "finish" /\ dspPc' = "encLevel"
    /\ channels' = 0 /\ width' = 0 /\ left' = 0 /\ fed' = <<>>
    /\ UNCHANGED <<disk, cmVars, linkVars, loopVars, buffer, readerVars>>

\* FLAC__stream_encoder_finish and ..._delete; the result is not looked at. The
\* encoder and the locals are gone, buffer is static.
FinishEncode ==
    /\ dspPc = "finish" /\ dspPc' = "encLevel"
    /\ compresslevel' = compresslevel + 1
    /\ channels' = 0 /\ width' = 0 /\ left' = 0 /\ fed' = <<>>
    /\ UNCHANGED <<disk, cmVars, linkVars, testMusicNums, fileIter, xter, iter,
                   buffer, readerVars>>

\* An encode that failed early closes the CM33's files, which returns at once.
CloseFile == CallLink(TE_MODE_CLOSE, 0, "close", "closed")

FileClosed ==
    /\ dspPc = "closed" /\ dspPc' = "encLevel"
    /\ Link!Return
    /\ compresslevel' = compresslevel + 1
    /\ channels' = 0 /\ width' = 0 /\ left' = 0
    /\ UNCHANGED <<disk, cmVars, testMusicNums, fileIter, xter, iter,
                   buffer, fed, readerVars>>

\* for(xter ...) for(iter ...): CM33InitDecodeFileStructByIndex(iter | xter<<4)
PrepareDecode ==
    /\ xter < testMusicNums /\ iter <= LastLevel
    /\ CallLink(TE_MODE_TEST_DECODE, iter + 16 * xter, "decFile", "decPrepared")

NextSongToDecode ==
    /\ dspPc = "decFile" /\ xter < testMusicNums /\ iter > LastLevel
    /\ xter' = xter + 1 /\ iter' = 0
    /\ UNCHANGED <<disk, cmVars, linkVars, dspPc, testMusicNums, fileIter,
                   compresslevel, encVars, readerVars>>

AllDecoded ==
    /\ dspPc = "decFile" /\ xter >= testMusicNums
    /\ dspPc' = "idle"
    /\ UNCHANGED <<disk, cmVars, linkVars, loopVars, encVars, readerVars>>

DecodePrepared ==
    /\ dspPc = "decPrepared"
    /\ Link!Return
    /\ IF result'.value = TE_ACK_ERROR
       THEN dspPc' = "halted" /\ UNCHANGED readerVars
       ELSE dspPc' = "decode" /\ ResetReadPr
    /\ UNCHANGED <<disk, cmVars, loopVars, encVars>>

\* libFLAC_decode: the decoder reads and, after a bad frame, seeks back through its
\* callbacks, until a read fails or it has had enough; its result is not looked at.
DecoderReads ==
    /\ dspPc = "decode"
    /\ \E len \in 1..ReadSize : ~Eof /\ ReadBuf(len)
    /\ UNCHANGED <<disk, cmVars, linkVars, dspPc, loopVars, encVars>>

\* To the frame sync it last saw: its tell then less what it had not consumed, in
\* 32 bits (it may believe that it got more than there was).
DecoderSeeks ==
    /\ dspPc = "decode"
    /\ \E offset \in 0..(Wrap - 1) : Seek(offset)
    /\ UNCHANGED <<disk, cmVars, linkVars, dspPc, loopVars, encVars>>

FinishDecode ==
    /\ dspPc = "decode" /\ dspPc' = "decFile"
    /\ iter' = iter + 1
    /\ UNCHANGED <<disk, cmVars, linkVars, testMusicNums, fileIter,
                   compresslevel, xter, encVars, readerVars>>

DspStep ==
    \/ GetMusicFileNums \/ GotMusicFileNums
    \/ PrepareEncode \/ AllEncoded \/ EncodePrepared \/ StartEncode
    \/ AllLevelsEncoded \/ ReadHeader \/ ReadBlock \/ AllBlocksRead
    \/ FinishEncode \/ CloseFile \/ FileClosed
    \/ PrepareDecode \/ NextSongToDecode \/ AllDecoded \/ DecodePrepared
    \/ DecoderReads \/ DecoderSeeks \/ FinishDecode

\* while(1): the LED loop, and where the program stops on an error; and what lies
\* behind an overrun, where the model ends
Spin == dspPc \in {"idle", "halted", "overrun"} /\ UNCHANGED vars

Next == Cm33Step \/ DspStep \/ Spin

\* The decode of an undamaged file that is in the region whole
SoundDecode ==
    /\ dspPc = "decode"
    /\ LET file == disk[Flac(xter, iter)] IN
       file.sound /\ Holds(Flac(xter, iter), file.size) /\ filesize = file.size

\* Each core keeps running, and the decoder comes to the end of a sound file
\* (StreamDecoder's IntactIsDecoded); of another one it may never.
Spec == /\ Init /\ [][Next]_vars
        /\ WF_vars(Cm33Step) /\ WF_vars(DspStep)
        /\ WF_vars(SoundDecode /\ FinishDecode)

-------------------------------------------------------------------------------
(* Properties *)

Encoding == dspPc \in {"header", "read", "finish"}
Loadable(name) ==
    disk[name].present /\ disk[name].size <= Capacity
    /\ disk[name].readable >= disk[name].size

\* There is no lock on the music region: the CM33 writes it only while the DSP
\* waits for the answer to the request that made it do so.
RegionExclusion ==
    load.pc \in {"length", "copy"} => dspPc \in {"encPrepared", "decPrepared"}

\* Whatever became of earlier requests, an encode runs over the WAV file of its
\* own song, complete, with the size the reader has cached for it; and so does a
\* decode over the file of its song and level, if that could be loaded.
CodecsSeeTheirFile ==
    LET Sees(name) == Holds(name, disk[name].size) /\ filesize = lengthWord IN
    /\ Encoding => Sees(Wav(fileIter))
    /\ dspPc = "decode" /\ Loadable(Flac(xter, iter)) => Sees(Flac(xter, iter))

\* If the header is right about the length and the samples are of two bytes, in one
\* or two channels, the encoder is fed the samples of the file, each of its own low
\* and high byte, in order and without a gap, and unless it gives up itself, all of
\* them. (Of other formats, which the check of the header lets through, it gets the
\* bytes in pairs all the same.)
Complete(wav) ==
    HeaderBytes + disk[wav].samples * (disk[wav].channels * disk[wav].width)
        <= disk[wav].size
SampleOf(wav, i) ==
    <<Byte(wav, HeaderBytes + 2 * i - 2), Byte(wav, HeaderBytes + 2 * i - 1)>>
EncoderFedTheSong ==
    LET wav == Wav(fileIter) IN
    Encoding /\ Complete(wav) /\ disk[wav].width = 2 /\ disk[wav].channels \in {1, 2} =>
        /\ \A i \in 1..Len(fed) : fed[i] = SampleOf(wav, i)
        /\ dspPc = "read" =>
              Len(fed) = (disk[wav].samples - left) * disk[wav].channels

\* A sound WAV file is never lost to a read error: the virtual file system ends
\* no file before the last sample the header counts, be it a sample of two bytes or
\* more. (One of 8 bits in one channel is lost.)
NoReadError ==
    [][LET wav == Wav(fileIter) IN
       ReadBlock /\ Complete(wav) /\ disk[wav].channels * disk[wav].width >= 2
           => ~Eof]_vars

\* On every card the program comes to an end that its files account for: it stops
\* for a song that cannot be loaded, and is done with the tests when every song
\* could be; but for a song in a format its buffers are too small for, and for a
\* compressed file that is damaged or could not be loaded, whose decode may go on
\* for ever and then holds the program.
TooWide(wav) == disk[wav].channels > 2 \/ disk[wav].channels * disk[wav].width > 4
Lost ==
    LET name == Flac(xter, iter) IN
    dspPc = "decode" /\ ~(disk[name].sound /\ Loadable(name))
EndsAsItShould ==
    \/ <>(\/ dspPc = "halted" /\ ~Loadable(Wav(fileIter))
          \/ dspPc = "overrun" /\ TooWide(Wav(fileIter))
          \/ dspPc = "idle" /\ \A s \in 0..(Songs - 1) : Loadable(Wav(s)))
    \/ <>[]Lost

\* "HiFi4 decode init file fail! stop running.": a decode runs only if the file it
\* asked for was loaded.
DecodeNeedsItsFile == dspPc = "decode" => Loadable(Flac(xter, iter))
===============================================================================
