# A verification project for the FLAC codec demo on the i.MX RT685

The program runs libFLAC on the two cores of an RT685, a Cortex-M33 and a HiFi4
DSP, and measures how long encoding and decoding take. This directory holds
TLA+ models of it, the TLC runs that check them, and theorems that TLAPS checks.
All paths below are relative to the repository; `cm33/` stands for
`cm33/FLAC_demo/` and `dsp/` for `dsp/xtensa/`.

## 1. The system

### Components

| Component | State it keeps | Operations | What makes it correct |
|---|---|---|---|
| Inter-core link (`cm33/source/inter_cpu_communication.c`, `dsp/source/inter_cpu_communication.c`, `fsl_mu.c`) | one register per direction, flag bits, message array of the DSP, two transfer windows | boot handshake; READ, WRITE, CLOSE, SEEK, TELL, TEST_DECODE, TEST_ENCODE, GET_MUSICNUM, each a blocking call of the DSP served by a loop on the CM33 | every call carried out once, in order, and answered with its own answer; windows never used by both cores; every call returns |
| Virtual file system (`virtual_fs_api.c`, a copy per core) | music region and length word in shared SRAM; read pointer and cached size of each core | load a file from the card, reset, read, seek, tell, size, eof | the copy stays in the region; the reader gets the file, all of it and nothing else |
| DSP main program (`main_dsp.c`) | loop counters, buffers | encode every song at every level, decode every compressed file | each codec run sees its own file; the end is reached |
| CM33 main program (`main_cm33.c`, build without `DSP_RUN`) | loop counters, output mode, log file | four tests: encode and decode, to the card and to SRAM | files contain what their names say; the round to SRAM touches no file of value |
| libFLAC bit reader (`bitreader.c`, identical on both cores) | word buffer, consumed and available counts, CRC, limit, place of the last frame sync | raw, unary, rice and block reads; skips; limits; CRC; rewind | reads as if there were no buffer |
| libFLAC stream decoder (`stream_decoder.c`, the same on both cores) | state, lookahead byte, place of the last sync, last frame written, missing samples, output buffers | `process_until_end_of_stream`: search for metadata, metadata blocks, search for a sync, frame header, subframes, CRC, silence for lost frames, rewind; read and eof callbacks to the file | frames in their places; damage harms no whole frame; the search gets on and ends |
| libFLAC stream encoder (`stream_encoder.c`) | state, sample buffers of left, right, mid and side, verify FIFO, STREAMINFO, counters of what was written, output file | `init_file`, `process_interleaved`, `process_frame_`, `write_frame_`, `finish`, `update_metadata_`, as `my_EncodeDemo` calls them | no sample lost or changed; verification quiet; the file is the stream with a true STREAMINFO; failures are told |
| libFLAC bit writer, prediction, format checks, metadata objects | not modelled, see sections 5 and 6 | | |
| FatFs, SD/MMC stack, drivers, board, start-up code | not modelled | | |

### How they interact

With `DSP_RUN` the CM33 only serves: `start_dsp` boots the DSP and
`getMUMsg_DealCMD` loops over requests. The DSP asks for a file by number, the
CM33 copies it from the card to the music region, and the DSP's codec reads it
there through its own copy of the virtual file system. Words go through one
messaging-unit register per direction, which a sender polls until it is empty
and a receiver until it is full. Without `DSP_RUN` the CM33 does all of it
itself. In both, libFLAC pulls its input through `read_callback_` and
`file_read_callback_`, called in the middle of a bit reader function, and the
decoder seeks in the file behind the reader's back when a bad frame's sync has
left the buffer. The encoder pushes frames through `file_write_callback_` to
FatFs, feeds each to a decoder of its own that compares it with a FIFO of the
samples, and at the end goes back in the file to complete STREAMINFO.

### What is hard

* Two cores with no lock, no sequence numbers, and one undifferentiated word
  register: a core that is off by one word stays off.
* CLOSE, the only call that does not wait for an answer.
* Blocking calls without timeouts on both sides.
* Shared memory whose protection is the protocol alone: three windows.
* Sizes that are cached, and refreshed as a side effect of another call.
* Unsigned subtractions, an end-of-file test one byte early, short reads that
  are not reported.
* A decoder that has to find its way again after damage, with a lookahead byte,
  a place in a buffer that moves and a place in a file, and that makes up
  silence for what is lost in the buffer that holds what is not.
* An encoder that reads one sample more than a block to know the last one,
  keeps it in two sets of buffers and a FIFO, and shifts blocks in place.
* A card that runs full without an error, and errors in the middle of the
  rewriting of STREAMINFO.
* Failures at any point of a load, a write, a log; results that are dropped.
* A bit reader that moves its contents while offsets into it are remembered,
  swaps bytes of a half-filled word for its client and back, and that has a
  second implementation of itself in registers for rice blocks.

`PROJECT.json` lists each of these at its line, with the properties that would
notice it going wrong, or a note why none does yet.

## 2. The modules

| Module | Models |
|---|---|
| `InterCpuCommands` | command and acknowledgement codes, which calls take an argument and which are answered |
| `MessagingUnit` | registers and flags of the messaging unit |
| `DspService` | abstract: whole calls, queued, performed once and in order, answered |
| `DspLink`, `MCDspLink` | both cores word by word, under a client that makes any calls |
| `DspLinkProofs` | theorems about `DspLink`, and that it implements `DspService` |
| `VirtualFs` | region, length word, pointer, cached size; every operation, the load in its steps |
| `VirtualFsUse` | `VirtualFs` under loads, resets, reads and seeks in any order a program of the demo could use |
| `VirtualFsProofs` | theorems about `VirtualFsUse` |
| `DspBench`, `MCDspBench` | the demo on both cores: `VirtualFs`, the link as `DspService`, the DSP's main program, the CM33's load |
| `DspBenchProofs` | theorems about `DspBench` |
| `Cm33Bench` | the demo on the CM33 alone |
| `Cm33BenchProofs` | theorems about `Cm33Bench` |
| `BitReader` | the functions of the bit reader on a record with the fields of `struct FLAC__BitReader` |
| `BitStream` | abstract: a position in a stream of bits |
| `BitClient` | `BitReader` with the client that delivers a stream to it |
| `BitReaderUse`, `MCBitReader` | `BitReader` between a client of short deliveries and failures and a decoder that reads metadata and frames |
| `BitReaderLemmas` | what each function of `BitReader` does to its place and its buffer |
| `BitReaderProofs` | theorems about `BitReaderUse` and `RiceBlock` |
| `RiceBlock`, `MCRiceBlock` | `FLAC__bitreader_read_rice_signed_block` over `BitReader` |
| `StreamDecoder`, `MCStreamDecoder` | the stream decoder over `BitReader`, its callbacks and `VirtualFs`, on whole and damaged files |
| `StreamDecoderProofs` | theorems about `StreamDecoder` |
| `StreamEncoder`, `MCStreamEncoder` | an encode from `init_file` to `finish`, over a card that fails or fills |
| `StreamEncoderProofs` | theorems about `StreamEncoder` |

Composition: `DspBench` is `VirtualFs` and `DspService`, which `DspLink`
implements; `BitReaderUse` and `RiceBlock` are two uses of `BitReader` with its `BitClient`, which
`StreamDecoder` composes with `VirtualFs`.

### Correspondence

**Link.** `cmPc` and `dspPc` say where each core is: one value for each place
where it can wait or where the other core can tell the difference. A core that
spins on a register is one whose action is not enabled. `GetCmd` is the top of
the loop with the choice of the `switch`; `GetArg` the receive in each case;
`HandleRead`, `HandleWrite`, `HandleStatus` and `HandleQuery` the cases;
`SendAck` the answer. `Enter` and `SendWord` are the first lines of each DSP
function and its send loop, `ReceiveAnswer` its wait. Commands, arguments and
answers are all numbers of one set, on purpose. `fin` and `fout` are never
opened in the code, so FatFs's result on them is any.

**Virtual file system.** A byte is the number of the file it came from with its
offset, which makes "old contents" and "wrong place" visible. `OpenInput`,
`StoreLength` and one `CopyChunk` per turn of the loop are the load; a failing
`f_read` leaves what is there. `ReadBuf` includes the refresh of the cached size
that the call of `virtual_fs_api_size` has as a side effect. `Minus` wraps.

**DSP main program.** One action per call of the main program that can block,
fail or touch shared state. A WAV file has a header that the check in
`main_dsp.c:120-125` takes or not; the check does not restrict the format,
whatever the message at line 126 says, so channels and width are those of the file,
and what the header says of the number of samples may be more than there is. `Pcm` is
the conversion of lines 207-210: it joins two bytes to each sample whatever the width.
`buffer` and `pcm` have their fixed sizes; a block that is too large for either
(`PastTheEnd`) may turn out well or lead anywhere, and there (`"overrun"`) the
model ends. `buffer` is static: a read that comes short leaves in it what an earlier one
put there (`Into`), and a file shorter than a header may be taken for a song with a
header of two files (`HeaderOf`). An encoder or decoder may give up anywhere. A decoder
reads and seeks (`DecoderReads`, `DecoderSeeks`) for as long as it likes.

**CM33 main program.** A file is known by what it was made from, so that a file
with another one's contents shows, and by its form: what a codec can make of it.
At first the card holds songs only, each in one of `SongForms`. `CodecReturns` is a run
of the codec that returns: it leaves all of its input, a well-formed part of it (a song
with less data than its header says, which `main_cm33.c:373-376` ends early), an empty
file (settings the encoder refuses when the output is open already), or does not
create the output (a header that is refused), each of these without any failure; or the
card fails, or is full, and it leaves nothing, an empty file, or one that is cut.
`CodecHangs` is a decode of a cut file that does not return, as `stream_endless`
shows it; `CodecOverruns` an encode that writes past the end of `buffer`.

**Bit reader.** The buffer lists the bytes of each word from the most
significant; `MemoryOrder` relates this to the order in memory, where the
client stores. `BeforeRead`, `TailForClient`, `Filled` and `NotFilled` are the
parts of `bitreader_read_from_client_` around the callback. Reads are lists of
parts in `call.todo` because any of them may stop to call the client. CRCs are
kept as the sequence of bytes they are computed from: equal sequences, equal
CRCs. Frame and metadata reads follow `read_frame_`, `frame_sync_` and
`read_metadata_`.

**Rice block.** `reg` holds the function's local variables. Every `goto` of
the function is a transition between `reg.pc` values.

**Stream decoder.** `state` is `protected_->state` and `pc` the next thing that is
read; each action reads one byte (one metadata block for STREAMINFO) as the
decoder does, after `Refill` has made it available. A byte is `16#ff`, the second
byte of a sync, "other", or is known by its frame and its place there, so a
checksum is right exactly when the bytes it covers are those of one frame: a
CRC that is right by accident is left out. A body that is whole so far ends where
it should; in a damaged one the subframes may end anywhere, turn out to be wrong,
or have more wasted bits than bits, unless they are verbatim, whose length is
fixed. `Stored` is what `file_read_callback_` leaves in memory: what was copied
and, because `*bytes` is not lowered, whatever was there before; `beyond`
counts such bytes in the buffer and serves the properties only, as `written`
does. `Rewind` is the `goto` of a bad frame: back in the buffer or by a seek.

**Stream encoder.** A sample is an integer, a file a sequence of units: four for
STREAMINFO, because `update_metadata_` rewrites three of them separately, one for
another block, `FrameSizes` for a frame. A subframe is its signal with its wasted
bits taken off; predictors and the residual code, which give back what they
are given, are left out, and so the choice of the channel assignment
and the frame's size, which depend on the bits they come to, are any. `Turn` is one
turn of the loop in `process_interleaved`, `ProcessFrame` all of `process_frame_`
with its failures of memory, verification and card. `FWrite` is `f_write` of
FatFs, which writes what fits and calls it a success. `frames`, `audio`,
`failed` and `progress` are histories. `Progress` is what the callback is told, with
`frames_written` counted as `stream_encoder.c:2924` does: from the writes of metadata
on, for which the frame number is 0.

## 3. The runs

| Run | Question | Outcome |
|---|---|---|
| `dsp_link` | Do two cores that exchange bare words implement whole calls, keep in step, keep out of each other's windows, and return? | holds |
| `virtual_fs` | Whatever loads (good, failing, too large), resets, reads and seeks follow each other: is the region intact, does the reader get the file? | holds |
| `dsp_bench` | Over every card of two songs, of any format and damaged or not: does each codec run see its file, does the encoder get all samples of a 16-bit song, where does the program end? | holds |
| `dsp_bench_decode` | Does a decode only run if its file was loaded? | violated |
| `bit_reader` | Does the bit reader read as a stream without a buffer would, within its limits and its buffer? | holds |
| `rice_block` | Does the register version read the same values, and leave the reader behind them? | holds |
| `rice_block_empty` | Does a block of no values read none? | violated |
| `stream_decoder` | Over every file with one damage: is the file read in order, is each frame put in its place, is every whole frame written, does an undamaged file come to its end? | holds |
| `stream_silence` | Is what is written of a frame what was in it? | violated |
| `stream_endless` | Does the decoder return, whatever the file? | violated |
| `stream_encoder` | Are all samples in the frames once and unchanged, is the file the stream, does the client learn of every failure? | holds |
| `cm33_bench` | Do files and logs contain what they should, whatever fails twice; which songs make the program stop, and does it come to an end? | holds |

### Bounds, and why they are enough

* `dsp_link`: words 0..7, which are the command codes, so that every argument
  or answer could be taken for a command; arguments 0 (READ, or "OK") and 2
  (CLOSE); two payloads, so that a swapped one shows. The number of calls is
  not bounded.
* `virtual_fs`: a region of four bytes and chunks of two: files of zero, one,
  two whole chunks, an odd one, exactly full and one too large. Offsets up to
  one past `SeekEnd`. Loads are numbered 1 and 2 in turn, which tells the
  current file from the one before. The length word starts with any value, as
  SRAM does.
* `dsp_bench`: two songs, two levels, so that a file of either kind follows
  one of either kind; twelve sorts of WAV files, of 8, 16 and 24 bits in one to three
  channels (see `MCDspBench`), before one that is encoded, one that is shorter than a
  header, and none; four sorts of compressed ones before a sound one and none. The
  region has 15 bytes, a header three, a block two samples, `buffer` therefore eight
  bytes and `pcm` four samples; chunks of five bytes. 16-bit stereo fills the
  buffers exactly, 24-bit stereo is too large for `buffer`, three channels for `pcm`.
* `bit_reader`: words of two bytes of two bits, a buffer of two words, streams
  of four and five bytes, hence more than one refill, all splits of a delivery,
  reads that straddle words, and an odd tail word at every offset. `Wrap` is 16,
  so a limit that wraps does so in reach; 15 stands for `-1`.
* `rice_block`: the same buffer and every stream of four such bytes, with
  parameters 0 to 3 and blocks of three values.
* `stream_decoder`: a buffer of six words of two bytes and files of at most 50
  bytes. The streams: full frames and a short last one; syncs and halves of
  syncs within frames; a frame larger than the buffer; frames that end at each
  offset in the buffer; one with reserved bits; lost frames longer than the
  limits of the repair. The first three with no damage, every cut, every loss of
  one to three bytes, every byte replaced or inserted: what the search has to
  find its way through once. The limits of the repair are 2, 2 and 6 for 16,
  50 and `5 * sample_rate`. `MaxExtraBody` (2) bounds what a damaged body may seem to
  be longer, `MaxWritten` (8) the history.
* `stream_encoder`: blocks of two samples of two bits, so that a block, its
  overread and a third block occur in five samples; every pair of samples; every
  triple of those that wasted bits are sensitive to; every size of reads for
  five; a song of nine, more frames than keep one loose assignment (3); cards with
  room for 0 to 11 units, which is less than the header up to everything; output
  to SRAM; a sample that is too wide. A frame has one or two units.
* `cm33_bench`: two songs, each missing or in one of six forms, two levels, two
  failures anywhere: a failure that hides the effect of another one needs no third.

### Fairness

`DspLink`: weak fairness of each core's steps (an action that stays enabled is
taken: a core that is not spinning runs) and of the unit's flag update. Making
another call is the client's choice and not fair. `DspBench`: the same for the
two cores at the level of calls, and for the end of the decode of a sound file that was
loaded whole (`SoundDecode /\ FinishDecode`), which is what `IntactIsDecoded` of
`stream_decoder` says of the decoder. Of a decode of another file no end is assumed:
`stream_endless` has one that goes on for ever. `Cm33Bench`, `StreamDecoder` and `StreamEncoder`:
a single thread of control with no other one to starve it, whose steps are weakly
fair. No run needs strong fairness.

### What the violated ones show

* `dsp_bench_decode`: `getDecodeFileStructByIndexNum` prints that the load
  failed and returns 0, so the DSP's own check for that error cannot fire.
* `rice_block_empty`: with `nvals == 0` and no whole word in the buffer the
  function reads one value. A first partition as long as the predictor order
  is such a block, and the decoder allows it.
* `stream_silence`: for frames that are lost the decoder writes silence, which
  it makes with `memset` in the output buffers. These hold the good frame that
  showed the loss, which is written after it, with zeros at its beginning.
* `stream_endless`: a file that ends in a cut frame larger than the buffer.
  The frame is bad, its sync is no longer in the buffer, so the decoder seeks
  to behind it. `file_read_callback_` never lowers `*bytes`, and so the decode
  position counted bytes behind the end of the file: the seek goes to a place from
  where the same sync is found again, for ever.

Some things the passing runs show beside what they are for. `virtual_fs_api_eof` is
`tell()+1 >= filesize`, true with a byte unread: `ReadsDeliverFile` and
`IntactIsDecoded` say exactly what this may cost, the last byte and with it the last
frame, when a refill ends in front of it. And in `RiceBlock` the bound on `msbs`
is only checked in the register loop, so which values are bounded depends on the
deliveries; `MsbsLimit` is where the code has it, and `ValuesAreTheStream` holds for
what either way returns.

The two demos ask something of their input. `EndsAsItShould` and `ComesToAnEnd` name
what may keep them from an end: a song in a format that `buffer` or `pcm` are too
small for, and the decode of a damaged file, which takes a card that was prepared
so (with the DSP, whose compressed files come with the card) or a write to the card
that failed or found it full (on the CM33). With the DSP that includes a file that could not be loaded:
the decode runs over what is in the region. `StopsForAReason` says which songs
go through all four tests although nothing or only a part of them was encoded.

`ProgressIsTrue` claims the number of frames from the second call of the progress
callback on. The first call says 2: `stream_encoder.h:672` calls the number "Frames
written so far", but the writes of metadata have raised the counter to 1 by then
(`stream_encoder.c:2924`), and the call adds the frame it is made for. Callers that show
a percentage will not notice.

`DamageIsLocal` is about files that are no smaller than the read buffer, which has
8 KB in the demo. A smaller one is filled up with bytes that are not of the file, and
`get_decode_position` (`stream_decoder.c:941`) subtracts more unread bytes than were
read, against the assertion one line above: the position of a sync wraps around.
When a bad frame uses the buffer up, the seek to its sync goes to an address below the
region. `virtual_fs_api_seek` only looks for addresses that are too high, and
`virtual_fs_api_eof` takes this one for one behind the end: the end is reported, and
the whole frames behind that sync are never read. Without the condition TLC finds
this with a buffer of 20 words of two bytes and a file of two frames, the first
with a long body of which only the first bytes are there. It came up when the property
was to be proved; of the small files of `stream_decoder` none comes to it.

## 4. What is proved

TLAPS checks these for all values of the constants.

`DspLinkProofs` (for any word width, arguments and payloads), from
`MaxWordAssumption`, `ArgsAssumption` and `NoDataAssumption`:
`TypeCorrect`, `CoresStayInStep`, `AnswersAreForTheirCallers` and
`WindowsAreExclusive`. The inductive invariant is `TypeOK /\ InStep /\
AnswerIsForCaller`. `WindowExclusion` alone is not inductive, it holds because
of where the cores are relative to each other, which is what `InStep` says for
each point of a call: before its first word (the CM33 is waiting, or still
busy with a CLOSE), between the words, at the answer. The CLOSE case is the
reason `InStep` has to speak of what is in the register and not only of program
counters.

The second half of `DspLinkProofs` proves `LinkImplementsService`: every behaviour of the word-by-word link is one of `DspService`. The refinement
mapping reads the queue of pending calls off the words in the CM33's locals, in
the register and in the DSP's send loop. `BacklogIsQueue` shows with `InStep`
that these words are always those of at most two whole calls, a CLOSE and the
current one. `DataInv` says when each window holds the data of the current call:
the write window from the fill to the answer, the read window from an
acknowledged READ to the copy. Then each action is one of: a stutter (`Still`),
`Issue` (an API function is entered), `Perform` (a case of the switch) or
`Return` (an answer taken, the window copied, the second word of a CLOSE sent).

`VirtualFsProofs` (any sizes of region, chunk, file, offsets, lengths and word),
from `SizesAssumption` and `UseAssumption`: `TypeCorrect`,
`CopiesStayInRegion`, `RegionAlwaysHoldsFile`, `ReaderDeliversFile` and
`ReaderStaysInFile`. The invariant adds to `TypeOK` what the loader has done so
far (`LoadInv`: what is left is what is not copied, what is copied is in place)
and where the reader is (`UseInv`: the pointer is where the bytes read so far
end). The lemma `ReadStaysInside` is the point of the proof: when the reader is
not at its end, `size - tell` does not wrap. `SizesAssumption` says that the
region is smaller than the address space and that the reader's bound on seeks is
not below the loader's, as in both headers; `UseAssumption` that offsets do not
come within one of the wrap. At 2^32 - 1 `tell() + 1` would be 0 and the test for
the end would let a read start outside: no offset of this size can come from a
file that fits the region.

`DspBenchProofs` (any number of songs and levels, any sizes of the region, the
files, the header, the blocks and the chunks, any card), from
`SizesAssumption`, `BenchAssumption` and `DisksAssumption`, which says what a card is:
`RegionIsExclusive`, `CodecsAlwaysSeeTheirFile`, `EncoderIsFedTheSong` and
`NoSongIsCut`. None of the properties is inductive; they hold because of what
the two cores know of each other. `LinkInv` says, for each place of the DSP's program,
which call it is in and what is queued or answered of it, with the CLOSE that a
failed encode may have left in front; `LoadInv` that the CM33 loads a file only for
the call the DSP is in (`RequestNames`: the number names the file that the DSP
goes on to code), and that an answer tells what the load came to; `RegionInv`
that this stays true until the next request. `FedInv` adds where the reader
stands: at the end of what the encoder got. `EncoderIsFedTheSong` is about songs of 16
bits in one or two channels, the only ones for which joining two bytes is the right
conversion and whose blocks fit the buffers; that they fit is part of the proof.
`NoSongIsCut` is about any format in which a sample of all channels has two bytes or
more: with 8-bit mono the early end of file takes the last sample. Both formats are
ones that the message in `main_dsp.c:126` rules out and the check in front of it does not.
The numbers of songs and levels are those that fit the number of a file, at most 15
each.

`StreamEncoderProofs` (any block size, sample width, song, size of reads, room
on the card, and any failure), from `EncoderAssumption` and `PowersAssumption`, which
says what the provers do not know of powers of two (they are positive numbers, and
2^0 is 1; TLC evaluates it): `SamplesAreNeverLost`, `VerificationIsQuiet`,
`LooseStaysSticky`, `ErrorsAreAlwaysReported`, `TypeCorrect`, `FileIsAlwaysTheStream`
and `ProgressIsAlwaysTrue`.

* About the coding, without states: `WastedBits` (the greatest shift that loses
  nothing), `SubframeGivesBack`, `StereoIsUndone` (each assignment is
  undone, with mid rounded down) and `FramesGiveBack`: what the verify decoder makes
  of a frame are the samples it was made from. `Overread` is the delicate
  one: after a block was shifted in place the sample behind it is moved to
  the front in both sets of buffers, and they are still left and right, mid and
  side of the same samples.
* `Lossless` is not inductive: it does not say that the mid and side buffers go
  with the left and right ones, that the FIFO holds what is buffered, or where
  the client is. `LosslessInv` does: `Input` (what the client has not handed on yet
  is the song up to where it is), `Carried` (buffers and FIFO agree and
  continue what was passed on). It says so only while the encoder is OK, since a
  failed call leaves the buffers as they are; that nobody looks at them again is part
  of the invariant (`Running`). `TurnStep` and `FinishStep` are the two places where
  a frame is made.
* `LooseInv` ties the counter to the number of frames modulo `LooseFrames`
  (`CountsUp`), and needs `LosslessInv` because a frame that is not verified
  counts without being passed on.
* `ErrorInv` follows a failure from where it happens to the return value: in
  the state, in `error` of `finish`, in `ok` of `my_EncodeDemo`.
* `TypeCorrect` needs more than types. After a failed frame the buffers are no longer
  what `LosslessInv` says, but `finish` may still cut them, so `SamplesTyped` ties the
  lengths of mid and side to those of left and right in every state; and `LosslessInv`
  gives them as long as the encoder is OK (`LiveTypes`).
* `FileIsTheStream` speaks of the end of an encode only. `Books` ties what
  STREAMINFO will say (least and greatest frame, samples, MD5) to the frames made, over
  any number of them; `Whole` has every frame but the last one a whole block.
  `QuietInv` says that with no failure everything read is in the frames once finish
  has made the last one. `FileHolds` then gives the file in every state between:
  it keeps, as far as the card has room, what it was given (`Stored`: the header
  as far as `update_metadata_` has completed it, and the frames), and the next
  write goes to its end, or, in `update_metadata_`, to the field it
  completes. A full card is no failure to the encoder: `f_write` writes less and says
  OK. `Replaced` shows why completing a STREAMINFO that never got onto the card
  does no harm: the seek ends at the end of the file, and there is no room behind it.
* `ProgressInv` counts what was written. The counter of frames is 1 from the first
  write of metadata on (`Counts`), so from the second frame on it is true.
* The lemmas these need are about sequences: what `FlattenSeq` and the sum
  of `FoldSeq` give for one element more (`FlattenOneMore`, `TotalOneMore`; as the
  library's functions over finite sets they are recursive, and `SetInduction` proves
  what induction is needed from well-foundedness), and what writing over a part of a
  sequence keeps of it (`WrittenOver`).

`Cm33BenchProofs` (any number of songs and levels, any card, any number of
failures): `FilesAreAlwaysRight`, `SramModeAlwaysKeepsCard`,
`LogsAlwaysTellTheTests` and `StopsOnlyForAReason`. `PlaceInv` and `CardInv` say
where the program is and that what it loaded stays in the region for all levels of
a song; a file is `Proper` when it is what its name says or nothing. `ReasonInv` is the
history that `StopsForAReason` needs. `FoundInv` and `RefusedInv` hold whatever fails: all
songs the first test is past were on the card, and a song with a refused header has no
compressed file, so the second test does not get past it. `EncodedInv`, `LoadedInv` and
`StoppedInv` hold as long as nothing failed: a song that cannot be refused has its
compressed files, of whatever form, from its encode on (`WritesItsFlac`, `FlacStays`), so
neither a load nor a log is a reason to stop for it. `LogInv` numbers the entries of
a log, which keeps them in order over a test that is given up.

`BitReaderLemmas` (any size of bytes, words and buffer, any bytes) says for each function
of the reader what becomes of the place in it, of the bytes and of a remembered sync.
`Shifting`, `Filling` and `NotFilling` are the points where the code can
go wrong: bytes move, the odd tail word is turned to memory order for the client
and back, and the place is the same one of the stream.

`BitReaderProofs` (any stream, deliveries, failures and reads), from
`UseAssumption`: `BufferAlwaysHoldsStream`, `LimitAlwaysRespected`,
`BufferNeverFull` and `ReaderImplementsBitStream`. The assumption asks for a buffer of two words: with one the odd bytes
of a word in use leave no room. `bitreader.c` has 65536 bits. `SyncInv` is needed
because a rewind goes to the byte behind the remembered one: in a frame there is
always one more byte in the buffer. `LimitInv` speaks of the bits that are charged but
not yet read, and of the bytes of a block that will not be charged any more.

The second part of `BitReaderProofs` proves `ReaderImplementsBitStream`: whatever is
read, however it is delivered, the caller sees a position in a stream of bits that
moves by what is asked for. A read is one step of the stream, the one in which its
last part is done; until then the stream is where the read began. `AnswerInv` says of a
read in progress that what it has got is the stream from where it began and that
what is left to do leads to the end of what was asked for (`Leads`: for each part where
it ends), or, for a unary number, that all it has got are zeros. `CrcInv` says that
inside a frame the running CRC is that of the bytes from the sync to the word, or the
byte of the head word, that it counts next (`CrcPlace`); it has to hold through `ShiftToFront`,
which takes the words that leave the buffer into the CRC, and through the partial words
at both ends of the frame. A skip of no bits asks for nothing and ends as it begins:
that is `ReadNothing` of `BitStream`.

Its third part is about `RiceBlock`, for every width of word, parameter, length of
block and place where the block begins: `BlockIsAlwaysTheStream` and
`ReaderAlwaysBehindBlock`, from `RiceAssumption` (a parameter is less than the width
of a word, which `bitreader.c:877` asserts). What the reader's own lemmas say of the
buffer (`SourceBits`, `SourceConsuming`, `SourceRefilled`) is shared with the first
part: both uses keep `BufferInv`.

* `Starts` says where each value of the block begins. It is a recursive function of
  the values read so far; that it satisfies its own equation (`AreStarts`) follows
  for one value more from its being so for those before, so `ValuesInv` carries
  the equation along with the values.
* `RegPlace` says what the registers are between two values, in the middle of a unary
  part, and in front of a binary one: the word `b` holds the last `ucbits` bits of a
  whole word of the buffer, shifted to the front with zeros behind, and that word
  ends where the value's first bit and what was read of it say. When a unary
  part runs over whole words (`nextWord`), `x` is the bits of the first plus a number
  of whole words: that is why the subtraction in `ucbits`, which C takes modulo the
  width of a word, is right.
* `TailPlace` says the same of the tail, where the place is the reader's. The steps
  between the two (`ToReader`, `FromReader`) are where the code can go wrong.

`StreamDecoderProofs` (any streams, any files they became, any sizes of
words, buffer and region, any limits of the repair), from `DecoderAssumption` and
`InputsAssumption`: `FramesAlwaysInPlace`, `TypeCorrect`, `ReaderAlwaysKeepsItsPlace`,
`SearchAlwaysGoesOn` and `DamageIsAlwaysLocal`. `InputsAssumption` says that the region
lies behind as many addresses as the buffer has bytes, that parameters in a file are
those of a frame of its stream, and of these frames that each has subframes, that its
hints are no longer than a header may ask for, and that its subframes hold no
parameters of another. They may hold syncs, and the file that became of the stream may
hold any of its bytes anywhere.

* `PlacesInv` has the state of the repair in it: the frame written last is the last
  of the history (`HistoryInv`), and what is still to be filled with silence and
  what is filled already are what was wanted when the frame was read (`GapInv`). It
  holds from the header that locates a frame to its write, over any number of bad
  frames between.
* `ReaderInv` is about the place in the file; the lemmas of `BitReaderLemmas` give what
  each step does to the buffer. `ReaderKeepsItsPlace` is not inductive: it speaks of bytes
  that were not taken, and a rewind takes some a second time, so `BufferInv` has
  all bytes of the buffer in their places. `SyncInv` says why the place behind a
  remembered sync is in the buffer: by the time its frame can be bad, one more byte
  was taken. `TellInv` says that bytes from behind the file are in the buffer
  only when all of the file was read. It has two corners that come from the
  subtraction in `get_decode_position`, which counts such bytes as read: a
  seek may go to one of the last addresses below the region (`BelowRegion`), where
  all but the last are taken for the end of the file; and from the last one
  the reader gets the byte in front of the file, and then the file, in order.
* `LocalInv` is why damage stays local. Its last part, `KeptInv`, is the property at
  every step: a whole frame that is not exempt and not written yet lies where the
  search will come by (`GoesOn`), or it is the one that is read (`IsRead`), or the one
  that waits to be written (`IsWhole`). The exemptions are those of the property: a
  sync right in front (`SyncBefore`), a frame from the future, one that ends the file,
  whose last byte may not be read, and a history that is full (`MaxWritten`).
  That a step keeps it needs to know that the bytes read so far are those of the file
  from the sync on (`RawInv`), how long a header can be (`HeaderInv`), that a rewind
  leads to no place behind the sync that a frame began with (`SeekInv`), and of the
  beginning, that no sync is in the metadata (`MetadataInv`). A frame that turns out
  good is written and what was in it is skipped: `NoFrameInside` shows that no whole
  frame can begin there.
* `CrcInv` is under `LocalInv`: a whole frame must also be found good, so the
  running CRC-16, which the bit reader gathers in pieces and over refills, is that of the
  bytes read from the sync on. Its lemmas are the last of `BitReaderLemmas`; the bit
  reader's own refinement rests on the same.
* `Scope` has the two conditions of the property on the file, that it begins with
  metadata and is no smaller than the buffer. Without the second it does not
  hold (see section 3): `PlaceInv`, that the reader is never in front of the file, is
  where it is used.

### Only model-checked

* Liveness (`CallReturns`, `ComesToAnEnd`, `EndsAsItShould`, `IntactIsDecoded`,
  `EndsInSuccess`): temporal reasoning under fairness is out of reach of the
  provers used.

## 5. Not modelled, and why

* The codec's arithmetic: predictors, windows, quantisation, residual coding.
  Much of the encoder's analysis is floating point. In the models of encoder
  and decoder a subframe is what it codes.
* Of the decoder: `seek_absolute`, `process_single`, the contents of metadata
  blocks other than STREAMINFO; the demo calls none of them. Of the encoder: other
  numbers of channels than two, 32 bits per sample, seek tables.
* FatFs, the SD stack, drivers, board and start-up code: vendor code below the
  interfaces modelled; it may fail whenever it is called. With the device
  headers it is most of this repository's lines, which is why the part of them
  that definitions here stand for is small: the headers declare registers.
* A WAV header of no channels or of less than 8 bits, which `main_dsp.c:142` divides by;
  frame sizes against the 10 KB buffers of the SRAM mode: listed as hazards without
  a property. The life of heap objects.
* What a program does after it has written past the end of a buffer.
* When FatFs writes its buffers to the card.
* Caches: the shared regions are taken to be coherent, as the demo's set-up of
  them is the board's.
* Metadata iterators, Ogg, SIMD variants: not part of this build.

## 6. Plan

Done, in this order: link, virtual file system, two-core demo, bit reader, rice
decoder, CM33 demo, stream decoder, stream encoder; proofs of the link, the
virtual file system, the two-core demo, the encoder, the bit reader with its
refinement, the rice decoder, the CM33 demo and the stream decoder.

Next:

1. `BitWriter` with `BitReader` as its inverse; frame headers and coded numbers
   of `stream_encoder_framing.c` against those `stream_decoder.c` reads.
2. `StreamDecoder` over the files of `StreamEncoder`: what is decoded is the song.
3. Fixed predictors: `restore` after `compute_residual` as the identity on words
   of a small width; the checks of `format.c`.
4. `seek_absolute` of the decoder, should the demo come to call it.
5. Theorems: what `IntactIsDecoded` says of a step, that an undamaged file has no
   bad frame in it, by the invariants of `DamageIsAlwaysLocal`.

Runs that ask the same of a bigger composition replace smaller ones where that
keeps their number down: `stream_decoder` has replaced a model of the callbacks
alone.

## 7. Running

    tlc -config MCDspLink.cfg MCDspLink
    tlapm DspLinkProofs.tla
    tlapm VirtualFsProofs.tla
    tlapm DspBenchProofs.tla
    tlapm BitReaderLemmas.tla
    tlapm BitReaderProofs.tla
    tlapm Cm33BenchProofs.tla
    tlapm StreamDecoderProofs.tla
    tlapm StreamEncoderProofs.tla

and likewise for each run in `PROJECT.json`, which also names for every
property a mutant of the model (an operator beside the one it replaces,
marked "Mutant:") that breaks it.
