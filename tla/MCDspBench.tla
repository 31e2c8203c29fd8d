------------------------------ MODULE MCDspBench ------------------------------
(***************************************************************************)
(* Bounds for DspBench: two songs and two levels, so that a file of either *)
(* kind follows another of either kind; a region of 15 bytes, a header of  *)
(* three, blocks of two samples and so buffers of eight bytes and of four  *)
(* samples; files loaded in chunks of five: several chunks and several     *)
(* blocks, none aligned.                                                   *)
(***************************************************************************)
EXTENDS DspBench

\* A file that the card delivers up to a byte; a WAV file, of a format and as many
\* samples as its header counts; a compressed file
File(size, readable) ==
    [present |-> TRUE, size |-> size, readable |-> readable, wave |-> FALSE,
     channels |-> 1, width |-> 1, samples |-> 0, sound |-> FALSE]
Wave(size, chans, bytes, count) ==
    [File(size, size) EXCEPT !.wave = TRUE, !.channels = chans, !.width = bytes,
                             !.samples = count]
Sound(size) == [File(size, size) EXCEPT !.sound = TRUE]
Missing == [File(0, 0) EXCEPT !.present = FALSE]

\* 16 bits, mono: a full and a partial block; 16 bits, stereo: two blocks; 8 bits,
\* mono: the last sample is lost; 24 bits, stereo: larger than the buffer; 8 bits,
\* three channels: larger than pcm; a header that counts more than there is; one
\* that is cut; one that is no WAVE header; an empty file; one that is too large;
\* one the card fails to deliver after the first chunk; none.
WavFiles == {Wave(9, 1, 2, 3), Wave(15, 2, 2, 3), Wave(6, 1, 1, 3),
             Wave(15, 2, 3, 2), Wave(9, 3, 1, 2), Wave(7, 1, 2, 3),
             Wave(2, 1, 2, 3), File(5, 5), File(0, 0), Wave(16, 1, 2, 3),
             [Wave(9, 1, 2, 3) EXCEPT !.readable = 5], Missing}

\* A whole file, a damaged one, one the card fails to deliver, none
FlacFiles == {Sound(6), File(7, 7), [Sound(7) EXCEPT !.readable = 5], Missing}

\* Any WAV file before one that is encoded, one that is read from what the first
\* left in the buffer, and one that stops the program; any compressed file before a
\* whole one and before none (they differ by level only).
SecondWav == {Wave(15, 2, 2, 3), Wave(2, 1, 2, 3), Missing}
SecondFlac == {Sound(6), Missing}
MCDisks ==
    {[n \in Names |->
        CASE n = Wav(0) -> wav[1] [] n = Wav(1) -> wav[2]
          [] n % 16 = 1 -> flac[1] [] n % 16 = 2 -> flac[2]] :
        wav \in WavFiles \X SecondWav, flac \in FlacFiles \X SecondFlac}
===============================================================================
