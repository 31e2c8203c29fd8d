------------------------------- MODULE Cm33Bench ------------------------------
(***************************************************************************)
(* The demo on the CM33 alone (main_cm33.c without DSP_RUN): encode the    *)
(* songs at every level, decode what was encoded, first with files on the  *)
(* SD card, then with output to a buffer in SRAM, each test with a log.    *)
(*                                                                         *)
(* A file is known by what it was made from and by what a codec can make   *)
(* of it.  FatFs fails any operation, MaxFaults of them; a full card cuts a *)
(* write short without an error.  The names that sprintf makes are taken   *)
(* to differ from each other.                                              *)
(***************************************************************************)
EXTENDS Integers, Sequences

CONSTANTS
    TEST_MUSIC_NUMS,
    MaxLevel,       \* the last compression level, 8
    MaxFaults       \* bound: operations on the card that fail

ASSUME BenchAssumption ==
    /\ TEST_MUSIC_NUMS \in Nat \ {0}
    /\ MaxLevel \in Nat /\ MaxFaults \in Nat

VARIABLES
    pc,         \* where main or the test is
    test,       \* 1..4: encode and decode to the card, encode and decode to SRAM
    mode,       \* sfilewrite2SDMode
    fileiter, compresslevel,
    disk,       \* what is in each file
    sram,       \* what is in the music region
    logs,       \* the entries of each test's log
    result,     \* what each test returned
    faults      \* how often FatFs failed so far

place == <<pc, test, fileiter, compresslevel>>
vars == <<place, mode, disk, sram, logs, result, faults>>

Tests == 1..4
Songs == 1..TEST_MUSIC_NUMS
Levels == 0..MaxLevel
Encoding == test \in {1, 3}

\* File names, each with what ought to be in the file
Wav(s) == [kind |-> "song", song |-> s, level |-> 0]
Flac(s, l) == [kind |-> "flac", song |-> s, level |-> l]
WavOf(s, l) == [kind |-> "wav", song |-> s, level |-> l]
Nothing == [kind |-> "nothing", song |-> 0, level |-> 0]
DummyFlac == [Nothing EXCEPT !.kind = "dummy.flac"]
DummyWav == [Nothing EXCEPT !.kind = "dummy.wav"]

Kept == {Wav(s) : s \in Songs}
           \cup {Flac(s, l) : s \in Songs, l \in Levels}
           \cup {WavOf(s, l) : s \in Songs, l \in Levels}
Files == Kept \cup {DummyFlac, DummyWav}

Contents(of, form) == [of |-> of, form |-> form]
Absent == Contents(Nothing, "absent")
Empty == Contents([Nothing EXCEPT !.kind = "empty"], "empty")

\* The songs on a card: one that my_EncodeDemo takes; one with less data than its
\* header says, or whose last byte is a sample of its own, which ends too early; one
\* whose settings the encoder refuses when the output is already open; one of
\* samples too wide for buffer or pcm; one whose header is refused; one shorter than
\* a header, which what the last read left in buffer may complete.
SongForms == {"whole", "short", "unsupported", "wide", "invalid", "scrap"}
MayBeRefused == {"invalid", "scrap"}

\* What a codec leaves of its input when the card does not fail, if the output is
\* created: all of it, a well-formed part, or a file without a sample. A flac that a
\* failing card cut may have lost nothing but its STREAMINFO, or all of its frames.
Leaves(form) ==
    CASE form = "whole" -> {"whole"}
      [] form = "part" -> {"part"}
      [] form = "wide" -> {"whole", "part"}
      [] form \in {"short", "cut"} -> {"part", "empty"}
      [] form \in {"unsupported", "scrap", "empty"} -> {"empty"}
      [] form = "invalid" -> {}

Ok == UNCHANGED faults
Fault == faults < MaxFaults /\ faults' = faults + 1

\* Each song is on the card, in one form or another, or not, and nothing else is.
Init ==
    /\ pc = "openLog" /\ test = 1 /\ mode = "card"
    /\ fileiter = 1 /\ compresslevel = 0
    /\ \E present \in SUBSET Songs, form \in [Songs -> SongForms] :
          disk = [f \in Files |-> IF f \in {Wav(s) : s \in present}
                                  THEN Contents(f, form[f.song]) ELSE Absent]
    /\ sram = Absent
    /\ logs = [t \in Tests |-> <<>>]
    /\ result = [t \in Tests |-> "none"]
    /\ faults = 0

-------------------------------------------------------------------------------
(* The log *)

\* Mutant: all tests write to the first one's log.
LogOfFirstTest(entry) ==
    \/ logs' = [logs EXCEPT ![1] = Append(@, entry)] /\ Ok
    \/ UNCHANGED logs /\ Fault

\* f_write's result is looked at in one place only.
Log(entry) ==
    \/ logs' = [logs EXCEPT ![test] = Append(@, entry)] /\ Ok
    \/ UNCHANGED logs /\ Fault

\* A test that returns 1 leaves its log open, and main stops for good.
GiveUp ==
    /\ result' = [result EXCEPT ![test] = "fail"]
    /\ pc' = "stopped" /\ UNCHANGED <<test, fileiter, compresslevel>>

Goto(next) == pc' = next /\ UNCHANGED <<test, fileiter, compresslevel, result>>

OpenLog ==
    /\ pc = "openLog"
    /\ \/ /\ logs' = [logs EXCEPT ![test] = <<>>] /\ Ok
          /\ Goto("name")
       \/ Fault /\ GiveUp /\ UNCHANGED logs
    /\ UNCHANGED <<mode, disk, sram>>

\* 2.1 write file name to log
LogName ==
    /\ pc = "name" /\ fileiter \in Songs
    /\ Log(<<fileiter>>)
    /\ IF Encoding \/ logs' # logs THEN Goto("load") ELSE GiveUp
    /\ UNCHANGED <<mode, disk, sram>>

-------------------------------------------------------------------------------
(* Input and output *)

Input == IF Encoding THEN Wav(fileiter) ELSE Flac(fileiter, compresslevel)

\* Mutant: the output's name does not depend on the mode.
OutputIgnoresMode ==
    IF Encoding THEN Flac(fileiter, compresslevel) ELSE WavOf(fileiter, compresslevel)

Output ==
    IF mode = "card"
    THEN IF Encoding THEN Flac(fileiter, compresslevel)
         ELSE WavOf(fileiter, compresslevel)
    ELSE IF Encoding THEN DummyFlac ELSE DummyWav

\* Mutant: the test goes on with the next song.
CopyMusic2SramSkips ==
    /\ pc = "load"
    /\ \/ disk[Input] # Absent /\ sram' = disk[Input] /\ Ok /\ Goto("code")
       \/ /\ disk[Input] = Absent /\ Ok /\ UNCHANGED <<sram, test, result>>
          /\ pc' = "name" /\ fileiter' = fileiter + 1 /\ compresslevel' = 0
    /\ UNCHANGED <<mode, disk, logs>>

\* Mutant: a load that failed is tried again.
CopyMusic2SramRetries ==
    /\ pc = "load"
    /\ \/ disk[Input] # Absent /\ sram' = disk[Input] /\ Ok /\ Goto("code")
       \/ disk[Input] = Absent /\ UNCHANGED <<place, sram, result, faults>>
    /\ UNCHANGED <<mode, disk, logs>>

\* virtual_fs_api_copyMusic2Sram: fails before or in the middle of the copy.
CopyMusic2Sram ==
    /\ pc = "load"
    /\ \/ /\ disk[Input] # Absent /\ sram' = disk[Input] /\ Ok
          /\ Goto("code")
       \/ /\ disk[Input] # Absent /\ Fault
          /\ sram' \in {sram, [disk[Input] EXCEPT !.form = "cut"]}
          /\ GiveUp
       \/ disk[Input] = Absent /\ Ok /\ UNCHANGED sram /\ GiveUp
    /\ UNCHANGED <<mode, disk, logs>>

\* A song becomes a flac of the level, a flac the wav it was made from.
CodedFrom(c) ==
    [kind |-> IF Encoding THEN "flac" ELSE "wav",
     song |-> c.of.song,
     level |-> IF Encoding THEN compresslevel ELSE c.of.level]

\* With output to SRAM the file is created and nothing is written to it. What is
\* decoded is not the input of anything.
Coded(form) ==
    IF mode = "sram" \/ form = "empty" THEN Empty
    ELSE Contents(CodedFrom(sram), IF Encoding THEN form ELSE "decoded")

Leave(form) == disk' = [disk EXCEPT ![Output] = Coded(form)]

\* my_EncodeDemo or libFLAC_decode return; nobody looks at what. The output is not
\* even created for a header that is refused, or when the card fails.
CodecReturns ==
    /\ \/ \E form \in Leaves(sram.form) : Leave(form) /\ Ok
       \/ UNCHANGED disk /\ sram.form \in MayBeRefused /\ Ok
       \/ Leave("empty") /\ Leaves(sram.form) # {} /\ Fault
       \/ Leave("cut") /\ Leaves(sram.form) \notin {{}, {"empty"}} /\ Fault
       \/ UNCHANGED disk /\ Fault
    /\ Goto("time")

\* The decoder of a flac whose last frame is cut may search the same bytes for ever
\* (StreamDecoder), with an output that is never closed.
CodecHangs ==
    /\ sram.form = "cut"
    /\ Leave("empty") /\ Ok /\ Goto("hung")

\* A block of samples too wide goes past the end of buffer, and the program anywhere.
CodecOverruns ==
    /\ sram.form = "wide"
    /\ UNCHANGED disk /\ Ok /\ Goto("overrun")

Code ==
    /\ pc = "code"
    /\ CodecReturns \/ CodecHangs \/ CodecOverruns
    /\ UNCHANGED <<mode, sram, logs>>

\* Mutant: an encoded file is loaded for its first level only.
LogTimeLoadsOnce ==
    /\ pc = "time"
    /\ Log(<<fileiter, compresslevel>>)
    /\ IF compresslevel + 1 \in Levels
       THEN compresslevel' = compresslevel + 1 /\ UNCHANGED fileiter /\ pc' = "code"
       ELSE compresslevel' = 0 /\ fileiter' = fileiter + 1 /\ pc' = "name"
    /\ UNCHANGED <<test, mode, disk, sram, result>>

\* The time goes to the log, and the next level or the next song is next. A song
\* is loaded once for all levels, an encoded file for its own.
LogTime ==
    /\ pc = "time"
    /\ Log(<<fileiter, compresslevel>>)
    /\ IF compresslevel + 1 \in Levels
       THEN /\ compresslevel' = compresslevel + 1 /\ UNCHANGED fileiter
            /\ pc' = IF Encoding THEN "code" ELSE "load"
       ELSE compresslevel' = 0 /\ fileiter' = fileiter + 1 /\ pc' = "name"
    /\ UNCHANGED <<test, mode, disk, sram, result>>

\* The test returns 0 and main goes on to the next one.
TestDone ==
    /\ pc = "name" /\ fileiter \notin Songs
    /\ result' = [result EXCEPT ![test] = "ok"]
    /\ fileiter' = 1 /\ UNCHANGED compresslevel
    /\ IF test = 4 THEN pc' = "finished" /\ UNCHANGED test
       ELSE pc' = "openLog" /\ test' = test + 1
    /\ mode' = IF test = 2 THEN "sram" ELSE mode
    /\ UNCHANGED <<disk, sram, logs, faults>>

\* while(1), in main or in the decoder; and what lies behind an overrun, where the
\* model ends
Spin == pc \in {"stopped", "finished", "hung", "overrun"} /\ UNCHANGED vars

Go ==
    OpenLog \/ LogName \/ CopyMusic2Sram \/ Code \/ LogTime \/ TestDone

Next == Go \/ Spin

\* The processor runs.
Spec == Init /\ [][Next]_vars /\ WF_vars(Go)

-------------------------------------------------------------------------------
(* Properties *)

\* Whatever failed before, a codec runs over the file it is meant to run over,
\* and a file never holds anything but what its name says.
FilesAreWhatTheyAreFor ==
    /\ pc = "code" => sram = disk[Input] /\ sram # Absent
    /\ \A f \in Kept : disk[f].of \in {f, Nothing, Empty.of}

\* "write to sram, use dummy file(avoid modify needed file)": from the third test
\* on no file that was put on the card or made by the first two changes.
SramModeKeepsCard ==
    [][test > 2 => \A f \in Kept : disk'[f] = disk[f]]_vars

\* A log names the songs in order, each with its levels in order, and no other
\* test's; with every write successful nothing is missing from it.
EntryOf(e) == (e[1] - 1) * (MaxLevel + 2) + (IF Len(e) = 1 THEN 0 ELSE e[2] + 1)
LogsTellTheTests ==
    \A t \in Tests :
        /\ \A i, j \in 1..Len(logs[t]) :
              i < j => EntryOf(logs[t][i]) < EntryOf(logs[t][j])
        /\ t > test => logs[t] = <<>>
        /\ result[t] = "ok" /\ faults = 0 =>
              Len(logs[t]) = TEST_MUSIC_NUMS * (MaxLevel + 2)

\* With a song missing the program gets no further than the first test, and with one
\* whose header is refused no further than the second, whatever else happens. When
\* nothing failed, that is why it stops for good: other songs are no reason, be they
\* encoded in part or as an empty flac (in a file shorter than a header the last
\* song's data may make up for it or not).
StopsForAReason ==
    LET missing == \E s \in Songs : disk[Wav(s)] = Absent
        Some(forms) == \E s \in Songs : disk[Wav(s)].form \in forms IN
    /\ missing => test = 1
    /\ Some({"invalid"}) => test <= 2
    /\ pc = "stopped" /\ faults = 0 =>
          \/ test = 1 /\ missing
          \/ test = 2 /\ Some(MayBeRefused)

\* The benchmark comes to an end, one way or the other, but for samples too wide for
\* its buffers, and for a decode that does not return, which takes a card that failed.
ComesToAnEnd ==
    <>(\/ pc \in {"stopped", "finished"}
       \/ pc = "hung" /\ faults > 0
       \/ pc = "overrun" /\ disk[Wav(fileiter)].form = "wide")
===============================================================================
