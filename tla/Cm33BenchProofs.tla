---------------------------- MODULE Cm33BenchProofs ----------------------------
(***************************************************************************)
(* Proofs about Cm33Bench, for every number of songs and levels and for    *)
(* any number of operations that fail: no file holds what it is not for,   *)
(* the tests in SRAM mode leave the card alone, a log tells what was done, *)
(* and the program stops only for a reason.                                *)
(***************************************************************************)
EXTENDS Cm33Bench, TLAPS, SequenceTheorems

-------------------------------------------------------------------------------
(* The inductive invariant *)

\* Entries of a log, a song's name and a level's time, and how they get there
Entry == {e \in Seq(Nat) : Len(e) \in 1..2}

\* Where main and the test can be; the third test is the first one in SRAM mode.
PlaceInv ==
    /\ pc \in {"openLog", "name", "load", "code", "time",
               "stopped", "finished", "hung", "overrun"}
    /\ test \in Tests /\ fileiter \in 1..(TEST_MUSIC_NUMS + 1) /\ compresslevel \in Levels
    /\ mode = IF test > 2 THEN "sram" ELSE "card"
    /\ faults \in Nat
    /\ pc = "openLog" => fileiter = 1
    /\ pc \in {"openLog", "name"} => compresslevel = 0
    /\ pc \in {"load", "code", "time"} => fileiter \in Songs
    /\ logs \in [Tests -> Seq(Entry)]

\* What there is in the files, and that a song stays in the region for all its levels
Proper(f, c) == c \in {Absent, Empty} \/ c = Contents(f, c.form)
Loaded == pc = "code" \/ (pc = "time" /\ Encoding)
CardInv ==
    /\ disk = [f \in Files |-> disk[f]]
    /\ \A f \in Kept : Proper(f, disk[f])
    /\ Loaded => sram = disk[Input] /\ sram # Absent

Inv == PlaceInv /\ CardInv

\* The songs that the first test found; the flacs that it made, when nothing failed, of
\* the songs whose header is taken, and never of one whose header is not; and the flacs
\* that the second test loaded.
Found(s) == test > 1 \/ s < fileiter \/ (s = fileiter /\ pc \in {"code", "time"})
EncodedTo(s, l) ==
    \/ test > 1 \/ s < fileiter
    \/ s = fileiter /\ (l < compresslevel \/ (l = compresslevel /\ pc = "time"))
LoadedTo(s, l) ==
    \/ test > 2
    \/ test = 2 /\ s < fileiter
    \/ /\ test = 2 /\ s = fileiter
       /\ l < compresslevel \/ (l = compresslevel /\ pc \in {"code", "time"})
FoundInv == \A s \in Songs : Found(s) => disk[Wav(s)] # Absent
RefusedInv ==
    \A s \in Songs, l \in Levels :
        disk[Wav(s)].form = "invalid" => disk[Flac(s, l)] = Absent
LoadedInv == \A s \in Songs, l \in Levels : LoadedTo(s, l) => disk[Flac(s, l)] # Absent
EncodedInv ==
    faults = 0 => \A s \in Songs, l \in Levels :
        EncodedTo(s, l) /\ disk[Wav(s)].form \notin MayBeRefused =>
            disk[Flac(s, l)] # Absent
StoppedInv ==
    pc = "stopped" /\ faults = 0 =>
        \/ test = 1 /\ \E s \in Songs : disk[Wav(s)] = Absent
        \/ test = 2 /\ \E s \in Songs : disk[Wav(s)].form \in MayBeRefused
ReasonInv == FoundInv /\ RefusedInv /\ EncodedInv /\ LoadedInv /\ StoppedInv

\* How many entries the log of the test has when nothing failed
Entries ==
    (fileiter - 1) * (MaxLevel + 2)
        + (IF pc \in {"load", "code", "time"} THEN compresslevel + 1 ELSE 0)
InOrder(log) ==
    \A i, j \in 1..Len(log) : i < j => EntryOf(log[i]) < EntryOf(log[j])
LogInv ==
    /\ result \in [Tests -> {"none", "ok", "fail"}]
    /\ \A t \in Tests :
          /\ InOrder(logs[t])
          /\ t > test => logs[t] = <<>>
          /\ result[t] = "ok" => t < test \/ pc = "finished"
          /\ result[t] = "ok" /\ faults = 0 =>
                Len(logs[t]) = TEST_MUSIC_NUMS * (MaxLevel + 2)
    /\ pc \in {"name", "load", "code", "time"} =>
          /\ \A i \in 1..Len(logs[test]) : EntryOf(logs[test][i]) < Entries
          /\ faults = 0 => Len(logs[test]) = Entries


-------------------------------------------------------------------------------
(* Names and contents *)

LEMMA KeptFiles ==
    /\ \A s \in Songs : Wav(s) \in Kept
    /\ \A s \in Songs, l \in Levels : Flac(s, l) \in Kept /\ WavOf(s, l) \in Kept
    /\ \A f \in Kept : f.kind \in {"song", "flac", "wav"}
  <1>1. \A s \in Songs : Wav(s) \in Kept /\ Wav(s).kind = "song"
    BY DEF Kept, Wav
  <1>2. \A s \in Songs, l \in Levels : Flac(s, l) \in Kept /\ WavOf(s, l) \in Kept
    BY DEF Kept
  <1>3. \A s \in Songs, l \in Levels : Flac(s, l).kind = "flac" /\ WavOf(s, l).kind = "wav"
    BY DEF Flac, WavOf
  <1>4. \A f \in Kept : f.kind \in {"song", "flac", "wav"}
    BY <1>1, <1>3 DEF Kept
  <1> QED
    BY <1>1, <1>2, <1>4

LEMMA Dummies == DummyFlac.kind = "dummy.flac" /\ DummyWav.kind = "dummy.wav"
  BY DEF DummyFlac, DummyWav, Nothing

LEMMA InputIsKept ==
    ASSUME PlaceInv, fileiter \in Songs
    PROVE  Input \in Kept /\ Output \in Files
  BY KeptFiles DEF PlaceInv, Input, Output, Files

\* A codec's output is never a song, nor its input, and in SRAM mode no file to be kept.
LEMMA OutputIsNoSong ==
    ASSUME PlaceInv, fileiter \in Songs
    PROVE  /\ \A s \in Songs : Output # Wav(s)
           /\ Output # Input
           /\ Output \in Kept <=> mode = "card"
  <1>1. CASE mode = "card"
    <2>1. Output = IF Encoding THEN Flac(fileiter, compresslevel) ELSE WavOf(fileiter, compresslevel)
      BY <1>1 DEF Output
    <2>2. Output.kind = IF Encoding THEN "flac" ELSE "wav"
      BY <2>1 DEF Flac, WavOf
    <2>3. Input.kind = IF Encoding THEN "song" ELSE "flac"
      BY DEF Flac, Wav, Input
    <2>4. \A s \in Songs : Wav(s).kind = "song"
      BY DEF Wav
    <2> QED
      BY <1>1, <2>1, <2>2, <2>3, <2>4, KeptFiles DEF PlaceInv
  <1>2. CASE mode # "card"
    <2>1. Output.kind \in {"dummy.flac", "dummy.wav"}
      BY <1>2, Dummies DEF Output
    <2>2. Input \in Kept
      BY InputIsKept
    <2> QED
      BY <1>2, <2>1, <2>2, KeptFiles
  <1> QED
    BY <1>1, <1>2

LEMMA CodedIsProper ==
    ASSUME Inv, pc = "code", NEW form,
           form # "empty" => Leaves(sram.form) \notin {{}, {"empty"}}
    PROVE  /\ Proper(Output, Coded(form)) \/ Output \notin Kept
           /\ Coded(form) # Absent
  <1>1. /\ fileiter \in Songs /\ compresslevel \in Levels
        /\ sram = disk[Input] /\ sram # Absent
        /\ Proper(Input, sram)
    BY InputIsKept DEF Inv, PlaceInv, CardInv, Loaded
  <1>3. CASE mode = "sram" \/ form = "empty"
    <2>1. Coded(form) = Empty
      BY <1>3 DEF Coded
    <2> QED
      BY <2>1 DEF Proper, Empty, Absent, Contents, Nothing
  <1>4. CASE ~(mode = "sram" \/ form = "empty")
    <2>0. sram # Empty
      BY <1>4 DEF Empty, Contents, Leaves
    <2>1. sram.of = Input /\ mode = "card"
      BY <1>1, <1>4, <2>0 DEF Inv, PlaceInv, Proper, Contents
    <2>2. CodedFrom(sram) = Output
      <3>1. CASE Encoding
        <4>1. sram.of = [kind |-> "song", song |-> fileiter, level |-> 0]
          BY <2>1, <3>1 DEF Input, Wav
        <4>2. Output = [kind |-> "flac", song |-> fileiter, level |-> compresslevel]
          BY <2>1, <3>1 DEF Output, Flac
        <4> QED
          BY <3>1, <4>1, <4>2 DEF CodedFrom
      <3>2. CASE ~Encoding
        <4>1. sram.of = [kind |-> "flac", song |-> fileiter, level |-> compresslevel]
          BY <2>1, <3>2 DEF Input, Flac
        <4>2. Output = [kind |-> "wav", song |-> fileiter, level |-> compresslevel]
          BY <2>1, <3>2 DEF Output, WavOf
        <4> QED
          BY <3>2, <4>1, <4>2 DEF CodedFrom
      <3> QED
        BY <3>1, <3>2
    <2>3. Coded(form) = Contents(Output, Coded(form).form)
      BY <1>4, <2>2 DEF Coded, Contents
    <2>4. Output.kind \in {"flac", "wav"}
      BY <2>1 DEF Output, Flac, WavOf
    <2> QED
      BY <2>3, <2>4 DEF Proper, Absent, Contents, Nothing
  <1> QED
    BY <1>3, <1>4

-------------------------------------------------------------------------------
(* Every step keeps it *)

LEMMA InitInv == Init => Inv
  <1> SUFFICES ASSUME Init PROVE Inv
    OBVIOUS
  <1>1. PlaceInv
    BY BenchAssumption, EmptySeq DEF Init, PlaceInv, Tests, Levels
  <1>2. CardInv
    <2>1. PICK present \in SUBSET Songs, form \in [Songs -> SongForms] :
             disk = [f \in Files |-> IF f \in {Wav(s) : s \in present}
                                     THEN Contents(f, form[f.song]) ELSE Absent]
      BY DEF Init
    <2>2. \A f \in Kept : Proper(f, disk[f])
      <3> TAKE f \in Kept
      <3>1. CASE f \in {Wav(s) : s \in present}
        <4>1. disk[f] = Contents(f, form[f.song])
          BY <2>1, <3>1 DEF Files
        <4> QED
          BY <4>1 DEF Proper, Contents
      <3>2. CASE f \notin {Wav(s) : s \in present}
        BY <2>1, <3>2 DEF Files, Proper
      <3> QED
        BY <3>1, <3>2
    <2>3. ~Loaded
      BY DEF Init, Loaded
    <2> QED
      BY <2>1, <2>2, <2>3 DEF CardInv
  <1> QED
    BY <1>1, <1>2 DEF Inv

\* What a step does to the card: nothing, or a codec leaves something in its output.
LEMMA CodeWrites ==
    ASSUME Inv, Code
    PROVE  \/ UNCHANGED disk
           \/ \E c : /\ disk' = [disk EXCEPT ![Output] = c]
                     /\ Proper(Output, c) \/ Output \notin Kept
                     /\ c # Absent
  <1>1. pc = "code"
    BY DEF Code
  <1>2. ASSUME NEW form, Leave(form),
               form # "empty" => Leaves(sram.form) \notin {{}, {"empty"}}
        PROVE  \E c : /\ disk' = [disk EXCEPT ![Output] = c]
                      /\ Proper(Output, c) \/ Output \notin Kept
                      /\ c # Absent
    <2>1. Proper(Output, Coded(form)) \/ Output \notin Kept
      BY <1>1, <1>2, CodedIsProper
    <2>2. Coded(form) # Absent
      BY <1>1, <1>2, CodedIsProper
    <2>3. disk' = [disk EXCEPT ![Output] = Coded(form)]
      BY <1>2 DEF Leave
    <2> QED
      BY <2>1, <2>2, <2>3
  <1>3. CASE UNCHANGED disk
    BY <1>3
  <1>4. CASE \E form \in Leaves(sram.form) : Leave(form)
    <2>1. PICK form \in Leaves(sram.form) : Leave(form)
      BY <1>4
    <2>2. Leaves(sram.form) \notin {{}, {"empty"}} \/ form = "empty"
      BY <2>1
    <2> QED
      BY <1>2, <2>1, <2>2
  <1>5. CASE Leave("empty")
    BY <1>2, <1>5
  <1>6. CASE Leave("cut") /\ Leaves(sram.form) \notin {{}, {"empty"}}
    BY <1>2, <1>6
  <1>7. \/ UNCHANGED disk
        \/ \E form \in Leaves(sram.form) : Leave(form)
        \/ Leave("empty")
        \/ Leave("cut") /\ Leaves(sram.form) \notin {{}, {"empty"}}
    BY DEF Code, CodecReturns, CodecHangs, CodecOverruns
  <1> QED
    BY <1>3, <1>4, <1>5, <1>6, <1>7

\* Where a codec leaves the program, and how many operations fail under it
LEMMA CodeGoes ==
    Code => /\ pc = "code" /\ pc' \in {"time", "hung", "overrun"} /\ (Ok \/ Fault)
            /\ UNCHANGED <<test, fileiter, compresslevel, result, mode, sram, logs>>
  BY DEF Code, CodecReturns, CodecHangs, CodecOverruns, Goto

LEMMA DiskStep == Inv /\ [Next]_vars => UNCHANGED disk \/ Code
  BY DEF Next, Go, Spin, vars, place, OpenLog, LogName, CopyMusic2Sram, LogTime, TestDone

LEMMA LogWrites ==
    ASSUME PlaceInv, NEW entry \in Entry, Log(entry)
    PROVE  /\ logs' \in [Tests -> Seq(Entry)]
           /\ faults' \in Nat
           /\ \/ logs' # logs /\ faults' = faults
              \/ faults' > faults
  <1>1. CASE logs' = [logs EXCEPT ![test] = Append(@, entry)] /\ Ok
    <2>1. logs[test] \in Seq(Entry) /\ Append(logs[test], entry) \in Seq(Entry)
          /\ Len(Append(logs[test], entry)) = Len(logs[test]) + 1
      BY DEF PlaceInv
    <2> QED
      BY <1>1, <2>1 DEF PlaceInv, Ok
  <1>2. CASE UNCHANGED logs /\ Fault
    BY <1>2, BenchAssumption DEF PlaceInv, Fault
  <1> QED
    BY <1>1, <1>2 DEF Log

LEMMA EntriesAreEntries ==
    ASSUME PlaceInv, fileiter \in Songs
    PROVE  <<fileiter>> \in Entry /\ <<fileiter, compresslevel>> \in Entry
  <1>1. fileiter \in Nat /\ compresslevel \in Nat
    BY BenchAssumption DEF PlaceInv, Songs, Levels
  <1> QED
    BY <1>1 DEF Entry

LEMMA PlaceStep == Inv /\ [Next]_vars => PlaceInv'
  <1> SUFFICES ASSUME Inv, [Next]_vars PROVE PlaceInv'
    OBVIOUS
  <1> USE DEF PlaceInv, Inv
  <1>f. Ok \/ Fault => faults' \in Nat
    BY BenchAssumption DEF Ok, Fault
  <1>1. CASE OpenLog
    <2>1. logs' \in [Tests -> Seq(Entry)]
      BY <1>1, EmptySeq DEF OpenLog
    <2> QED
      BY <1>1, <1>f, <2>1, BenchAssumption DEF OpenLog, Goto, GiveUp, Tests, Songs, Levels
  <1>2. CASE LogName
    <2>1. /\ logs' \in [Tests -> Seq(Entry)] /\ faults' \in Nat
      BY <1>2, EntriesAreEntries, LogWrites DEF LogName
    <2> QED
      BY <1>2, <2>1 DEF LogName, Goto, GiveUp
  <1>3. CASE CopyMusic2Sram
    BY <1>3, <1>f DEF CopyMusic2Sram, Goto, GiveUp
  <1>4. CASE Code
    BY <1>4, <1>f, CodeGoes
  <1>5. CASE LogTime
    <2>1. /\ fileiter \in Songs /\ faults' \in Nat
          /\ logs' \in [Tests -> Seq(Entry)]
      BY <1>5, EntriesAreEntries, LogWrites DEF LogTime
    <2>2. CASE compresslevel + 1 \in Levels
      BY <1>5, <2>1, <2>2 DEF LogTime, Encoding
    <2>3. CASE compresslevel + 1 \notin Levels
      BY <1>5, <2>1, <2>3, BenchAssumption DEF LogTime, Songs, Levels
    <2> QED
      BY <2>2, <2>3
  <1>6. CASE TestDone
    BY <1>6, BenchAssumption DEF TestDone, Tests, Songs
  <1>7. CASE UNCHANGED vars
    BY <1>7 DEF vars, place
  <1> QED
    BY <1>1, <1>2, <1>3, <1>4, <1>5, <1>6, <1>7 DEF Next, Go, Spin

LEMMA CardStep == Inv /\ [Next]_vars => CardInv'
  <1> SUFFICES ASSUME Inv, [Next]_vars PROVE CardInv'
    OBVIOUS
  <1>1. PlaceInv /\ CardInv
    BY DEF Inv
  <1>2. /\ disk' = [f \in Files |-> disk'[f]]
        /\ \A f \in Kept : Proper(f, disk'[f])
    <2>1. CASE UNCHANGED disk
      BY <1>1, <2>1 DEF CardInv
    <2>2. CASE Code /\ ~UNCHANGED disk
      <3>1. PICK c : /\ disk' = [disk EXCEPT ![Output] = c]
                     /\ Proper(Output, c) \/ Output \notin Kept
        BY <2>2, CodeWrites
      <3> QED
        BY <1>1, <3>1 DEF CardInv
    <2> QED
      BY <2>1, <2>2, DiskStep
  <1>3. Loaded' => sram' = disk'[Input'] /\ sram' # Absent
    <2>1. CASE OpenLog \/ LogName \/ TestDone
      BY <2>1 DEF OpenLog, LogName, TestDone, Goto, GiveUp, Loaded
    <2>2. CASE CopyMusic2Sram
      BY <2>2 DEF CopyMusic2Sram, Goto, GiveUp, Loaded, Input, Encoding
    <2>3. CASE Code
      <3>1. /\ sram = disk[Input] /\ sram # Absent /\ fileiter \in Songs
            /\ UNCHANGED <<sram, test, fileiter, compresslevel>>
        BY <1>1, <2>3, CodeGoes DEF CardInv, PlaceInv, Loaded
      <3>2. Input' = Input
        BY <3>1 DEF Input, Encoding
      <3>3. Output # Input
        BY <1>1, <3>1, OutputIsNoSong
      <3>4. Input \in Files
        BY <1>1, <3>1, InputIsKept DEF Files
      <3>5. disk'[Input] = disk[Input]
        BY <1>1, <2>3, <3>3, <3>4, CodeWrites DEF CardInv
      <3> QED
        BY <3>1, <3>2, <3>5
    <2>4. CASE LogTime
      <3> SUFFICES ASSUME Loaded' PROVE sram' = disk'[Input'] /\ sram' # Absent
        OBVIOUS
      <3>1. /\ Encoding /\ pc = "time" /\ UNCHANGED <<test, fileiter, sram, disk>>
        BY <2>4 DEF LogTime, Loaded, Encoding
      <3>2. Input' = Input /\ Loaded
        BY <3>1 DEF Input, Encoding, Loaded
      <3> QED
        BY <1>1, <3>1, <3>2 DEF CardInv
    <2>5. CASE UNCHANGED vars
      BY <1>1, <2>5 DEF vars, place, CardInv, Loaded, Input, Encoding
    <2> QED
      BY <2>1, <2>2, <2>3, <2>4, <2>5 DEF Next, Go, Spin
  <1> QED
    BY <1>2, <1>3 DEF CardInv

LEMMA InvStep == Inv /\ [Next]_vars => Inv'
  BY PlaceStep, CardStep DEF Inv

\* What the invariant says holds of the program at every moment.
THEOREM InductiveInvariant == Spec => []Inv
  <1>1. Init => Inv
    BY InitInv
  <1>2. Inv /\ [Next]_vars => Inv'
    BY InvStep
  <1> QED
    BY <1>1, <1>2, PTL DEF Spec

\* Whatever failed before, a codec runs over the file it is meant to run over, and no
\* file holds what another one is for (test_encode_demo and its siblings).
THEOREM FilesAreAlwaysRight == Spec => []FilesAreWhatTheyAreFor
  <1>1. Inv => FilesAreWhatTheyAreFor
    <2> SUFFICES ASSUME Inv PROVE FilesAreWhatTheyAreFor
      OBVIOUS
    <2>1. pc = "code" => sram = disk[Input] /\ sram # Absent
      BY DEF Inv, CardInv, Loaded
    <2>2. ASSUME NEW f \in Kept PROVE disk[f].of \in {f, Nothing, Empty.of}
      <3>1. Proper(f, disk[f])
        BY DEF Inv, CardInv
      <3>2. Absent.of = Nothing /\ \A form : Contents(f, form).of = f
        BY DEF Absent, Contents
      <3> QED
        BY <3>1, <3>2 DEF Proper
    <2> QED
      BY <2>1, <2>2 DEF FilesAreWhatTheyAreFor
  <1> QED
    BY <1>1, InductiveInvariant, PTL

\* From the third test on no step changes a file that is kept: the output goes to the
\* dummy files that the names of SRAM mode stand for.
THEOREM SramModeAlwaysKeepsCard == Spec => SramModeKeepsCard
  <1> DEFINE Keeps == test > 2 => \A f \in Kept : disk'[f] = disk[f]
  <1>1. Inv /\ [Next]_vars => [Keeps]_vars
    <2> SUFFICES ASSUME Inv, [Next]_vars, test > 2, NEW f \in Kept
                 PROVE  disk'[f] = disk[f]
      OBVIOUS
    <2>1. CASE UNCHANGED disk
      BY <2>1
    <2>2. CASE Code
      <3>1. fileiter \in Songs /\ mode = "sram"
        BY <2>2, CodeGoes DEF Inv, PlaceInv
      <3>2. Output \notin Kept
        BY <3>1, OutputIsNoSong DEF Inv
      <3> QED
        BY <2>2, <3>2, CodeWrites DEF Inv, CardInv, Files
    <2> QED
      BY <2>1, <2>2, DiskStep
  <1>2. Spec => [][Keeps]_vars
    BY <1>1, InductiveInvariant, PTL DEF Spec
  <1> QED
    BY <1>2 DEF SramModeKeepsCard

-------------------------------------------------------------------------------
(* Why the program stops *)

\* Songs stay as they are, and only a codec changes another file.
LEMMA SongsStay ==
    ASSUME Inv, [Next]_vars, NEW s \in Songs
    PROVE  disk'[Wav(s)] = disk[Wav(s)]
  <1>1. Wav(s) \in Files
    BY KeptFiles DEF Files
  <1>2. CASE UNCHANGED disk
    BY <1>2
  <1>3. CASE Code
    <2>1. Output # Wav(s)
      BY <1>3, CodeGoes, OutputIsNoSong DEF Inv, PlaceInv
    <2> QED
      BY <1>1, <1>3, <2>1, CodeWrites DEF Inv, CardInv
  <1> QED
    BY <1>2, <1>3, DiskStep

LEMMA ReasonInit == Init => ReasonInv
  <1> SUFFICES ASSUME Init PROVE ReasonInv
    OBVIOUS
  <1>1. pc = "openLog" /\ test = 1 /\ fileiter = 1 /\ compresslevel = 0
    BY DEF Init
  <1>2. \A s \in Songs, l \in Levels : ~Found(s) /\ ~EncodedTo(s, l) /\ ~LoadedTo(s, l)
    BY <1>1 DEF Songs, Levels, Found, EncodedTo, LoadedTo
  <1>4. \A s \in Songs : ~Found(s)
    BY <1>1 DEF Songs, Found
  <1>3. ASSUME NEW s \in Songs, NEW l \in Levels PROVE disk[Flac(s, l)] = Absent
    <2>1. PICK present \in SUBSET Songs, form \in [Songs -> SongForms] :
             disk = [f \in Files |-> IF f \in {Wav(s_) : s_ \in present}
                                     THEN Contents(f, form[f.song]) ELSE Absent]
      BY DEF Init
    <2>2. Flac(s, l) \in Files
      BY KeptFiles DEF Files
    <2>3. Flac(s, l) \notin {Wav(s_) : s_ \in present}
      BY DEF Flac, Wav
    <2> QED
      BY <2>1, <2>2, <2>3
  <1> QED
    BY <1>1, <1>2, <1>3, <1>4
       DEF ReasonInv, FoundInv, RefusedInv, EncodedInv, LoadedInv, StoppedInv

\* How many operations failed
LEMMA FaultsCount ==
    ASSUME Inv, [Next]_vars
    PROVE  faults \in Nat /\ faults' \in Nat /\ (faults' = 0 => faults = 0)
  <1>1. faults \in Nat /\ faults' \in Nat
    BY InvStep DEF Inv, PlaceInv
  <1>2. Ok \/ Fault \/ UNCHANGED faults
    BY CodeGoes DEF Next, Go, Spin, OpenLog, LogName, Log, CopyMusic2Sram, LogTime, TestDone, vars
  <1> QED
    BY <1>1, <1>2 DEF Ok, Fault

\* The first test reached more songs than before only where one was loaded.
LEMMA FoundStep == Inv /\ FoundInv /\ [Next]_vars => FoundInv'
  <1> SUFFICES ASSUME Inv, FoundInv, [Next]_vars,
                      NEW s \in Songs, Found(s)', ~Found(s)
               PROVE  disk[Wav(s)] # Absent
    BY SongsStay DEF FoundInv
  <1>1. CASE OpenLog \/ LogName
    BY <1>1 DEF OpenLog, LogName, Goto, GiveUp, Found
  <1>2. CASE Code
    BY <1>2, CodeGoes DEF Found
  <1>3. CASE CopyMusic2Sram
    <2>1. test = 1 /\ s = fileiter /\ disk[Input] # Absent
      BY <1>3 DEF CopyMusic2Sram, Goto, GiveUp, Found, Inv, PlaceInv, Tests
    <2> QED
      BY <2>1 DEF Input, Encoding
  <1>4. CASE LogTime
    BY <1>4, BenchAssumption DEF LogTime, Found, Inv, PlaceInv, Songs, Encoding, Tests
  <1>5. CASE TestDone
    BY <1>5, BenchAssumption DEF TestDone, Found, Inv, PlaceInv, Songs
  <1>6. CASE UNCHANGED vars
    BY <1>6 DEF vars, place, Found
  <1> QED
    BY <1>1, <1>2, <1>3, <1>4, <1>5, <1>6 DEF Next, Go, Spin

\* What a codec does to a flac of the card: it is the encoder, of the song and the level.
LEMMA WritesItsFlac ==
    ASSUME Inv, Code, NEW s \in Songs, NEW l \in Levels
    PROVE  \/ disk'[Flac(s, l)] = disk[Flac(s, l)]
           \/ /\ test = 1 /\ s = fileiter /\ l = compresslevel /\ sram = disk[Wav(s)]
              /\ disk'[Flac(s, l)] # Absent
              /\ ~UNCHANGED disk
  <1>1. /\ pc = "code" /\ fileiter \in Songs /\ compresslevel \in Levels /\ test \in Tests
    BY CodeGoes DEF Inv, PlaceInv
  <1>2. Flac(s, l) \in Files
    BY KeptFiles DEF Files
  <1>3. CASE UNCHANGED disk
    BY <1>3
  <1>4. CASE ~UNCHANGED disk
    <2>1. PICK c : disk' = [disk EXCEPT ![Output] = c] /\ c # Absent
      BY <1>4, CodeWrites
    <2>2. CASE Output # Flac(s, l)
      BY <1>2, <2>1, <2>2 DEF Inv, CardInv
    <2>3. CASE Output = Flac(s, l)
      <3>1. Output.kind = "flac"
        BY <2>3 DEF Flac
      <3>2. Encoding /\ mode = "card" /\ Output = Flac(fileiter, compresslevel)
        BY <3>1, Dummies DEF Output, Flac, WavOf
      <3>3. s = fileiter /\ l = compresslevel
        BY <2>3, <3>2 DEF Flac
      <3>4. test = 1
        BY <1>1, <3>2 DEF Encoding, Tests, Inv, PlaceInv
      <3>5. sram = disk[Wav(s)]
        BY <1>1, <3>2, <3>3 DEF Inv, CardInv, Loaded, Input
      <3>6. disk'[Flac(s, l)] = c
        BY <1>2, <2>1, <2>3 DEF Inv, CardInv
      <3> QED
        BY <1>4, <2>1, <3>3, <3>4, <3>5, <3>6
    <2> QED
      BY <2>2, <2>3
  <1> QED
    BY <1>3, <1>4

\* No flac is made of a song whose header is refused.
LEMMA RefusedStep == Inv /\ RefusedInv /\ [Next]_vars => RefusedInv'
  <1> SUFFICES ASSUME Inv, RefusedInv, [Next]_vars, NEW s \in Songs, NEW l \in Levels,
                      disk[Wav(s)].form = "invalid"
               PROVE  disk'[Flac(s, l)] = Absent
    BY SongsStay DEF RefusedInv
  <1>1. disk[Flac(s, l)] = Absent
    BY DEF RefusedInv
  <1>2. CASE UNCHANGED disk
    BY <1>1, <1>2
  <1>3. CASE Code /\ sram = disk[Wav(s)]
    <2>1. Leaves(sram.form) = {} /\ sram.form \notin {"cut", "wide"}
      BY <1>3 DEF Leaves
    <2>2. UNCHANGED disk
      BY <1>3, <2>1 DEF Code, CodecReturns, CodecHangs, CodecOverruns
    <2> QED
      BY <1>1, <2>2
  <1>4. CASE Code /\ sram # disk[Wav(s)]
    BY <1>1, <1>4, WritesItsFlac
  <1> QED
    BY <1>2, <1>3, <1>4, DiskStep

\* A flac stays on the card.
LEMMA FlacStays ==
    ASSUME Inv, [Next]_vars, NEW s \in Songs, NEW l \in Levels, disk[Flac(s, l)] # Absent
    PROVE  disk'[Flac(s, l)] # Absent
  BY WritesItsFlac, DiskStep

\* The second test has loaded what it got past.
LEMMA LoadedStep == Inv /\ LoadedInv /\ [Next]_vars => LoadedInv'
  <1> SUFFICES ASSUME Inv, LoadedInv, [Next]_vars, NEW s \in Songs, NEW l \in Levels,
                      LoadedTo(s, l)', ~LoadedTo(s, l)
               PROVE  disk'[Flac(s, l)] # Absent
    BY FlacStays DEF LoadedInv
  <1>1. CASE OpenLog \/ LogName
    BY <1>1 DEF OpenLog, LogName, Goto, GiveUp, LoadedTo
  <1>2. CASE Code
    BY <1>2, CodeGoes DEF LoadedTo
  <1>3. CASE CopyMusic2Sram
    <2>1. /\ test = 2 /\ s = fileiter /\ l = compresslevel
          /\ disk[Input] # Absent /\ UNCHANGED disk
      BY <1>3 DEF CopyMusic2Sram, Goto, GiveUp, LoadedTo
    <2> QED
      BY <2>1 DEF Input, Encoding
  <1>4. CASE LogTime
    BY <1>4, BenchAssumption DEF LogTime, LoadedTo, Inv, PlaceInv, Songs, Levels, Tests, Encoding
  <1>5. CASE TestDone
    BY <1>5, BenchAssumption DEF TestDone, LoadedTo, Inv, PlaceInv, Songs, Levels, Tests
  <1>6. CASE UNCHANGED vars
    BY <1>6 DEF vars, place, LoadedTo
  <1> QED
    BY <1>1, <1>2, <1>3, <1>4, <1>5, <1>6 DEF Next, Go, Spin

\* When nothing fails, a codec run leaves a flac of each song that no header refuses.
LEMMA EncodedStep == Inv /\ EncodedInv /\ [Next]_vars => EncodedInv'
  <1> SUFFICES ASSUME Inv, EncodedInv, [Next]_vars, faults' = 0,
                      NEW s \in Songs, NEW l \in Levels,
                      EncodedTo(s, l)', disk[Wav(s)].form \notin MayBeRefused
               PROVE  disk'[Flac(s, l)] # Absent
    BY SongsStay DEF EncodedInv
  <1>f. faults \in Nat /\ faults = 0
    BY FaultsCount
  <1>1. CASE EncodedTo(s, l)
    <2>1. disk[Flac(s, l)] # Absent
      BY <1>1, <1>f DEF EncodedInv
    <2> QED
      BY <2>1, FlacStays
  <1>2. CASE ~EncodedTo(s, l)
    <2>1. CASE Code
      <3>1. /\ test = 1 /\ s = fileiter /\ l = compresslevel /\ pc' = "time"
        BY <1>2, <2>1, CodeGoes DEF EncodedTo, Inv, PlaceInv, Levels, Tests, Songs
      <3>2. sram = disk[Wav(s)]
        BY <2>1, <3>1, CodeGoes DEF Inv, CardInv, Loaded, Encoding, Input
      <3>3. ~Fault
        BY <1>f DEF Fault
      <3>4. CodecReturns
        BY <2>1, <3>1 DEF Code, CodecHangs, CodecOverruns, Goto
      <3>5. PICK form \in Leaves(sram.form) : Leave(form)
        BY <3>2, <3>3, <3>4 DEF CodecReturns
      <3>6. Coded(form) # Absent
        BY <2>1, <3>5, CodedIsProper, CodeGoes
      <3>7. Output = Flac(s, l)
        BY <3>1 DEF Output, Encoding, Inv, PlaceInv
      <3>8. Flac(s, l) \in Files
        BY KeptFiles DEF Files
      <3> QED
        BY <3>5, <3>6, <3>7, <3>8 DEF Leave, Inv, CardInv
    <2>2. CASE OpenLog \/ LogName \/ CopyMusic2Sram
      BY <1>2, <2>2 DEF OpenLog, LogName, CopyMusic2Sram, Goto, GiveUp, EncodedTo
    <2>3. CASE LogTime
      BY <1>2, <2>3, BenchAssumption DEF LogTime, EncodedTo, Inv, PlaceInv, Songs, Levels
    <2>4. CASE TestDone
      BY <1>2, <2>4, BenchAssumption DEF TestDone, EncodedTo, Inv, PlaceInv, Songs, Levels
    <2>5. CASE UNCHANGED vars
      BY <1>2, <2>5 DEF vars, place, EncodedTo
    <2> QED
      BY <2>1, <2>2, <2>3, <2>4, <2>5 DEF Next, Go, Spin
  <1> QED
    BY <1>1, <1>2

\* When nothing fails, only a file that is not on the card stops a test.
LEMMA StoppedStep == Inv /\ ReasonInv /\ [Next]_vars => StoppedInv'
  <1> SUFFICES ASSUME Inv, ReasonInv, [Next]_vars, pc' = "stopped", faults' = 0
               PROVE  \/ test' = 1 /\ \E s \in Songs : disk[Wav(s)] = Absent
                      \/ test' = 2 /\ \E s \in Songs : disk[Wav(s)].form \in MayBeRefused
    BY SongsStay DEF StoppedInv
  <1>f. faults \in Nat /\ faults = 0
    BY FaultsCount
  <1>1. CASE OpenLog
    BY <1>f, <1>1, BenchAssumption DEF OpenLog, Goto, Fault
  <1>2. CASE LogName
    <2>1. UNCHANGED logs
      BY <1>2 DEF LogName, Goto
    <2>2. faults' > faults
      BY <1>2, <2>1, EntriesAreEntries, LogWrites DEF LogName, Inv
    <2> QED
      BY <1>f, <2>2
  <1>3. CASE CopyMusic2Sram
    <2>1. disk[Input] = Absent /\ test' = test
      BY <1>f, <1>3, BenchAssumption DEF CopyMusic2Sram, Goto, GiveUp, Fault
    <2>2. fileiter \in Songs /\ compresslevel \in Levels /\ test \in Tests
      BY <1>3 DEF CopyMusic2Sram, Inv, PlaceInv
    <2>3. CASE test = 1
      <3>1. disk[Wav(fileiter)] = Absent
        BY <2>1, <2>3 DEF Input, Encoding
      <3> QED
        BY <2>1, <2>2, <2>3, <3>1
    <2>4. CASE test = 2
      <3>1. disk[Flac(fileiter, compresslevel)] = Absent
        BY <2>1, <2>4 DEF Input, Encoding
      <3>2. EncodedTo(fileiter, compresslevel)
        BY <2>4 DEF EncodedTo
      <3>3. disk[Wav(fileiter)].form \in MayBeRefused
        BY <1>f, <2>2, <3>1, <3>2 DEF ReasonInv, EncodedInv
      <3> QED
        BY <2>1, <2>2, <2>4, <3>3
    <2>5. test # 3
      BY <2>1, <2>2 DEF Input, Encoding, ReasonInv, FoundInv, Found
    <2>6. test # 4
      BY <2>1, <2>2 DEF Input, Encoding, ReasonInv, LoadedInv, LoadedTo
    <2> QED
      BY <2>2, <2>3, <2>4, <2>5, <2>6 DEF Tests
  <1>4. CASE Code \/ LogTime \/ TestDone
    BY <1>4, CodeGoes DEF LogTime, TestDone
  <1>5. CASE UNCHANGED vars
    BY <1>f, <1>5 DEF vars, place, ReasonInv, StoppedInv
  <1> QED
    BY <1>1, <1>2, <1>3, <1>4, <1>5 DEF Next, Go, Spin

LEMMA ReasonStep == Inv /\ ReasonInv /\ [Next]_vars => ReasonInv'
  BY FoundStep, RefusedStep, EncodedStep, LoadedStep, StoppedStep DEF ReasonInv

\* A song that is missing stops the first test, one whose header is refused the second,
\* whatever else fails; and when nothing fails, no other song stops any test, however
\* its codecs returned.
THEOREM StopsOnlyForAReason == Spec => []StopsForAReason
  <1>1. Init => ReasonInv
    BY ReasonInit
  <1>2. Inv /\ ReasonInv /\ [Next]_vars => ReasonInv'
    BY ReasonStep
  <1>3. Inv /\ ReasonInv => StopsForAReason
    <2> SUFFICES ASSUME Inv, ReasonInv PROVE StopsForAReason
      OBVIOUS
    <2>0. test \in Tests /\ 0 \in Levels
      BY BenchAssumption DEF Inv, PlaceInv, Levels
    <2>2. ASSUME NEW s \in Songs, disk[Wav(s)] = Absent PROVE test = 1
      BY <2>0, <2>2 DEF ReasonInv, FoundInv, Found, Tests
    <2>3. ASSUME NEW s \in Songs, disk[Wav(s)].form = "invalid" PROVE test <= 2
      <3>1. ~LoadedTo(s, 0)
        BY <2>0, <2>3 DEF ReasonInv, RefusedInv, LoadedInv
      <3> QED
        BY <2>0, <3>1 DEF LoadedTo, Tests
    <2>4. StoppedInv
      BY DEF ReasonInv
    <2> QED
      BY <2>2, <2>3, <2>4 DEF StopsForAReason, StoppedInv
  <1> QED
    BY <1>1, <1>2, <1>3, InductiveInvariant, PTL DEF Spec

-------------------------------------------------------------------------------
(* The logs *)

\* Places of entries: the songs have MaxLevel + 2 of them each.
LEMMA EntryPlaces ==
    /\ \A e \in Entry : EntryOf(e) \in Int
    /\ \A s \in Nat : EntryOf(<<s>>) = (s - 1) * (MaxLevel + 2)
    /\ \A s \in Nat, l \in Nat : EntryOf(<<s, l>>) = (s - 1) * (MaxLevel + 2) + l + 1
  <1>1. ASSUME NEW e \in Entry PROVE EntryOf(e) \in Int
    <2>1. e[1] \in Int /\ (Len(e) # 1 => e[2] \in Int)
      BY DEF Entry
    <2>2. (e[1] - 1) * (MaxLevel + 2) \in Int
      BY <2>1, BenchAssumption
    <2> QED
      BY <2>1, <2>2 DEF EntryOf
  <1>2. ASSUME NEW s \in Nat PROVE EntryOf(<<s>>) = (s - 1) * (MaxLevel + 2)
    <2>1. (s - 1) * (MaxLevel + 2) \in Int
      BY BenchAssumption
    <2> QED
      BY <2>1 DEF EntryOf
  <1>3. ASSUME NEW s \in Nat, NEW l \in Nat
        PROVE  EntryOf(<<s, l>>) = (s - 1) * (MaxLevel + 2) + l + 1
    <2>1. (s - 1) * (MaxLevel + 2) \in Int
      BY BenchAssumption
    <2> QED
      BY <2>1 DEF EntryOf
  <1> QED
    BY <1>1, <1>2, <1>3

\* An entry behind all others keeps a log in order.
LEMMA AppendInOrder ==
    ASSUME NEW log \in Seq(Entry), NEW e \in Entry, InOrder(log),
           \A i \in 1..Len(log) : EntryOf(log[i]) < EntryOf(e)
    PROVE  /\ Append(log, e) \in Seq(Entry) /\ Len(Append(log, e)) = Len(log) + 1
           /\ InOrder(Append(log, e))
           /\ \A i \in 1..Len(Append(log, e)) : EntryOf(Append(log, e)[i]) <= EntryOf(e)
  <1> DEFINE new == Append(log, e)
  <1>1. /\ new \in Seq(Entry) /\ Len(new) = Len(log) + 1
        /\ \A i \in 1..Len(log) : new[i] = log[i]
        /\ new[Len(log) + 1] = e
    OBVIOUS
  <1>2. \A i \in 1..Len(log) : EntryOf(log[i]) \in Int
    BY EntryPlaces
  <1>3. EntryOf(e) \in Int
    BY EntryPlaces
  <1> HIDE DEF new
  <1>4. ASSUME NEW i \in 1..Len(new), NEW j \in 1..Len(new), i < j
        PROVE  EntryOf(new[i]) < EntryOf(new[j])
    <2>1. i \in 1..Len(log)
      BY <1>1, <1>4
    <2>2. CASE j \in 1..Len(log)
      BY <1>1, <1>4, <2>1, <2>2 DEF InOrder
    <2>3. CASE j = Len(log) + 1
      BY <1>1, <2>1, <2>3
    <2> QED
      BY <1>1, <2>2, <2>3
  <1>5. \A i \in 1..Len(new) : EntryOf(new[i]) <= EntryOf(e)
    BY <1>1, <1>2, <1>3
  <1>6. InOrder(new)
    BY <1>4 DEF InOrder
  <1> QED
    BY <1>1, <1>5, <1>6 DEF new

\* What a successful or a failed write does to the log that is written
LEMMA LogGrows ==
    ASSUME Inv, LogInv, pc \in {"name", "time"},
           NEW entry \in Entry, EntryOf(entry) = Entries, Log(entry)
    PROVE  /\ \A t \in Tests : InOrder(logs'[t]) /\ (t # test => logs'[t] = logs[t])
           /\ \A i \in 1..Len(logs'[test]) : EntryOf(logs'[test][i]) <= Entries
           /\ faults' = 0 => faults = 0 /\ Len(logs'[test]) = Entries + 1
  <1>1. /\ test \in Tests /\ faults \in Nat /\ logs \in [Tests -> Seq(Entry)]
        /\ logs[test] \in Seq(Entry)
        /\ \A t \in Tests : InOrder(logs[t])
        /\ \A i \in 1..Len(logs[test]) : EntryOf(logs[test][i]) < Entries
        /\ faults = 0 => Len(logs[test]) = Entries
    BY DEF Inv, PlaceInv, LogInv
  <1>2. CASE logs' = [logs EXCEPT ![test] = Append(@, entry)] /\ Ok
    <2> DEFINE new == Append(logs[test], entry)
    <2>1. /\ Len(new) = Len(logs[test]) + 1 /\ InOrder(new)
          /\ \A i \in 1..Len(new) : EntryOf(new[i]) <= EntryOf(entry)
      BY <1>1, AppendInOrder
    <2>2. logs'[test] = new /\ \A t \in Tests : t # test => logs'[t] = logs[t]
      BY <1>1, <1>2
    <2>3. faults' = faults
      BY <1>2 DEF Ok
    <2> HIDE DEF new
    <2> QED
      BY <1>1, <2>1, <2>2, <2>3
  <1>3. CASE UNCHANGED logs /\ Fault
    <2>1. faults' # 0
      BY <1>1, <1>3 DEF Fault
    <2>2. \A i \in 1..Len(logs[test]) : EntryOf(logs[test][i]) \in Int
      BY <1>1, EntryPlaces
    <2>3. EntryOf(entry) \in Int
      BY EntryPlaces
    <2> QED
      BY <1>1, <1>3, <2>1, <2>2, <2>3
  <1> QED
    BY <1>2, <1>3 DEF Log

LEMMA EntriesIsInt ==
    ASSUME PlaceInv
    PROVE  /\ (fileiter - 1) * (MaxLevel + 2) \in Int
           /\ Entries \in Int
           /\ fileiter \in Nat /\ compresslevel \in Nat
  <1>1. fileiter \in Nat /\ compresslevel \in Nat
    BY BenchAssumption DEF PlaceInv, Levels
  <1>2. (fileiter - 1) * (MaxLevel + 2) \in Int
    BY <1>1, BenchAssumption
  <1> QED
    BY <1>1, <1>2 DEF Entries

\* A test that goes on or gives up is not one that was done.
LEMMA NotDone ==
    ASSUME Inv, LogInv, pc # "finished",
           UNCHANGED result \/ result' = [result EXCEPT ![test] = "fail"]
    PROVE  /\ result' \in [Tests -> {"none", "ok", "fail"}]
           /\ \A t \in Tests : result'[t] = "ok" => result[t] = "ok" /\ t # test
  <1>1. result \in [Tests -> {"none", "ok", "fail"}] /\ test \in Tests
    BY DEF LogInv, Inv, PlaceInv
  <1>2. \A t \in Tests : result[t] = "ok" => t < test
    BY DEF LogInv
  <1>3. \A t \in Tests : result[t] = "ok" => t # test
    BY <1>1, <1>2 DEF Tests
  <1>4. CASE UNCHANGED result
    BY <1>1, <1>3, <1>4
  <1>5. CASE result' = [result EXCEPT ![test] = "fail"]
    <2>1. result' \in [Tests -> {"none", "ok", "fail"}]
      BY <1>1, <1>5
    <2>2. \A t \in Tests : t # test => result'[t] = result[t]
      BY <1>1, <1>5
    <2>3. result'[test] = "fail"
      BY <1>1, <1>5
    <2> QED
      BY <2>1, <2>2, <2>3
  <1> QED
    BY <1>4, <1>5

LEMMA LogStep == Inv /\ LogInv /\ [Next]_vars => LogInv'
  <1> SUFFICES ASSUME Inv, LogInv, [Next]_vars PROVE LogInv'
    OBVIOUS
  <1>i. Inv' /\ PlaceInv /\ PlaceInv'
    BY InvStep DEF Inv
  <1>n. fileiter \in Nat /\ fileiter' \in Nat /\ compresslevel \in Nat /\ compresslevel' \in Nat
        /\ test \in Tests /\ test' \in Tests /\ faults \in Nat /\ faults' \in Nat
    BY <1>i, BenchAssumption DEF PlaceInv, Levels
  <1>0. logs \in [Tests -> Seq(Entry)] /\ result \in [Tests -> {"none", "ok", "fail"}]
    BY <1>i DEF PlaceInv, LogInv
  <1>1. CASE OpenLog
    <2>1. /\ pc = "openLog" /\ test' = test /\ fileiter' = 1 /\ compresslevel' = 0
          /\ pc' \in {"name", "stopped"} /\ (faults' = 0 => faults = 0)
      BY <1>1, <1>i, <1>n, BenchAssumption DEF OpenLog, Goto, GiveUp, Ok, Fault, PlaceInv
    <2>2. /\ result' \in [Tests -> {"none", "ok", "fail"}]
          /\ \A t \in Tests : result'[t] = "ok" => result[t] = "ok" /\ t # test
      BY <1>1, <2>1, NotDone DEF OpenLog, Goto, GiveUp
    <2>3. \A t \in Tests : logs'[t] = logs[t] \/ (t = test /\ logs'[t] = <<>>)
      BY <1>0, <1>1 DEF OpenLog
    <2>4. pc' = "name" => logs'[test] = <<>>
      BY <1>0, <1>1, <1>n DEF OpenLog, Goto, GiveUp
    <2>5. InOrder(<<>>) /\ Len(<<>>) = 0
      BY DEF InOrder
    <2>6. pc' = "name" => Entries' = 0
      BY <2>1, BenchAssumption DEF Entries
    <2>7. \A t \in Tests : /\ InOrder(logs'[t])
                           /\ t > test' => logs'[t] = <<>>
                           /\ result'[t] = "ok" => t < test' \/ pc' = "finished"
                           /\ result'[t] = "ok" /\ faults' = 0 =>
                                 Len(logs'[t]) = TEST_MUSIC_NUMS * (MaxLevel + 2)
      BY <2>1, <2>2, <2>3, <2>5 DEF LogInv
    <2>8. pc' \in {"name", "load", "code", "time"} =>
            /\ \A i \in 1..Len(logs'[test']) : EntryOf(logs'[test'][i]) < Entries'
            /\ faults' = 0 => Len(logs'[test']) = Entries'
      BY <2>1, <2>4, <2>5, <2>6
    <2> QED
      BY <2>2, <2>7, <2>8 DEF LogInv, InOrder
  <1>2. CASE LogName
    <2>1. /\ pc = "name" /\ fileiter \in Songs /\ pc' \in {"load", "stopped"} /\ compresslevel = 0
          /\ UNCHANGED <<test, fileiter, compresslevel>> /\ Log(<<fileiter>>)
      BY <1>2, <1>i DEF LogName, Goto, GiveUp, PlaceInv
    <2>2. Entries = (fileiter - 1) * (MaxLevel + 2) /\ Entries \in Int
      BY <1>i, <2>1, EntriesIsInt DEF Entries
    <2>3. <<fileiter>> \in Entry /\ EntryOf(<<fileiter>>) = Entries
      BY <1>i, <1>n, <2>1, <2>2, EntriesAreEntries, EntryPlaces
    <2>4. pc' = "load" => Entries' = Entries + 1
      BY <2>1, <2>2 DEF Entries
    <2>5. /\ \A t \in Tests : InOrder(logs'[t]) /\ (t # test => logs'[t] = logs[t])
          /\ \A i \in 1..Len(logs'[test]) : EntryOf(logs'[test][i]) <= Entries
          /\ faults' = 0 => faults = 0 /\ Len(logs'[test]) = Entries + 1
      BY <2>1, <2>3, LogGrows
    <2>6. /\ result' \in [Tests -> {"none", "ok", "fail"}]
          /\ \A t \in Tests : result'[t] = "ok" => result[t] = "ok" /\ t # test
      BY <1>2, <2>1, NotDone DEF LogName, Goto, GiveUp
    <2>7. \A t \in Tests : /\ InOrder(logs'[t])
                           /\ t > test' => logs'[t] = <<>>
                           /\ result'[t] = "ok" => t < test' \/ pc' = "finished"
                           /\ result'[t] = "ok" /\ faults' = 0 =>
                                 Len(logs'[t]) = TEST_MUSIC_NUMS * (MaxLevel + 2)
      BY <1>n, <2>1, <2>5, <2>6 DEF LogInv, Tests
    <2>8. pc' \in {"name", "load", "code", "time"} =>
            /\ \A i \in 1..Len(logs'[test']) : EntryOf(logs'[test'][i]) < Entries'
            /\ faults' = 0 => Len(logs'[test']) = Entries'
      <3>1. \A i \in 1..Len(logs'[test]) : EntryOf(logs'[test][i]) \in Int
        BY <1>i, <1>n, EntryPlaces DEF PlaceInv
      <3> QED
        BY <2>1, <2>2, <2>4, <2>5, <3>1
    <2> QED
      BY <2>6, <2>7, <2>8 DEF LogInv, InOrder
  <1>3. CASE CopyMusic2Sram \/ Code
    <2>1. /\ pc \in {"load", "code"}
          /\ pc' \in {"code", "time", "stopped", "hung", "overrun"}
          /\ UNCHANGED <<test, fileiter, compresslevel, logs>>
          /\ (faults' = 0 => faults = 0)
      <3>1. (Ok \/ Fault) => (faults' = 0 => faults = 0)
        BY <1>n DEF Ok, Fault
      <3>2. CASE CopyMusic2Sram
        BY <3>1, <3>2 DEF CopyMusic2Sram, Goto, GiveUp
      <3>3. CASE Code
        BY <3>1, <3>3, CodeGoes
      <3> QED
        BY <1>3, <3>2, <3>3
    <2>2. /\ result' \in [Tests -> {"none", "ok", "fail"}]
          /\ \A t \in Tests : result'[t] = "ok" => result[t] = "ok" /\ t # test
      <3>1. UNCHANGED result \/ result' = [result EXCEPT ![test] = "fail"]
        BY <1>3, CodeGoes DEF CopyMusic2Sram, Goto, GiveUp
      <3> QED
        BY <2>1, <3>1, NotDone
    <2>3. pc' \in {"name", "load", "code", "time"} => Entries' = Entries
      BY <2>1 DEF Entries
    <2>4. \A t \in Tests : /\ InOrder(logs'[t])
                           /\ t > test' => logs'[t] = <<>>
                           /\ result'[t] = "ok" => t < test' \/ pc' = "finished"
                           /\ result'[t] = "ok" /\ faults' = 0 =>
                                 Len(logs'[t]) = TEST_MUSIC_NUMS * (MaxLevel + 2)
      BY <1>n, <2>1, <2>2 DEF LogInv, Tests
    <2>5. pc' \in {"name", "load", "code", "time"} =>
            /\ \A i \in 1..Len(logs'[test']) : EntryOf(logs'[test'][i]) < Entries'
            /\ faults' = 0 => Len(logs'[test']) = Entries'
      BY <2>1, <2>3 DEF LogInv
    <2> QED
      BY <2>2, <2>4, <2>5 DEF LogInv, InOrder
  <1>4. CASE LogTime
    <2>1. /\ pc = "time" /\ fileiter \in Songs /\ pc' \in {"load", "code", "name"}
          /\ UNCHANGED <<test, result>> /\ Log(<<fileiter, compresslevel>>)
      BY <1>4, <1>i DEF LogTime, PlaceInv
    <2>2. /\ Entries = (fileiter - 1) * (MaxLevel + 2) + compresslevel + 1 /\ Entries \in Int
          /\ (fileiter - 1) * (MaxLevel + 2) \in Int
      BY <1>i, <1>n, <2>1, EntriesIsInt DEF Entries
    <2>3. /\ <<fileiter, compresslevel>> \in Entry
          /\ EntryOf(<<fileiter, compresslevel>>) = Entries
      BY <1>i, <1>n, <2>1, <2>2, EntriesAreEntries, EntryPlaces
    <2>4. Entries' = Entries + 1
      <3>1. CASE compresslevel + 1 \in Levels
        <4>1. compresslevel' = compresslevel + 1 /\ fileiter' = fileiter /\ pc' \in {"load", "code"}
          BY <1>4, <3>1 DEF LogTime
        <4> QED
          BY <1>n, <2>2, <4>1 DEF Entries
      <3>2. CASE compresslevel + 1 \notin Levels
        <4>1. fileiter' = fileiter + 1 /\ pc' = "name"
          BY <1>4, <3>2 DEF LogTime
        <4>2. compresslevel = MaxLevel
          BY <1>i, <3>2, BenchAssumption DEF PlaceInv, Levels
        <4>3. Entries' = (fileiter + 1 - 1) * (MaxLevel + 2)
          BY <4>1, <1>n, BenchAssumption DEF Entries
        <4>4. (fileiter + 1 - 1) * (MaxLevel + 2) = (fileiter - 1) * (MaxLevel + 2) + MaxLevel + 2
          BY <1>n, BenchAssumption
        <4> QED
          BY <2>2, <4>2, <4>3, <4>4, BenchAssumption
      <3> QED
        BY <3>1, <3>2
    <2>5. /\ \A t \in Tests : InOrder(logs'[t]) /\ (t # test => logs'[t] = logs[t])
          /\ \A i \in 1..Len(logs'[test]) : EntryOf(logs'[test][i]) <= Entries
          /\ faults' = 0 => faults = 0 /\ Len(logs'[test]) = Entries + 1
      BY <2>1, <2>3, LogGrows
    <2>6. \A t \in Tests : result[t] = "ok" => t # test
      BY <1>n, <2>1 DEF LogInv, Tests
    <2>7. \A t \in Tests : /\ InOrder(logs'[t])
                           /\ t > test' => logs'[t] = <<>>
                           /\ result'[t] = "ok" => t < test' \/ pc' = "finished"
                           /\ result'[t] = "ok" /\ faults' = 0 =>
                                 Len(logs'[t]) = TEST_MUSIC_NUMS * (MaxLevel + 2)
      BY <1>n, <2>1, <2>5, <2>6 DEF LogInv, Tests
    <2>8. /\ \A i \in 1..Len(logs'[test']) : EntryOf(logs'[test'][i]) < Entries'
          /\ faults' = 0 => Len(logs'[test']) = Entries'
      <3>1. \A i \in 1..Len(logs'[test]) : EntryOf(logs'[test][i]) \in Int
        BY <1>i, <1>n, EntryPlaces DEF PlaceInv
      <3> QED
        BY <2>1, <2>2, <2>4, <2>5, <3>1
    <2> QED
      BY <1>0, <2>1, <2>7, <2>8 DEF LogInv, InOrder
  <1>5. CASE TestDone
    <2>1. /\ pc = "name" /\ fileiter = TEST_MUSIC_NUMS + 1
          /\ pc' \in {"openLog", "finished"} /\ UNCHANGED <<logs, faults>>
          /\ result' = [result EXCEPT ![test] = "ok"]
          /\ \/ test = 4 /\ test' = test /\ pc' = "finished"
             \/ test' = test + 1 /\ pc' = "openLog"
      BY <1>5, <1>i, BenchAssumption DEF TestDone, PlaceInv, Songs
    <2>2. faults = 0 => Len(logs[test]) = TEST_MUSIC_NUMS * (MaxLevel + 2)
      <3>1. fileiter - 1 = TEST_MUSIC_NUMS
        BY <2>1, BenchAssumption
      <3>2. Entries = TEST_MUSIC_NUMS * (MaxLevel + 2)
        BY <1>i, <2>1, <3>1, EntriesIsInt DEF Entries
      <3> QED
        BY <2>1, <3>2 DEF LogInv
    <2>3. \A t \in Tests : /\ InOrder(logs'[t])
                           /\ t > test' => logs'[t] = <<>>
                           /\ result'[t] = "ok" => t < test' \/ pc' = "finished"
                           /\ result'[t] = "ok" /\ faults' = 0 =>
                                 Len(logs'[t]) = TEST_MUSIC_NUMS * (MaxLevel + 2)
      BY <1>0, <1>n, <2>1, <2>2 DEF LogInv, Tests
    <2>4. result' \in [Tests -> {"none", "ok", "fail"}]
      BY <1>0, <2>1
    <2> QED
      BY <2>1, <2>3, <2>4 DEF LogInv, InOrder
  <1>6. CASE UNCHANGED vars
    BY <1>6 DEF vars, place, LogInv, Entries, InOrder, EntryOf
  <1> QED
    BY <1>1, <1>2, <1>3, <1>4, <1>5, <1>6 DEF Next, Go, Spin

\* A log has the songs in order, each with its levels in order, and of no other test;
\* when nothing failed, all of them.
THEOREM LogsAlwaysTellTheTests == Spec => []LogsTellTheTests
  <1>1. Init => LogInv
    <2> SUFFICES ASSUME Init PROVE LogInv
      OBVIOUS
    <2>1. /\ \A t \in Tests : logs[t] = <<>> /\ result[t] = "none"
          /\ result \in [Tests -> {"none", "ok", "fail"}]
          /\ pc = "openLog"
      BY DEF Init
    <2>2. InOrder(<<>>)
      BY DEF InOrder
    <2> QED
      BY <2>1, <2>2 DEF LogInv
  <1>2. Inv /\ LogInv /\ [Next]_vars => LogInv'
    BY LogStep
  <1>3. LogInv => LogsTellTheTests
    BY DEF LogInv, LogsTellTheTests, InOrder
  <1> QED
    BY <1>1, <1>2, <1>3, InductiveInvariant, PTL DEF Spec
===============================================================================
