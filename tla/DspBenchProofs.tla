---------------------------- MODULE DspBenchProofs -----------------------------
(***************************************************************************)
(* Proofs about DspBench, for any number of songs and levels, any sizes of *)
(* the region, the files, the header and the blocks, and any card: the     *)
(* cores are never in the music region together, every encode and decode   *)
(* is over its own file, and the encoder gets all of a song that has two   *)
(* bytes a sample in at most two channels.                                 *)
(***************************************************************************)
EXTENDS DspBench, SequenceTheorems, TLAPS

-------------------------------------------------------------------------------
(* The invariant *)

\* The link: the call the DSP is in, and what is queued or answered of it. A CLOSE
\* may be queued in front of any call.
CallOf(cmd, arg) == [cmd |-> cmd, arg |-> arg, data |-> NoData]
CloseCall == CallOf(TE_MODE_CLOSE, 0)
Awaiting == dspPc \in {"gotNums", "encPrepared", "decPrepared"}
Awaited ==
    IF dspPc = "gotNums" THEN CallOf(TE_MODE_GET_MUSICNUM, 0)
    ELSE IF dspPc = "encPrepared" THEN CallOf(TE_MODE_TEST_ENCODE, fileIter)
    ELSE CallOf(TE_MODE_TEST_DECODE, iter + 16 * xter)

\* The file is in the region, whole.
InRegion(name) == disk[name].size <= Capacity /\ Holds(name, disk[name].size)

\* What an answer says
Tells(word) ==
    IF dspPc = "gotNums" THEN word = Songs
    ELSE IF dspPc = "encPrepared"
    THEN word \in {TE_ACK_OK, TE_ACK_ERROR} /\ (word = TE_ACK_OK => InRegion(Wav(fileIter)))
    ELSE word = TE_ACK_OK /\ (Loadable(Flac(xter, iter)) => InRegion(Flac(xter, iter)))

Asked == answer = <<>> /\ queue \in {<<Awaited>>, <<CloseCall, Awaited>>}
Answered ==
    /\ queue = <<>> /\ Len(answer) = 1 /\ Tells(answer[1].word)

LinkInv ==
    /\ Awaiting => caller = <<Awaited>> /\ (Asked \/ Answered)
    /\ dspPc = "closed" =>
          /\ caller = <<CloseCall>> /\ answer = <<>>
          /\ queue \in {<<>>, <<CloseCall>>, <<CloseCall, CloseCall>>}
    /\ ~Awaiting /\ dspPc # "closed" =>
          caller = <<>> /\ answer = <<>> /\ queue \in {<<>>, <<CloseCall>>}

\* The load: it is made for the call that the DSP waits for; what is left is what is
\* not copied, what is copied is in place.
Copied(n) == \A a \in 0..(n - 1) : sram[a] = Byte(load.gen, a)
LoadInv ==
    /\ load \in [pc : {"idle", "length", "copy", "done"}, gen : Nat, size : Nat,
                 left : Nat, at : Nat, rc : {0, 1}]
    /\ cmPc \in {"serve", "load"}
    /\ cmPc = "serve" => load.pc = "idle"
    /\ cmPc = "load" =>
          /\ dspPc \in {"encPrepared", "decPrepared"}
          /\ queue = <<Awaited>> /\ answer = <<>>
          /\ load.pc # "idle" /\ load.gen = Name(Awaited) /\ load.size = disk[load.gen].size
    /\ load.pc \in {"length", "copy"} =>
          load.at + load.left = load.size /\ load.size <= Capacity /\ load.rc = 0
    /\ load.pc = "length" => load.at = 0
    /\ load.pc = "copy" => lengthWord = load.size /\ Copied(load.at)
    /\ load.pc = "done" =>
          IF load.rc = 0 THEN InRegion(load.gen) ELSE ~Loadable(load.gen)

\* The loops of the main program name files of the card.
LoopInv ==
    /\ disk \in Disks
    /\ fileIter \in Nat /\ xter \in Nat /\ iter \in Nat
    /\ dspPc \notin {"getNums", "gotNums"} => testMusicNums = Songs
    /\ dspPc \in {"encPrepared", "encLevel", "header", "read", "finish", "close", "closed"} =>
          fileIter < Songs
    /\ dspPc \in {"decPrepared", "decode"} => xter < Songs /\ iter <= LastLevel

\* The region from a load that succeeded to the next request
RegionInv ==
    /\ dspPc \in {"encLevel", "header", "read", "finish", "close", "closed"} =>
          InRegion(Wav(fileIter))
    /\ Encoding => filesize = lengthWord
    /\ dspPc = "decode" /\ Loadable(Flac(xter, iter)) =>
          InRegion(Flac(xter, iter)) /\ filesize = lengthWord

Inv == LinkInv /\ LoadInv /\ LoopInv /\ RegionInv

-------------------------------------------------------------------------------
(* Files and requests *)

\* The files of the card
LEMMA FilesOfCard ==
    ASSUME disk \in Disks, NEW name \in Names
    PROVE  /\ disk[name].present \in BOOLEAN /\ disk[name].size \in Nat
           /\ disk[name].readable \in Nat /\ disk[name].samples \in Nat
           /\ disk[name].channels \in Nat \ {0} /\ disk[name].width \in Nat \ {0}
           /\ name \in Nat
  <1>1. disk \in [Names -> DiskFile]
    BY DisksAssumption
  <1>2. disk[name] \in DiskFile
    BY <1>1
  <1>3. name \in Nat
    BY BenchAssumption DEF Names, Wav, Flac
  <1> QED
    BY <1>2, <1>3 DEF DiskFile

LEMMA WavIsName ==
    ASSUME NEW s \in Nat, s < Songs PROVE Wav(s) \in Names
  BY BenchAssumption DEF Names

LEMMA FlacIsName ==
    ASSUME NEW s \in Nat, s < Songs, NEW l \in Nat, l <= LastLevel
    PROVE  Flac(s, l) \in Names
  BY BenchAssumption DEF Names

\* The request for a file names the file that the DSP is going to code.
LEMMA RequestNames ==
    ASSUME LoopInv, dspPc \in {"encPrepared", "decPrepared"}
    PROVE  /\ Name(Awaited) = IF dspPc = "encPrepared" THEN Wav(fileIter)
                              ELSE Flac(xter, iter)
           /\ Name(Awaited) \in Names
  <1>1. CASE dspPc = "encPrepared"
    <2>1. Name(Awaited) = Wav(fileIter)
      BY <1>1 DEF Name, Awaited, CallOf, Wav
    <2> QED
      BY <1>1, <2>1, WavIsName DEF LoopInv
  <1>2. CASE dspPc = "decPrepared"
    <2>1. /\ xter \in Nat /\ iter \in Nat /\ iter < 16
          /\ xter < Songs /\ iter <= LastLevel
      BY <1>2, BenchAssumption DEF LoopInv
    <2>2. (iter + 16 * xter) \div 16 = xter /\ (iter + 16 * xter) % 16 = iter
      BY <2>1
    <2>3. Name(Awaited) = Flac(xter, iter)
      <3>1. Awaited.cmd = TE_MODE_TEST_DECODE /\ Awaited.arg = iter + 16 * xter
        BY <1>2 DEF Awaited, CallOf
      <3> QED
        BY <2>2, <3>1 DEF Name, TE_MODE_TEST_DECODE, TE_MODE_TEST_ENCODE
    <2> QED
      BY <1>2, <2>1, <2>3, FlacIsName
  <1> QED
    BY <1>1, <1>2

-------------------------------------------------------------------------------
(* The CM33's steps *)

LEMMA InitInv == Init => Inv
  <1> SUFFICES ASSUME Init PROVE Inv
    OBVIOUS
  <1> USE DEF Init
  <1>1. LinkInv
    BY DEF LinkInv, Awaiting, Link!Init
  <1>2. LoadInv
    BY DEF LoadInv, NotLoading
  <1>3. LoopInv
    BY DEF LoopInv
  <1>4. RegionInv
    BY DEF RegionInv, Encoding
  <1> QED
    BY <1>1, <1>2, <1>3, <1>4 DEF Inv

\* A load begins: its file is that of the call that the DSP waits for.
LEMMA StartLoadInv == Inv /\ StartLoad => Inv'
  <1> SUFFICES ASSUME Inv, StartLoad PROVE Inv'
    OBVIOUS
  <1>1. /\ UNCHANGED <<disk, caller, queue, answer, dspPc, testMusicNums, fileIter, xter,
                       iter, sram, lengthWord, filesize>>
        /\ cmPc = "serve" /\ cmPc' = "load" /\ queue # <<>>
        /\ Head(queue).cmd \in {TE_MODE_TEST_ENCODE, TE_MODE_TEST_DECODE}
        /\ LET name == Name(Head(queue)) IN
           load' = [pc   |-> IF disk[name].present /\ disk[name].size <= Capacity
                             THEN "length" ELSE "done",
                    gen  |-> name, size |-> disk[name].size, left |-> disk[name].size,
                    at   |-> 0,
                    rc   |-> IF disk[name].present /\ disk[name].size <= Capacity
                             THEN 0 ELSE 1]
    BY DEF StartLoad, Requested, OpenInput, linkVars, dspVars, loopVars, regionVars, readerVars
  <1>2. /\ dspPc \in {"encPrepared", "decPrepared"} /\ answer = <<>>
        /\ queue = <<Awaited>> /\ Head(queue) = Awaited
    <2>1. CloseCall.cmd \notin {TE_MODE_TEST_ENCODE, TE_MODE_TEST_DECODE}
      BY DEF CloseCall, CallOf, TE_MODE_CLOSE, TE_MODE_TEST_ENCODE, TE_MODE_TEST_DECODE
    <2>2. Head(queue) # CloseCall
      BY <1>1, <2>1
    <2>3. Awaiting
      BY <1>1, <2>2 DEF Inv, LinkInv
    <2>4. answer = <<>> /\ queue = <<Awaited>>
      BY <1>1, <2>2, <2>3 DEF Inv, LinkInv, Asked, Answered
    <2>5. Head(queue) = Awaited
      BY <2>4
    <2>6. dspPc # "gotNums"
      BY <1>1, <2>5 DEF Awaited, CallOf, TE_MODE_TEST_ENCODE, TE_MODE_TEST_DECODE,
         TE_MODE_GET_MUSICNUM
    <2> QED
      BY <2>3, <2>4, <2>5, <2>6 DEF Awaiting
  <1> DEFINE name == Name(Awaited)
  <1>3. name \in Names
    BY <1>2, RequestNames DEF Inv
  <1>4. /\ disk[name].present \in BOOLEAN /\ disk[name].size \in Nat /\ name \in Nat
    BY <1>3, FilesOfCard DEF Inv, LoopInv
  <1>5. LinkInv'
    BY <1>1 DEF Inv, LinkInv, Awaiting, Awaited, Asked, Answered, Tells, InRegion, Holds, Loadable
  <1>6. LoopInv' /\ RegionInv'
    BY <1>1 DEF Inv, LoopInv, RegionInv, Encoding, InRegion, Holds, Loadable
  <1>7. LoadInv'
    <2>1. /\ load' \in [pc : {"idle", "length", "copy", "done"}, gen : Nat, size : Nat,
                         left : Nat, at : Nat, rc : {0, 1}]
          /\ load'.pc \in {"length", "done"} /\ load'.gen = name
          /\ load'.size = disk[name].size /\ load'.left = disk[name].size /\ load'.at = 0
          /\ load'.pc = "length" => load'.rc = 0 /\ disk[name].size <= Capacity
          /\ load'.pc = "done" => load'.rc = 1 /\ ~Loadable(name)
      BY <1>1, <1>2, <1>4 DEF Loadable
    <2>2. Awaited' = Awaited /\ Loadable(name)' = Loadable(name)
      BY <1>1 DEF Awaited, Loadable, Name
    <2> HIDE DEF name
    <2> QED
      BY <1>1, <1>2, <1>4, <2>1, <2>2 DEF LoadInv, name, Name
  <1> QED
    BY <1>5, <1>6, <1>7 DEF Inv

\* While a file is loaded the region and the length word are nobody else's.
LEMMA LoadStepInv == Inv /\ LoadStep => Inv'
  <1> SUFFICES ASSUME Inv, LoadStep PROVE Inv'
    OBVIOUS
  <1>1. /\ UNCHANGED <<disk, caller, queue, answer, dspPc, testMusicNums, fileIter, xter,
                       iter, filesize, cmPc>>
        /\ cmPc = "load"
    BY DEF LoadStep, linkVars, dspVars, loopVars, readerVars
  <1>2. /\ dspPc \in {"encPrepared", "decPrepared"}
        /\ queue = <<Awaited>> /\ answer = <<>>
        /\ load.gen = Name(Awaited) /\ load.size = disk[load.gen].size
        /\ load.at \in Nat /\ load.left \in Nat /\ load.size \in Nat
    BY <1>1 DEF Inv, LoadInv
  <1>3. load.gen \in Names
    BY <1>2, RequestNames DEF Inv
  <1>4. disk[load.gen].readable \in Nat /\ disk[load.gen].size \in Nat
    BY <1>3, FilesOfCard DEF Inv, LoopInv
  <1>5. LinkInv'
    <2>1. Awaited' = Awaited
      BY <1>1 DEF Awaited
    <2>2. Asked'
      BY <1>1, <1>2, <2>1 DEF Asked
    <2> QED
      BY <1>1, <1>2, <2>1, <2>2 DEF Inv, LinkInv, Awaiting
  <1>6. LoopInv' /\ RegionInv'
    BY <1>1, <1>2 DEF Inv, LoopInv, RegionInv, Encoding
  <1>7. LoadInv'
    <2>1. Awaited' = Awaited /\ Name(Awaited)' = Name(Awaited)
          /\ Loadable(load.gen) = (disk[load.gen].present /\ disk[load.gen].size <= Capacity
                                   /\ disk[load.gen].readable >= disk[load.gen].size)
      BY <1>1 DEF Awaited, Name, Loadable
    <2>2. CASE StoreLength
      <3>1. /\ load.pc = "length" /\ load' = [load EXCEPT !.pc = "copy"]
            /\ lengthWord' = load.size
        BY <2>2 DEF StoreLength
      <3>2. /\ load'.pc = "copy" /\ load'.gen = load.gen /\ load'.size = load.size
            /\ load'.left = load.left /\ load'.at = load.at /\ load'.rc = load.rc
            /\ load' \in [pc : {"idle", "length", "copy", "done"}, gen : Nat, size : Nat,
                           left : Nat, at : Nat, rc : {0, 1}]
        BY <3>1 DEF Inv, LoadInv
      <3>3. load.at = 0 /\ load.at + load.left = load.size /\ load.size <= Capacity
            /\ load.rc = 0
        BY <3>1 DEF Inv, LoadInv
      <3>4. Copied(load.at)'
        BY <3>2, <3>3 DEF Copied
      <3> QED
        BY <1>1, <1>2, <2>1, <3>1, <3>2, <3>3, <3>4 DEF LoadInv
    <2>3. CASE CopyChunk(load.at >= disk[load.gen].readable)
      <3>1. /\ load.pc = "copy" /\ UNCHANGED lengthWord
            /\ load \in [pc : {"idle", "length", "copy", "done"}, gen : Nat, size : Nat,
                          left : Nat, at : Nat, rc : {0, 1}]
            /\ load.at + load.left = load.size /\ load.size <= Capacity
            /\ load.rc = 0 /\ lengthWord = load.size /\ Copied(load.at)
        BY <2>3 DEF CopyChunk, Inv, LoadInv
      <3>2. CASE load.left = 0
        <4>1. /\ load' = [load EXCEPT !.pc = "done"] /\ sram' = sram
          BY <2>3, <3>2 DEF CopyChunk
        <4>2. /\ load'.pc = "done" /\ load'.gen = load.gen /\ load'.size = load.size
              /\ load'.rc = 0
              /\ load' \in [pc : {"idle", "length", "copy", "done"}, gen : Nat, size : Nat,
                             left : Nat, at : Nat, rc : {0, 1}]
          BY <3>1, <4>1
        <4>3. InRegion(load.gen)'
          BY <1>1, <1>2, <3>1, <3>2, <4>1, <4>2 DEF InRegion, Holds, Copied
        <4> QED
          BY <1>1, <1>2, <2>1, <4>2, <4>3 DEF LoadInv
      <3>3. CASE load.left # 0 /\ load.at >= disk[load.gen].readable
        <4>1. /\ load' = [load EXCEPT !.pc = "done", !.rc = 1] /\ sram' = sram
          BY <2>3, <3>3 DEF CopyChunk
        <4>2. /\ load'.pc = "done" /\ load'.gen = load.gen /\ load'.size = load.size
              /\ load'.rc = 1
              /\ load' \in [pc : {"idle", "length", "copy", "done"}, gen : Nat, size : Nat,
                             left : Nat, at : Nat, rc : {0, 1}]
          BY <3>1, <4>1
        <4>3. ~(disk[load.gen].readable >= disk[load.gen].size)
          BY <1>2, <1>4, <3>1, <3>3
        <4>4. ~Loadable(load.gen)'
          BY <1>1, <4>2, <4>3 DEF Loadable
        <4> QED
          BY <1>1, <1>2, <2>1, <4>2, <4>4 DEF LoadInv
      <3>4. CASE load.left # 0 /\ ~(load.at >= disk[load.gen].readable)
        <4> DEFINE n == IF load.left > ReadSize THEN ReadSize ELSE load.left
        <4>1. /\ sram' = [a \in Addr |-> IF a \in load.at..(load.at + n - 1)
                                         THEN Byte(load.gen, a) ELSE sram[a]]
              /\ load' = [load EXCEPT !.left = @ - n, !.at = @ + n]
          BY <2>3, <3>4 DEF CopyChunk
        <4>2. n \in Nat /\ n <= load.left
          BY <1>2, SizesAssumption
        <4> HIDE DEF n
        <4>3. /\ load'.pc = "copy" /\ load'.gen = load.gen /\ load'.size = load.size
              /\ load'.left = load.left - n /\ load'.at = load.at + n /\ load'.rc = 0
          BY <3>1, <4>1
        <4>4. load' \in [pc : {"idle", "length", "copy", "done"}, gen : Nat, size : Nat,
                         left : Nat, at : Nat, rc : {0, 1}]
          <5>1. load.left - n \in Nat /\ load.at + n \in Nat
            BY <1>2, <4>2
          <5> QED
            BY <3>1, <4>1, <5>1
        <4>5. load'.at + load'.left = load'.size
          BY <1>2, <3>1, <4>2, <4>3
        <4>6. Copied(load.at)'
          <5>1. SUFFICES ASSUME NEW a \in 0..(load'.at - 1)
                         PROVE  sram'[a] = Byte(load'.gen, a)
            BY DEF Copied
          <5>2. a \in Addr
            BY <1>2, <3>1, <4>2, <4>3, SizesAssumption DEF Addr
          <5>3. a \in 0..(load.at - 1) \/ a \in load.at..(load.at + n - 1)
            BY <1>2, <4>2, <4>3
          <5>4. a \in 0..(load.at - 1) => sram[a] = Byte(load.gen, a)
            BY <3>1 DEF Copied
          <5> QED
            BY <4>1, <4>3, <5>2, <5>3, <5>4
        <4> QED
          BY <1>1, <1>2, <2>1, <3>1, <4>3, <4>4, <4>5, <4>6 DEF LoadInv
      <3> QED
        BY <3>2, <3>3, <3>4
    <2> QED
      BY <2>2, <2>3 DEF LoadStep
  <1> QED
    BY <1>5, <1>6, <1>7 DEF Inv

\* The answer to a request for a file says what the load came to.
LEMMA FinishLoadInv == Inv /\ FinishLoad => Inv'
  <1> SUFFICES ASSUME Inv, FinishLoad PROVE Inv'
    OBVIOUS
  <1>1. /\ UNCHANGED <<disk, caller, dspPc, testMusicNums, fileIter, xter, iter, sram,
                       lengthWord, filesize>>
        /\ cmPc = "load" /\ cmPc' = "serve"
        /\ load.pc = "done" /\ load' = [load EXCEPT !.pc = "idle"]
        /\ queue' = Tail(queue)
        /\ answer' = IF Head(queue).cmd # TE_MODE_CLOSE
                     THEN <<[word |-> AckFor(Head(queue).cmd, load.rc), data |-> NoData]>>
                     ELSE <<>>
    BY DEF FinishLoad, LoadReturned, Requested, Link!Perform, Link!Replies,
       Link!TE_MODE_CLOSE, TE_MODE_CLOSE, dspVars, loopVars, regionVars, readerVars
  <1>2. /\ dspPc \in {"encPrepared", "decPrepared"} /\ queue = <<Awaited>>
        /\ load.gen = Name(Awaited) /\ load.rc \in {0, 1}
        /\ IF load.rc = 0 THEN InRegion(load.gen) ELSE ~Loadable(load.gen)
        /\ caller = <<Awaited>>
    BY <1>1 DEF Inv, LoadInv, LinkInv, Awaiting
  <1>3. /\ queue' = <<>>
        /\ Len(answer') = 1 /\ answer'[1].word = AckFor(Awaited.cmd, load.rc)
    <2>1. Head(queue) = Awaited /\ Tail(queue) = <<>>
      BY <1>2
    <2>2. Awaited.cmd # TE_MODE_CLOSE
      BY <1>2 DEF Awaited, CallOf, TE_MODE_CLOSE, TE_MODE_TEST_ENCODE, TE_MODE_TEST_DECODE
    <2> QED
      BY <1>1, <2>1, <2>2
  <1>4. Tells(answer'[1].word)
    <2>1. CASE dspPc = "encPrepared"
      <3>1. Awaited.cmd = TE_MODE_TEST_ENCODE /\ Name(Awaited) = Wav(fileIter)
        BY <2>1, RequestNames DEF Inv, Awaited, CallOf
      <3> QED
        BY <1>2, <1>3, <2>1, <3>1 DEF Tells, AckFor, TE_ACK_OK, TE_ACK_ERROR
    <2>2. CASE dspPc = "decPrepared"
      <3>1. Awaited.cmd = TE_MODE_TEST_DECODE /\ Name(Awaited) = Flac(xter, iter)
        BY <2>2, RequestNames DEF Inv, Awaited, CallOf
      <3> QED
        BY <1>2, <1>3, <2>2, <3>1 DEF Tells, AckFor, TE_ACK_OK, TE_ACK_ERROR,
           TE_MODE_TEST_DECODE, TE_MODE_TEST_ENCODE
    <2> QED
      BY <1>2, <2>1, <2>2
  <1>5. LinkInv'
    <2>1. Awaited' = Awaited
      BY <1>1 DEF Awaited
    <2>2. Answered'
      BY <1>1, <1>3, <1>4 DEF Answered, Tells, InRegion, Holds, Loadable
    <2> QED
      BY <1>1, <1>2, <2>1, <2>2 DEF LinkInv, Awaiting
  <1>6. LoopInv' /\ RegionInv'
    BY <1>1 DEF Inv, LoopInv, RegionInv, Encoding, InRegion, Holds, Loadable
  <1>7. LoadInv'
    <2>1. /\ load' \in [pc : {"idle", "length", "copy", "done"}, gen : Nat, size : Nat,
                         left : Nat, at : Nat, rc : {0, 1}]
          /\ load'.pc = "idle"
      BY <1>1 DEF Inv, LoadInv
    <2> QED
      BY <1>1, <2>1 DEF LoadInv
  <1> QED
    BY <1>5, <1>6, <1>7 DEF Inv

\* GET_MUSICNUM is answered; a CLOSE is taken off the queue.
LEMMA ServeOtherInv == Inv /\ ServeOther => Inv'
  <1> SUFFICES ASSUME Inv, ServeOther PROVE Inv'
    OBVIOUS
  <1>1. /\ UNCHANGED <<disk, caller, dspPc, testMusicNums, fileIter, xter, iter, sram,
                       lengthWord, filesize, cmPc, load>>
        /\ cmPc = "serve" /\ queue # <<>> /\ answer = <<>>
        /\ Head(queue).cmd \in {TE_MODE_GET_MUSICNUM, TE_MODE_CLOSE}
        /\ queue' = Tail(queue)
        /\ answer' = IF Head(queue).cmd # TE_MODE_CLOSE
                     THEN <<[word |-> Songs, data |-> NoData]>> ELSE <<>>
    BY DEF ServeOther, Requested, Link!Perform, Link!Replies, Link!TE_MODE_CLOSE,
       TE_MODE_CLOSE, dspVars, cmVars, loopVars, regionVars, readerVars
  <1>2. Awaited' = Awaited /\ CloseCall' = CloseCall
    BY <1>1 DEF Awaited
  <1>3. LinkInv'
    <2>1. CASE Awaiting
      <3>1. caller = <<Awaited>> /\ queue \in {<<Awaited>>, <<CloseCall, Awaited>>}
        BY <1>1, <2>1 DEF Inv, LinkInv, Asked, Answered
      <3>2. CASE queue = <<Awaited>>
        <4>1. Head(queue) = Awaited /\ Tail(queue) = <<>>
          BY <3>2
        <4>2. dspPc = "gotNums"
          BY <1>1, <2>1, <4>1 DEF Awaiting, Awaited, CallOf, TE_MODE_GET_MUSICNUM,
             TE_MODE_CLOSE, TE_MODE_TEST_ENCODE, TE_MODE_TEST_DECODE
        <4>3. Awaited.cmd # TE_MODE_CLOSE
          BY <4>2 DEF Awaited, CallOf, TE_MODE_GET_MUSICNUM, TE_MODE_CLOSE
        <4>4. queue' = <<>> /\ Len(answer') = 1 /\ answer'[1].word = Songs
          BY <1>1, <4>1, <4>3
        <4>5. Answered'
          BY <1>1, <4>2, <4>4 DEF Answered, Tells
        <4> QED
          BY <1>1, <1>2, <3>1, <4>2, <4>5 DEF LinkInv, Awaiting
      <3>3. CASE queue = <<CloseCall, Awaited>>
        <4>1. Head(queue) = CloseCall /\ Tail(queue) = <<Awaited>>
          BY <3>3
        <4>2. queue' = <<Awaited>> /\ answer' = <<>>
          BY <1>1, <4>1 DEF CloseCall, CallOf
        <4>3. Asked'
          BY <1>2, <4>2 DEF Asked
        <4> QED
          BY <1>1, <1>2, <2>1, <3>1, <4>3 DEF LinkInv, Awaiting
      <3> QED
        BY <3>1, <3>2, <3>3
    <2>2. CASE ~Awaiting
      <3>1. queue \in {<<CloseCall>>, <<CloseCall, CloseCall>>}
            /\ (dspPc # "closed" => queue = <<CloseCall>>)
        BY <1>1, <2>2 DEF Inv, LinkInv
      <3>2. Head(queue) = CloseCall /\ Tail(queue) \in {<<>>, <<CloseCall>>}
            /\ (dspPc # "closed" => Tail(queue) = <<>>)
        <4>1. CASE queue = <<CloseCall>>
          BY <4>1
        <4>2. CASE queue = <<CloseCall, CloseCall>> /\ dspPc = "closed"
          <5>1. Tail(queue) = <<CloseCall>>
            BY <4>2
          <5> QED
            BY <4>2, <5>1
        <4> QED
          BY <3>1, <4>1, <4>2, Zenon
      <3>3. answer' = <<>>
        BY <1>1, <3>2 DEF CloseCall, CallOf
      <3> QED
        BY <1>1, <1>2, <2>2, <3>2, <3>3 DEF Inv, LinkInv, Awaiting
    <2> QED
      BY <2>1, <2>2
  <1>4. LoopInv' /\ RegionInv' /\ LoadInv'
    BY <1>1 DEF Inv, LoadInv, LoopInv, RegionInv, Encoding, InRegion, Holds, Loadable, Copied
  <1> QED
    BY <1>3, <1>4 DEF Inv

-------------------------------------------------------------------------------
(* The DSP's calls *)

\* What stays as it is in every step of the DSP
Kept == <<disk, cmPc, load, sram, lengthWord>>

\* Where the DSP is in no call
Free == ~Awaiting /\ dspPc # "closed"

\* While the DSP is in no call for a file the CM33 loads none.
LEMMA FreeServes == Inv /\ Free => cmPc = "serve" /\ load.pc = "idle"
  BY DEF Inv, LoadInv, Free, Awaiting

LEMMA LoadStays ==
    ASSUME Inv, cmPc = "serve", UNCHANGED Kept
    PROVE  LoadInv'
  BY DEF Inv, LoadInv, Kept

LEMMA AppendSecond ==
    ASSUME NEW x, NEW y PROVE Append(<<x>>, y) = <<x, y>>
  <1> DEFINE S == {x, y}
  <1>1. <<x>> \in Seq(S) /\ Len(<<x>>) = 1 /\ y \in S /\ <<x, y>> \in Seq(S)
    OBVIOUS
  <1>2. /\ Append(<<x>>, y) \in Seq(S) /\ Len(Append(<<x>>, y)) = 2
        /\ Append(<<x>>, y)[1] = x /\ Append(<<x>>, y)[2] = y
    <2> HIDE DEF S
    <2> QED
      BY <1>1, AppendProperties
  <1>3. Len(<<x, y>>) = 2 /\ \A i \in 1..2 : Append(<<x>>, y)[i] = <<x, y>>[i]
    BY <1>2
  <1> HIDE DEF S
  <1> QED
    BY <1>1, <1>2, <1>3, SeqEqual

LEMMA CallEffect ==
    ASSUME NEW cmd, NEW arg, NEW from, NEW to, CallLink(cmd, arg, from, to)
    PROVE  /\ dspPc = from /\ dspPc' = to
           /\ caller' = <<CallOf(cmd, arg)>> /\ queue' = Append(queue, CallOf(cmd, arg))
           /\ UNCHANGED <<Kept, answer, testMusicNums, fileIter, xter, iter, filesize>>
  BY DEF CallLink, Link!Issue, CallOf, cmVars, regionVars, loopVars, readerVars, Kept

\* A call for which the DSP waits: a CLOSE may still be queued in front of it.
LEMMA CallsInv ==
    Inv /\ (GetMusicFileNums \/ PrepareEncode \/ PrepareDecode) => Inv'
  <1> SUFFICES ASSUME Inv, GetMusicFileNums \/ PrepareEncode \/ PrepareDecode PROVE Inv'
    OBVIOUS
  <1>1. /\ Free /\ Awaiting'
        /\ caller' = <<Awaited'>> /\ queue' = Append(queue, Awaited')
        /\ UNCHANGED <<Kept, answer, testMusicNums, fileIter, xter, iter, filesize>>
        /\ \/ dspPc = "getNums" /\ dspPc' = "gotNums"
           \/ dspPc = "encFile" /\ dspPc' = "encPrepared" /\ fileIter < testMusicNums
           \/ /\ dspPc = "decFile" /\ dspPc' = "decPrepared"
              /\ xter < testMusicNums /\ iter <= LastLevel
    <2>1. CASE GetMusicFileNums
      <3>1. CallLink(TE_MODE_GET_MUSICNUM, 0, "getNums", "gotNums")
        BY <2>1 DEF GetMusicFileNums
      <3> QED
        BY <3>1, CallEffect DEF Free, Awaiting, Awaited
    <2>2. CASE PrepareEncode
      <3>1. /\ CallLink(TE_MODE_TEST_ENCODE, fileIter, "encFile", "encPrepared")
            /\ fileIter < testMusicNums
        BY <2>2 DEF PrepareEncode
      <3> QED
        BY <3>1, CallEffect DEF Free, Awaiting, Awaited
    <2>3. CASE PrepareDecode
      <3>1. /\ CallLink(TE_MODE_TEST_DECODE, iter + 16 * xter, "decFile", "decPrepared")
            /\ xter < testMusicNums /\ iter <= LastLevel
        BY <2>3 DEF PrepareDecode
      <3> QED
        BY <3>1, CallEffect DEF Free, Awaiting, Awaited
    <2> QED
      BY <2>1, <2>2, <2>3
  <1>2. LinkInv'
    <2>1. answer = <<>> /\ queue \in {<<>>, <<CloseCall>>}
      BY <1>1 DEF Inv, LinkInv, Free
    <2>2. CASE queue = <<>>
      <3>1. queue' = <<Awaited'>>
        BY <1>1, <2>2
      <3> QED
        BY <1>1, <2>1, <3>1 DEF LinkInv, Asked, Awaiting
    <2>3. CASE queue = <<CloseCall>>
      <3>1. queue' = <<CloseCall, Awaited'>>
        BY <1>1, <2>3, AppendSecond
      <3> QED
        BY <1>1, <2>1, <3>1 DEF LinkInv, Asked, Awaiting, CloseCall
    <2> QED
      BY <2>1, <2>2, <2>3
  <1>3. LoadInv'
    BY <1>1, FreeServes, LoadStays
  <1>4. LoopInv' /\ RegionInv'
    BY <1>1 DEF Inv, LoopInv, RegionInv, Encoding, Kept
  <1> QED
    BY <1>2, <1>3, <1>4 DEF Inv

\* A CLOSE for which the DSP does not wait
LEMMA CloseFileInv == Inv /\ CloseFile => Inv'
  <1> SUFFICES ASSUME Inv, CloseFile PROVE Inv'
    OBVIOUS
  <1>1. /\ dspPc = "close" /\ dspPc' = "closed" /\ Free
        /\ caller' = <<CloseCall>> /\ queue' = Append(queue, CloseCall)
        /\ UNCHANGED <<Kept, answer, testMusicNums, fileIter, xter, iter, filesize>>
    BY CallEffect DEF CloseFile, CloseCall, Free, Awaiting
  <1>2. LinkInv'
    <2>1. answer = <<>> /\ queue \in {<<>>, <<CloseCall>>}
      BY <1>1 DEF Inv, LinkInv, Free
    <2>2. queue' \in {<<CloseCall>>, <<CloseCall, CloseCall>>}
      <3>1. CASE queue = <<>>
        BY <1>1, <3>1
      <3>2. CASE queue = <<CloseCall>>
        <4>1. queue' = <<CloseCall, CloseCall>>
          BY <1>1, <3>2, AppendSecond
        <4> QED
          BY <4>1
      <3> QED
        BY <2>1, <3>1, <3>2
    <2> QED
      BY <1>1, <2>1, <2>2 DEF LinkInv, Awaiting, CloseCall, CallOf
  <1>3. LoadInv'
    BY <1>1, FreeServes, LoadStays
  <1>4. LoopInv' /\ RegionInv'
    BY <1>1 DEF Inv, LoopInv, RegionInv, Encoding, InRegion, Holds, Kept, Loadable
  <1> QED
    BY <1>2, <1>3, <1>4 DEF Inv

-------------------------------------------------------------------------------
(* The DSP's returns *)

\* A call that waits returns what it was answered, and leaves nothing behind.
LEMMA ReturnEffect ==
    ASSUME Inv, Awaiting, Link!Return
    PROVE  /\ Answered /\ queue = <<>> /\ cmPc = "serve"
           /\ caller' = <<>> /\ queue' = <<>> /\ answer' = <<>>
           /\ result'.value = IF dspPc = "gotNums" THEN answer[1].word
                              ELSE answer[1].word % 256
  <1>1. caller[1] = Awaited /\ Link!Replies(Awaited.cmd) /\ (Asked \/ Answered)
    <2>1. caller = <<Awaited>> /\ (Asked \/ Answered)
      BY DEF Inv, LinkInv
    <2>2. Awaited.cmd # TE_MODE_CLOSE
      BY DEF Awaiting, Awaited, CallOf, TE_MODE_CLOSE, TE_MODE_TEST_ENCODE,
         TE_MODE_TEST_DECODE, TE_MODE_GET_MUSICNUM
    <2> QED
      BY <2>1, <2>2 DEF Link!Replies, Link!TE_MODE_CLOSE, TE_MODE_CLOSE
  <1>2. /\ answer # <<>> /\ queue = <<>> /\ caller' = <<>> /\ queue' = queue
        /\ answer' = <<>>
        /\ result'.value = Link!Returned(Awaited.cmd, answer[1].word)
    BY <1>1 DEF Link!Return
  <1>3. Answered
    BY <1>1, <1>2 DEF Asked
  <1>4. cmPc = "serve"
    BY <1>2 DEF Inv, LoadInv
  <1>5. Link!Returned(Awaited.cmd, answer[1].word)
            = IF dspPc = "gotNums" THEN answer[1].word ELSE answer[1].word % 256
    BY DEF Awaiting, Awaited, CallOf, Link!Returned, TE_MODE_TEST_ENCODE,
       TE_MODE_TEST_DECODE, TE_MODE_GET_MUSICNUM, Link!TE_MODE_TELL,
       Link!TE_MODE_GET_MUSICNUM, Link!TE_MODE_TEST_DECODE, Link!TE_MODE_TEST_ENCODE
  <1> QED
    BY <1>2, <1>3, <1>4, <1>5

LEMMA GotMusicFileNumsInv == Inv /\ GotMusicFileNums => Inv'
  <1> SUFFICES ASSUME Inv, GotMusicFileNums PROVE Inv'
    OBVIOUS
  <1>1. /\ dspPc = "gotNums" /\ dspPc' = "encFile" /\ Link!Return
        /\ testMusicNums' = result'.value
        /\ UNCHANGED <<Kept, fileIter, xter, iter, filesize>>
    BY DEF GotMusicFileNums, cmVars, regionVars, readerVars, Kept
  <1>2. /\ caller' = <<>> /\ queue' = <<>> /\ answer' = <<>> /\ cmPc = "serve"
        /\ testMusicNums' = Songs
    BY <1>1, ReturnEffect DEF Awaiting, Answered, Tells
  <1>3. LinkInv'
    BY <1>1, <1>2 DEF LinkInv, Awaiting
  <1>4. LoadInv'
    BY <1>1, <1>2, LoadStays
  <1>5. LoopInv' /\ RegionInv'
    BY <1>1, <1>2 DEF Inv, LoopInv, RegionInv, Encoding, Kept
  <1> QED
    BY <1>3, <1>4, <1>5 DEF Inv

LEMMA EncodePreparedInv == Inv /\ EncodePrepared => Inv'
  <1> SUFFICES ASSUME Inv, EncodePrepared PROVE Inv'
    OBVIOUS
  <1>1. /\ dspPc = "encPrepared" /\ Link!Return
        /\ dspPc' = IF result'.value = TE_ACK_ERROR THEN "halted" ELSE "encLevel"
        /\ UNCHANGED <<Kept, testMusicNums, fileIter, xter, iter, filesize>>
    BY DEF EncodePrepared, cmVars, regionVars, readerVars, Kept
  <1>2. /\ caller' = <<>> /\ queue' = <<>> /\ answer' = <<>> /\ cmPc = "serve"
        /\ Tells(answer[1].word) /\ result'.value = answer[1].word % 256
    BY <1>1, ReturnEffect DEF Awaiting, Answered
  <1>3. dspPc' = "halted" \/ (dspPc' = "encLevel" /\ InRegion(Wav(fileIter)))
    BY <1>1, <1>2 DEF Tells, TE_ACK_OK, TE_ACK_ERROR
  <1>4. LinkInv'
    BY <1>1, <1>2, <1>3 DEF LinkInv, Awaiting
  <1>5. LoadInv'
    BY <1>1, <1>2, LoadStays
  <1>6. LoopInv' /\ RegionInv'
    BY <1>1, <1>3 DEF Inv, LoopInv, RegionInv, Encoding, Kept, InRegion, Holds
  <1> QED
    BY <1>4, <1>5, <1>6 DEF Inv

\* The CLOSE of the call before this one was performed when it returns.
LEMMA FileClosedInv == Inv /\ FileClosed => Inv'
  <1> SUFFICES ASSUME Inv, FileClosed PROVE Inv'
    OBVIOUS
  <1>1. /\ dspPc = "closed" /\ dspPc' = "encLevel" /\ Link!Return
        /\ UNCHANGED <<Kept, testMusicNums, fileIter, xter, iter, filesize>>
    BY DEF FileClosed, cmVars, regionVars, readerVars, Kept
  <1>2. /\ caller = <<CloseCall>> /\ answer = <<>>
        /\ queue \in {<<>>, <<CloseCall>>, <<CloseCall, CloseCall>>}
    BY <1>1 DEF Inv, LinkInv
  <1>3. ~Link!Replies(caller[1].cmd)
    BY <1>2 DEF CloseCall, CallOf, Link!Replies, Link!TE_MODE_CLOSE, TE_MODE_CLOSE
  <1>4. /\ caller' = <<>> /\ queue' = queue /\ answer' = answer /\ Len(queue) <= 1
    BY <1>1, <1>3 DEF Link!Return
  <1>5. queue # <<CloseCall, CloseCall>>
    BY <1>4
  <1>6. LinkInv'
    BY <1>1, <1>2, <1>4, <1>5 DEF LinkInv, Awaiting, CloseCall, CallOf
  <1>7. cmPc = "serve"
    BY <1>1 DEF Inv, LoadInv
  <1>8. LoadInv'
    BY <1>1, <1>7, LoadStays
  <1>9. LoopInv' /\ RegionInv'
    BY <1>1 DEF Inv, LoopInv, RegionInv, Encoding, Kept, InRegion, Holds
  <1> QED
    BY <1>6, <1>8, <1>9 DEF Inv

LEMMA DecodePreparedInv == Inv /\ DecodePrepared => Inv'
  <1> SUFFICES ASSUME Inv, DecodePrepared PROVE Inv'
    OBVIOUS
  <1>1. /\ dspPc = "decPrepared" /\ Link!Return
        /\ IF result'.value = TE_ACK_ERROR THEN dspPc' = "halted"
           ELSE dspPc' = "decode" /\ filesize' = lengthWord
        /\ UNCHANGED <<Kept, testMusicNums, fileIter, xter, iter>>
    BY DEF DecodePrepared, ResetReadPr, cmVars, regionVars, loopVars, Kept
  <1>2. /\ caller' = <<>> /\ queue' = <<>> /\ answer' = <<>> /\ cmPc = "serve"
        /\ Loadable(Flac(xter, iter)) => InRegion(Flac(xter, iter))
    BY <1>1, ReturnEffect DEF Awaiting, Answered, Tells
  <1>3. LinkInv'
    BY <1>1, <1>2 DEF LinkInv, Awaiting
  <1>4. LoadInv'
    BY <1>1, <1>2, LoadStays
  <1>5. LoopInv'
    BY <1>1 DEF Inv, LoopInv, Kept
  <1>6. RegionInv'
    BY <1>1, <1>2 DEF RegionInv, Encoding, Kept, InRegion, Holds, Loadable
  <1> QED
    BY <1>3, <1>4, <1>5, <1>6 DEF Inv

-------------------------------------------------------------------------------
(* The DSP's own steps *)

\* A step between two calls leaves the link and the load alone.
LEMMA OwnStep ==
    ASSUME Inv, Free, Free', UNCHANGED <<Kept, linkVars>>
    PROVE  LinkInv' /\ LoadInv'
  <1>1. LinkInv'
    BY DEF Inv, LinkInv, Free, linkVars, CloseCall, CallOf
  <1>2. LoadInv'
    BY FreeServes, LoadStays DEF linkVars
  <1> QED
    BY <1>1, <1>2

OwnSteps ==
    \/ AllEncoded \/ StartEncode \/ AllLevelsEncoded \/ ReadHeader \/ ReadBlock
    \/ AllBlocksRead \/ FinishEncode \/ NextSongToDecode \/ AllDecoded
    \/ DecoderReads \/ DecoderSeeks \/ FinishDecode

\* A read refreshes the size, and leaves a size that is fresh as it is.
LEMMA ReadKeepsSize ==
    ASSUME NEW len, ReadBuf(len) PROVE filesize = lengthWord => filesize' = lengthWord
  BY DEF ReadBuf, readerVars

LEMMA OwnStepsInv == Inv /\ OwnSteps => Inv'
  <1> SUFFICES ASSUME Inv, OwnSteps PROVE Inv'
    OBVIOUS
  <1>1. /\ Free /\ Free' /\ UNCHANGED <<Kept, linkVars>>
        /\ LoopInv' /\ RegionInv'
    <2> USE DEF Free, Awaiting, Kept, cmVars, regionVars, loopVars, readerVars, LoopInv,
                RegionInv, Encoding, InRegion, Holds, Inv
    <2>1. CASE AllEncoded
      BY <2>1 DEF AllEncoded
    <2>2. CASE StartEncode
      BY <2>2 DEF StartEncode, ResetReadPr
    <2>3. CASE AllLevelsEncoded
      BY <2>3 DEF AllLevelsEncoded
    <2>4. CASE ReadHeader
      <3>1. /\ dspPc = "header" /\ dspPc' \in {"close", "read", "finish"}
            /\ UNCHANGED <<disk, cmVars, linkVars, loopVars>>
        BY <2>4 DEF ReadHeader
      <3>2. filesize' = lengthWord
        BY <2>4, <3>1, ReadKeepsSize DEF ReadHeader
      <3> QED
        BY <3>1, <3>2
    <2>5. CASE ReadBlock
      <3>1. /\ dspPc = "read" /\ dspPc' \in {"read", "finish", "overrun"}
            /\ UNCHANGED <<disk, cmVars, linkVars, loopVars>>
        BY <2>5 DEF ReadBlock
      <3>2. filesize' = lengthWord
        BY <2>5, <3>1, ReadKeepsSize DEF ReadBlock
      <3> QED
        BY <3>1, <3>2
    <2>6. CASE AllBlocksRead
      BY <2>6 DEF AllBlocksRead
    <2>7. CASE FinishEncode
      BY <2>7 DEF FinishEncode
    <2>8. CASE NextSongToDecode
      BY <2>8 DEF NextSongToDecode
    <2>9. CASE AllDecoded
      BY <2>9 DEF AllDecoded
    <2>10. CASE DecoderReads
      <3>1. /\ dspPc = "decode" /\ dspPc' = dspPc
            /\ UNCHANGED <<disk, cmVars, linkVars, loopVars>>
        BY <2>10 DEF DecoderReads
      <3>2. filesize = lengthWord => filesize' = lengthWord
        BY <2>10, ReadKeepsSize DEF DecoderReads
      <3> QED
        BY <3>1, <3>2 DEF Loadable
    <2>11. CASE FinishDecode
      BY <2>11 DEF FinishDecode
    <2>12. CASE DecoderSeeks
      <3>1. /\ dspPc = "decode" /\ dspPc' = dspPc /\ filesize' = filesize
            /\ UNCHANGED <<disk, cmVars, linkVars, loopVars>>
        BY <2>12 DEF DecoderSeeks, Seek
      <3> QED
        BY <3>1 DEF Loadable
    <2> QED
      BY <2>1, <2>2, <2>3, <2>4, <2>5, <2>6, <2>7, <2>8, <2>9, <2>10, <2>11, <2>12
         DEF OwnSteps
  <1> QED
    BY <1>1, OwnStep DEF Inv

-------------------------------------------------------------------------------
(* The music region *)

LEMMA Step == Inv /\ [Next]_vars => Inv'
  <1> SUFFICES ASSUME Inv, [Next]_vars PROVE Inv'
    OBVIOUS
  <1>1. CASE Cm33Step
    BY <1>1, StartLoadInv, LoadStepInv, FinishLoadInv, ServeOtherInv DEF Cm33Step
  <1>2. CASE DspStep
    <2>1. \/ GetMusicFileNums \/ PrepareEncode \/ PrepareDecode \/ CloseFile
          \/ GotMusicFileNums \/ EncodePrepared \/ FileClosed \/ DecodePrepared \/ OwnSteps
      BY <1>2 DEF DspStep, OwnSteps
    <2> QED
      BY <2>1, CallsInv, CloseFileInv, GotMusicFileNumsInv, EncodePreparedInv,
         FileClosedInv, DecodePreparedInv, OwnStepsInv
  <1>3. CASE UNCHANGED vars
    BY <1>3 DEF vars, cmVars, regionVars, linkVars, dspVars, loopVars, encVars, readerVars,
       Inv, LinkInv, Awaiting, Awaited, Asked, Answered, Tells, LoadInv, Copied, LoopInv,
       RegionInv, Encoding, InRegion, Holds, Loadable, Name
  <1> QED
    BY <1>1, <1>2, <1>3 DEF Next, Spin

THEOREM InductiveInvariant == Spec => []Inv
  BY InitInv, Step, PTL DEF Spec

\* There is no lock on the music region, and none is needed: for every card the CM33
\* writes it only while the DSP waits for the answer to the request that makes it do so.
THEOREM RegionIsExclusive == Spec => []RegionExclusion
  <1>1. Inv => RegionExclusion
    BY DEF Inv, LoadInv, RegionExclusion
  <1> QED
    BY <1>1, InductiveInvariant, PTL

\* Whatever became of earlier loads and codes, an encode is over the whole WAV file of
\* its song, and a decode over the whole file of its song and level if that could be
\* loaded.
THEOREM CodecsAlwaysSeeTheirFile == Spec => []CodecsSeeTheirFile
  <1>1. Inv => CodecsSeeTheirFile
    BY DEF Inv, RegionInv, CodecsSeeTheirFile, Encoding, InRegion
  <1> QED
    BY <1>1, InductiveInvariant, PTL

-------------------------------------------------------------------------------
(* The samples of a song *)

FileByte == [gen : Nat, at : Nat]
Sample == FileByte \X FileByte
Song == Wav(fileIter)
Samples == disk[Song].samples
Channels == disk[Song].channels
Frame == Channels * disk[Song].width
TwoBytes == disk[Song].width = 2 /\ Channels \in {1, 2}

\* Under a header that is right about the length, the reader stands behind the samples
\* counted off; and if the samples have two bytes and one or two channels, what the
\* encoder was given so far is the song from its first sample up to there.
FedInv ==
    /\ DOMAIN buffer = 1..BufferBytes /\ left \in Nat
    /\ dspPc \notin {"read", "finish", "overrun"} => fed = <<>>
    /\ dspPc = "header" => sramReadAddr = 0
    /\ dspPc = "read" /\ Complete(Song) =>
          /\ channels = Channels /\ width = disk[Song].width
          /\ left <= Samples /\ sramReadAddr = HeaderBytes + (Samples - left) * Frame
    /\ dspPc \in {"read", "finish"} /\ Complete(Song) /\ TwoBytes =>
          /\ fed \in Seq(Sample)
          /\ \A i \in 1..Len(fed) : fed[i] = SampleOf(Song, i)
    /\ dspPc = "read" /\ Complete(Song) /\ TwoBytes =>
          Len(fed) = (Samples - left) * Channels

\* The song and its format
LEMMA SongOfCard ==
    ASSUME Inv, Encoding
    PROVE  /\ Song \in Names /\ Song \in Nat /\ disk[Song].size \in Nat /\ Samples \in Nat
           /\ Channels \in Nat \ {0} /\ disk[Song].width \in Nat \ {0}
           /\ Frame \in Nat \ {0}
  <1>1. Song \in Names
    BY WavIsName DEF Inv, LoopInv, Encoding, Song
  <1>2. /\ Song \in Nat /\ disk[Song].size \in Nat /\ Samples \in Nat
        /\ Channels \in Nat \ {0} /\ disk[Song].width \in Nat \ {0}
    BY <1>1, FilesOfCard DEF Inv, LoopInv, Samples, Channels
  <1>3. \A c, w \in Nat \ {0} : c * w \in Nat \ {0}
    OBVIOUS
  <1> QED
    BY <1>1, <1>2, <1>3 DEF Frame

\* Samples of a song, of f bytes or channels each: taken, of this block, and behind it
LEMMA Parts ==
    ASSUME NEW f \in Nat \ {0}, NEW samples \in Nat, NEW rest \in Nat, rest <= samples,
           NEW need \in Nat, need <= rest
    PROVE  /\ (samples - rest) * f \in Nat /\ need * f \in Nat
           /\ (samples - (rest - need)) * f = (samples - rest) * f + need * f
           /\ (samples - (rest - need)) * f <= samples * f
           /\ need * f >= need
           /\ f >= 2 => need * f >= 2 * need
  <1>2. \A n \in Nat : n * f \in Nat
    OBVIOUS
  <1>3. \A m, n \in Nat : (m + n) * f = m * f + n * f
    OBVIOUS
  <1>4. PICK before \in Nat, behind \in Nat : before = samples - rest /\ behind = rest - need
    OBVIOUS
  <1>5. samples - (rest - need) = before + need /\ samples = (before + need) + behind
    BY <1>4
  <1>6. need * f >= need /\ (f >= 2 => need * f >= 2 * need)
    OBVIOUS
  <1>7. (before + need) * f = before * f + need * f
    BY <1>3
  <1>8. before + need \in Nat
    OBVIOUS
  <1>9. samples * f = (before + need) * f + behind * f
    BY <1>3, <1>5, <1>8
  <1>10. behind * f \in Nat /\ (before + need) * f \in Nat
    BY <1>2, <1>8
  <1> QED
    BY <1>2, <1>4, <1>5, <1>6, <1>7, <1>9, <1>10

\* A read of bytes that are there moves the pointer over them.
LEMMA ReadMoves ==
    ASSUME Inv, Encoding, NEW len \in Nat,
           sramReadAddr \in Nat, sramReadAddr + len <= disk[Song].size, ReadBuf(len), ~Eof
    PROVE  /\ ReadLen(len) = len /\ sramReadAddr' = sramReadAddr + len
  <1> DEFINE size == disk[Song].size
  <1>1. size \in Nat /\ size <= Capacity /\ lengthWord = size /\ sramReadAddr + len <= size
    BY SongOfCard DEF Inv, RegionInv, Encoding, InRegion, Holds, Song
  <1> HIDE DEF size
  <1>2. Capacity \in Nat /\ Wrap \in Nat /\ Capacity + 1 < Wrap
    BY SizesAssumption
  <1>3. ReadLen(len) = len
    BY <1>1 DEF ReadLen, Minus, Tell
  <1>4. sramReadAddr' = sramReadAddr + len
    BY <1>1, <1>2, <1>3 DEF ReadBuf, Plus, Tell
  <1> QED
    BY <1>3, <1>4

\* What fits into the buffer is in place there.
LEMMA ReadOfSong ==
    ASSUME Inv, Encoding, NEW len \in Nat, len <= BufferBytes, DOMAIN buffer = 1..BufferBytes,
           sramReadAddr \in Nat, sramReadAddr + len <= disk[Song].size, ReadBuf(len), ~Eof,
           NEW i \in 1..len
    PROVE  Into(buffer, ReadBytes(len))[i] = Byte(Song, sramReadAddr + i - 1)
  <1> DEFINE size == disk[Song].size
  <1>1. /\ size \in Nat /\ size <= Capacity /\ lengthWord = size /\ sramReadAddr + len <= size
        /\ \A a \in 0..(size - 1) : sram[a] = Byte(Song, a)
    BY SongOfCard DEF Inv, RegionInv, Encoding, InRegion, Holds, Song
  <1> HIDE DEF size
  <1>2. Capacity \in Nat /\ Wrap \in Nat /\ Capacity + 1 < Wrap /\ BufferBytes \in Nat
    BY SizesAssumption, BenchAssumption DEF BufferBytes
  <1>3. ReadBytes(len) = [k \in 1..len |-> ByteAt(Plus(Tell, k - 1))]
    BY ReadMoves DEF ReadBytes
  <1>4. i \in DOMAIN buffer /\ i \in DOMAIN ReadBytes(len)
    BY <1>2, <1>3
  <1>5. Into(buffer, ReadBytes(len))[i] = ByteAt(Plus(Tell, i - 1))
    BY <1>3, <1>4 DEF Into
  <1>6. Plus(Tell, i - 1) = sramReadAddr + i - 1
    BY <1>1, <1>2 DEF Plus, Tell
  <1>7. sramReadAddr + i - 1 \in 0..(size - 1) /\ sramReadAddr + i - 1 \in Addr
    BY <1>1, <1>2 DEF Addr
  <1> QED
    BY <1>1, <1>5, <1>6, <1>7 DEF ByteAt

LEMMA IntoKeepsDomain == ASSUME NEW bytes PROVE DOMAIN Into(buffer, bytes) = DOMAIN buffer
  BY DEF Into

\* The header is the first bytes of the file, and so says what format and how many samples
\* it has.
LEMMA HeaderFed == Inv /\ FedInv /\ ReadHeader => FedInv'
  <1> SUFFICES ASSUME Inv, FedInv, ReadHeader PROVE FedInv'
    OBVIOUS
  <1>1. /\ dspPc = "header" /\ dspPc' \in {"close", "read", "finish"} /\ ReadBuf(HeaderBytes)
        /\ buffer' = Into(buffer, ReadBytes(HeaderBytes)) /\ UNCHANGED <<disk, fed, fileIter>>
        /\ \/ dspPc' = "close" /\ UNCHANGED left
           \/ /\ ~Eof /\ MayBeWave(buffer')
              /\ \E source \in HeaderOf(buffer') :
                    /\ channels' = disk[source].channels /\ width' = disk[source].width
                    /\ left' = disk[source].samples
    BY DEF ReadHeader, loopVars
  <1>2. /\ DOMAIN buffer' = 1..BufferBytes /\ left \in Nat
        /\ sramReadAddr = 0 /\ fed = <<>> /\ fed' = <<>>
    BY <1>1, IntoKeepsDomain DEF FedInv
  <1>3. CASE dspPc' = "close" /\ UNCHANGED left
    BY <1>1, <1>2, <1>3 DEF FedInv
  <1>4. ASSUME ~Eof, MayBeWave(buffer'),
               NEW source \in HeaderOf(buffer'),
               channels' = disk[source].channels, width' = disk[source].width,
               left' = disk[source].samples
        PROVE  FedInv'
    <2>1. Encoding
      BY <1>1 DEF Encoding
    <2>2. source \in Names /\ (OwnHeader(buffer') => source = buffer'[1].gen)
      BY <1>4 DEF HeaderOf, MayBeWave
    <2>3. left' \in Nat
      BY <1>4, <2>2, FilesOfCard DEF Inv, LoopInv
    <2>4. fed' \in Seq(Sample) /\ Len(fed') = 0
      BY <1>2
    <2>5. ASSUME Complete(Song)
          PROVE  source = Song /\ sramReadAddr' = HeaderBytes
      <3>1. Samples * Frame \in Nat /\ HeaderBytes \in Nat \ {0} /\ BufferBytes \in Nat
            /\ HeaderBytes <= BufferBytes
        <4>1. \A m, n \in Nat : m * n \in Nat
          OBVIOUS
        <4>2. Samples \in Nat /\ Frame \in Nat
          BY <2>1, SongOfCard
        <4> QED
          BY <4>1, <4>2, BenchAssumption DEF BufferBytes
      <3>2. HeaderBytes <= disk[Song].size
        <4>1. HeaderBytes + Samples * Frame <= disk[Song].size
          BY <2>5 DEF Complete, Samples, Frame, Channels
        <4> QED
          BY <2>1, <3>1, <4>1, SongOfCard
      <3>3. sramReadAddr' = HeaderBytes
        <4>1. sramReadAddr' = sramReadAddr + HeaderBytes
          BY <1>1, <1>2, <1>4, <2>1, <3>1, <3>2, ReadMoves
        <4> QED
          BY <1>2, <3>1, <4>1
      <3>4. \A i \in 1..HeaderBytes : buffer'[i] = Byte(Song, i - 1)
        <4>1. SUFFICES ASSUME NEW i \in 1..HeaderBytes PROVE buffer'[i] = Byte(Song, i - 1)
          OBVIOUS
        <4>2. DOMAIN buffer = 1..BufferBytes
          BY DEF FedInv
        <4>3. Into(buffer, ReadBytes(HeaderBytes))[i] = Byte(Song, sramReadAddr + i - 1)
          BY <1>1, <1>2, <1>4, <2>1, <3>1, <3>2, <4>2, ReadOfSong
        <4> QED
          BY <1>1, <1>2, <3>1, <4>3
      <3>5. buffer'[1].gen = Song
        <4>1. 1 \in 1..HeaderBytes
          BY <3>1
        <4>2. buffer'[1] = Byte(Song, 1 - 1)
          BY <3>4, <4>1
        <4> QED
          BY <4>2 DEF Byte
      <3> QED
        BY <2>2, <3>3, <3>4, <3>5 DEF OwnHeader
    <2>6. /\ Song' = Song /\ Samples' = Samples /\ Complete(Song)' = Complete(Song)
          /\ Channels' = Channels /\ Frame' = Frame /\ TwoBytes' = TwoBytes
          /\ (disk[Song].width)' = disk[Song].width
      BY <1>1 DEF Song, Samples, Complete, Channels, Frame, TwoBytes
    <2>7. /\ Samples \in Nat /\ (Samples - Samples) * Frame = 0
          /\ (Samples - Samples) * Channels = 0
      <3>1. Samples \in Nat /\ Frame \in Nat /\ Channels \in Nat
        BY <2>1, SongOfCard
      <3>2. Samples - Samples = 0 /\ 0 * Frame = 0 /\ 0 * Channels = 0
        BY <3>1
      <3> QED
        BY <3>1, <3>2
    <2>8. HeaderBytes + 0 = HeaderBytes
      BY BenchAssumption
    <2>9. Complete(Song) => left' = Samples /\ channels' = Channels
                            /\ width' = disk[Song].width
      BY <1>4, <2>5 DEF Samples, Channels
    <2> QED
      BY <1>1, <1>2, <2>3, <2>4, <2>5, <2>6, <2>7, <2>8, <2>9 DEF FedInv
  <1> QED
    BY <1>1, <1>3, <1>4

\* The samples of a block that is in the buffer, each of its own two bytes
BlockIn(b, n, song, fedSoFar) ==
    /\ DOMAIN b = 1..BufferBytes /\ 2 * n <= BufferBytes
    /\ \A i \in 1..(2 * n) : b[i] = Byte(song, HeaderBytes + 2 * fedSoFar + i - 1)
LEMMA BlockSamplesAre ==
    ASSUME NEW b, NEW n \in Nat, NEW song \in Nat, NEW fedSoFar \in Nat,
           BlockIn(b, n, song, fedSoFar)
    PROVE  /\ Pcm(b, n) \in Seq(Sample) /\ Len(Pcm(b, n)) = n
           /\ \A i \in 1..n : Pcm(b, n)[i] = SampleOf(song, fedSoFar + i)
  <1> DEFINE from == HeaderBytes + 2 * fedSoFar
  <1>0. /\ DOMAIN b = 1..BufferBytes /\ 2 * n <= BufferBytes
        /\ \A i \in 1..(2 * n) : b[i] = Byte(song, from + i - 1)
    BY DEF BlockIn
  <1>1. BufferBytes \in Nat /\ HeaderBytes \in Nat
    BY BenchAssumption DEF BufferBytes
  <1>2. ASSUME NEW i \in 1..n
        PROVE  /\ Pcm(b, n)[i] = SampleOf(song, fedSoFar + i) /\ Pcm(b, n)[i] \in Sample
    <2>1. 2 * i - 1 \in 1..(2 * n) /\ 2 * i \in 1..(2 * n)
      OBVIOUS
    <2>2. 2 * i - 1 \in DOMAIN b /\ 2 * i \in DOMAIN b
      BY <1>0, <1>1, <2>1
    <2>3. Pcm(b, n)[i] = <<b[2 * i - 1], b[2 * i]>>
      BY <2>2 DEF Pcm, InBuffer
    <2>4. /\ from + (2 * i - 1) - 1 = HeaderBytes + 2 * (fedSoFar + i) - 2
          /\ from + 2 * i - 1 = HeaderBytes + 2 * (fedSoFar + i) - 1
      BY <1>1
    <2>5. /\ b[2 * i - 1] = Byte(song, HeaderBytes + 2 * (fedSoFar + i) - 2)
          /\ b[2 * i] = Byte(song, HeaderBytes + 2 * (fedSoFar + i) - 1)
      BY <1>0, <2>1, <2>4
    <2>6. /\ HeaderBytes + 2 * (fedSoFar + i) - 2 \in Nat
          /\ HeaderBytes + 2 * (fedSoFar + i) - 1 \in Nat
      BY <1>1
    <2>7. \A a \in Nat : Byte(song, a) \in FileByte
      BY DEF Byte, FileByte
    <2>8. b[2 * i - 1] \in FileByte /\ b[2 * i] \in FileByte
      BY <2>5, <2>6, <2>7
    <2> QED
      BY <2>3, <2>5, <2>8 DEF SampleOf, Sample
  <1>3. Pcm(b, n) \in [1..n -> Sample]
    BY <1>2 DEF Pcm
  <1>4. Len(Pcm(b, n)) = n
    <2>1. DOMAIN Pcm(b, n) = 1..n
      BY DEF Pcm
    <2>2. Pcm(b, n) \in Seq(Sample)
      BY <1>3
    <2> QED
      BY <2>1, <2>2, LenProperties
  <1> QED
    BY <1>2, <1>3, <1>4

\* A block of the song; and no read of it is taken for one at the end when a sample of all
\* channels has two bytes.
LEMMA BlockFed ==
    Inv /\ FedInv /\ ReadBlock => FedInv' /\ (Frame >= 2 /\ Complete(Song) => ~Eof)
  <1> SUFFICES ASSUME Inv, FedInv, ReadBlock
               PROVE  FedInv' /\ (Frame >= 2 /\ Complete(Song) => ~Eof)
    OBVIOUS
  <1> DEFINE need == IF left > BlockSamples THEN BlockSamples ELSE left
             n == need * FrameBytes
             block == Pcm(buffer', need * channels)
  <1>1. /\ dspPc = "read" /\ dspPc' \in {"read", "finish", "overrun"} /\ left > 0 /\ ReadBuf(n)
        /\ buffer' = Into(buffer, ReadBytes(n)) /\ left' = left - need
        /\ UNCHANGED <<disk, fileIter, channels, width>>
        /\ IF Eof THEN dspPc' = "finish" /\ UNCHANGED fed ELSE fed' = fed \o block
    BY DEF ReadBlock, loopVars
  <1>2. /\ left \in Nat /\ need \in Nat \ {0} /\ need <= left /\ need <= BlockSamples
    <2>1. left \in Nat /\ BlockSamples \in Nat \ {0}
      BY BenchAssumption DEF FedInv
    <2> QED
      BY <1>1, <2>1
  <1>3. DOMAIN buffer = 1..BufferBytes /\ DOMAIN buffer' = 1..BufferBytes /\ left' \in Nat
    BY <1>1, <1>2, IntoKeepsDomain DEF FedInv
  <1>4. Encoding
    BY <1>1 DEF Encoding
  <1>5. /\ Song' = Song /\ Samples' = Samples /\ Complete(Song)' = Complete(Song)
        /\ Channels' = Channels /\ Frame' = Frame /\ TwoBytes' = TwoBytes
        /\ (disk[Song].width)' = disk[Song].width
    BY <1>1 DEF Song, Samples, Complete, Channels, Frame, TwoBytes
  <1> HIDE DEF need
  <1>6. CASE ~Complete(Song)
    BY <1>1, <1>3, <1>5, <1>6 DEF FedInv
  <1>7. CASE Complete(Song)
    <2>1. /\ channels = Channels /\ width = disk[Song].width /\ left <= Samples
          /\ sramReadAddr = HeaderBytes + (Samples - left) * Frame
          /\ FrameBytes = Frame
      BY <1>1, <1>7 DEF FedInv, FrameBytes, Frame
    <2>2. /\ Samples \in Nat /\ disk[Song].size \in Nat /\ Song \in Nat
          /\ Channels \in Nat \ {0} /\ Frame \in Nat \ {0}
      BY <1>4, SongOfCard
    <2> DEFINE before == (Samples - left) * Frame
               after == (Samples - (left - need)) * Frame
               total == Samples * Frame
    <2>3. /\ before \in Nat /\ n \in Nat /\ after = before + n /\ after <= total
          /\ n >= need /\ (Frame >= 2 => n >= 2 * need)
      BY <1>2, <2>1, <2>2, Parts
    <2>4. HeaderBytes + total <= disk[Song].size /\ total \in Nat /\ HeaderBytes \in Nat \ {0}
      <3>1. \A m, k \in Nat : m * k \in Nat
        OBVIOUS
      <3> QED
        BY <1>7, <2>2, <3>1, BenchAssumption DEF Complete, Samples, Frame, Channels
    <2>5. sramReadAddr = HeaderBytes + before /\ left' = left - need
      BY <1>1, <2>1
    <2> HIDE DEF n, total, before
    <2>6. sramReadAddr \in Nat /\ sramReadAddr + n <= disk[Song].size
      <3>1. after \in Nat
        BY <2>3
      <3> HIDE DEF after
      <3> QED
        BY <2>2, <2>3, <2>4, <2>5, <3>1
    <2>7. ASSUME Frame >= 2 PROVE ~Eof
      <3>1. filesize = disk[Song].size /\ disk[Song].size <= Capacity
        BY <1>1 DEF Inv, RegionInv, Encoding, InRegion, Holds, Song
      <3>2. sramReadAddr + 2 <= disk[Song].size
        <4>1. n >= 2
          BY <1>2, <2>3, <2>7
        <4> QED
          BY <2>2, <2>3, <2>6, <4>1
      <3> QED
        BY <2>2, <2>6, <3>1, <3>2, SizesAssumption DEF Eof, Plus, Tell
    <2>8. CASE Eof
      <3>1. dspPc' = "finish" /\ fed' = fed
        BY <1>1, <2>8
      <3>2. FedInv'
        BY <1>1, <1>3, <1>5, <3>1 DEF FedInv
      <3> QED
        BY <2>7, <2>8, <3>2
    <2>9. CASE ~Eof
      <3>1. left' <= Samples /\ sramReadAddr' = HeaderBytes + (Samples - left') * Frame
        <4>1. sramReadAddr' = sramReadAddr + n
          BY <1>1, <1>4, <2>3, <2>6, <2>9, ReadMoves
        <4>2. (Samples - left') * Frame = before + n
          BY <2>3, <2>5
        <4>3. sramReadAddr' = HeaderBytes + (before + n)
          BY <2>3, <2>4, <2>5, <4>1
        <4> QED
          BY <1>1, <1>2, <2>1, <2>2, <4>2, <4>3
      <3>2. ASSUME TwoBytes
            PROVE  /\ fed' \in Seq(Sample)
                   /\ \A i \in 1..Len(fed') : fed'[i] = SampleOf(Song, i)
                   /\ dspPc' = "read" => Len(fed') = (Samples - left') * Channels
        <4> DEFINE m == need * channels
        <4>1. /\ fed \in Seq(Sample) /\ \A i \in 1..Len(fed) : fed[i] = SampleOf(Song, i)
              /\ Len(fed) = (Samples - left) * Channels
          BY <1>1, <1>7, <3>2 DEF FedInv
        <4>2. /\ Len(fed) \in Nat /\ m \in Nat
              /\ (Samples - (left - need)) * Channels = Len(fed) + m
          BY <1>2, <2>1, <2>2, <4>1, Parts
        <4>3. /\ n = 2 * m /\ before = 2 * Len(fed) /\ 2 * m <= BufferBytes
          <5>1. BlockSamples \in Nat
            BY BenchAssumption
          <5>2. PICK k \in Nat : k = Samples - left
            BY <1>2, <2>1, <2>2
          <5>3. CASE Channels = 1
            <6>1. Frame = 2 /\ channels = 1
              BY <2>1, <3>2, <5>3 DEF Frame, TwoBytes
            <6> QED
              BY <1>2, <2>1, <4>1, <5>1, <5>2, <5>3, <6>1 DEF n, before, BufferBytes
          <5>4. CASE Channels = 2
            <6>1. Frame = 4 /\ channels = 2
              BY <2>1, <3>2, <5>4 DEF Frame, TwoBytes
            <6> QED
              BY <1>2, <2>1, <4>1, <5>1, <5>2, <5>4, <6>1 DEF n, before, BufferBytes
          <5> QED
            BY <3>2, <5>3, <5>4 DEF TwoBytes
        <4> HIDE DEF m
        <4>4. \A i \in 1..(2 * m) : buffer'[i] = Byte(Song, sramReadAddr + i - 1)
          <5>1. SUFFICES ASSUME NEW i \in 1..n
                         PROVE  buffer'[i] = Byte(Song, sramReadAddr + i - 1)
            BY <4>3
          <5>2. n <= BufferBytes
            BY <4>3
          <5> QED
            BY <1>1, <1>3, <1>4, <2>3, <2>6, <2>9, <5>2, ReadOfSong
        <4>5. /\ block \in Seq(Sample) /\ Len(block) = m
              /\ \A i \in 1..m : block[i] = SampleOf(Song, Len(fed) + i)
          <5>1. sramReadAddr = HeaderBytes + 2 * Len(fed)
            BY <2>5, <4>3
          <5>2. PICK fedSoFar \in Nat : fedSoFar = Len(fed)
            BY <4>2
          <5>3. BlockIn(buffer', m, Song, fedSoFar)
            <6>1. \A i \in 1..(2 * m) :
                     buffer'[i] = Byte(Song, HeaderBytes + 2 * fedSoFar + i - 1)
              BY <4>4, <5>1, <5>2
            <6> QED
              BY <1>3, <4>3, <6>1 DEF BlockIn
          <5>4. /\ Pcm(buffer', m) \in Seq(Sample) /\ Len(Pcm(buffer', m)) = m
                /\ \A i \in 1..m : Pcm(buffer', m)[i] = SampleOf(Song, fedSoFar + i)
            <6> HIDE DEF block, after
            <6>1. m \in Nat /\ Song \in Nat /\ fedSoFar \in Nat
              BY <2>2, <4>2
            <6>2. Pcm(buffer', m) \in Seq(Sample)
              BY <5>3, <6>1, BlockSamplesAre
            <6>3. Len(Pcm(buffer', m)) = m
              BY <5>3, <6>1, BlockSamplesAre
            <6>4. \A i \in 1..m : Pcm(buffer', m)[i] = SampleOf(Song, fedSoFar + i)
              BY <5>3, <6>1, BlockSamplesAre
            <6> QED
              BY <6>2, <6>3, <6>4
          <5>5. block = Pcm(buffer', m)
            BY DEF m
          <5> HIDE DEF block
          <5> QED
            BY <5>2, <5>4, <5>5
        <4> HIDE DEF block
        <4>6. /\ fed' \in Seq(Sample) /\ Len(fed') = Len(fed) + m
              /\ \A i \in 1..(Len(fed) + m) :
                    fed'[i] = IF i <= Len(fed) THEN fed[i] ELSE block[i - Len(fed)]
          <5>1. fed' = fed \o block
            BY <1>1, <2>9
          <5>2. /\ fed \o block \in Seq(Sample) /\ Len(fed \o block) = Len(fed) + Len(block)
                /\ \A i \in 1..(Len(fed) + Len(block)) :
                      (fed \o block)[i] = IF i <= Len(fed) THEN fed[i]
                                          ELSE block[i - Len(fed)]
            BY <4>1, <4>5, ConcatProperties, Zenon
          <5> QED
            BY <4>5, <5>1, <5>2, Zenon
        <4>7. ASSUME NEW i \in 1..Len(fed') PROVE fed'[i] = SampleOf(Song, i)
          <5>1. CASE i <= Len(fed)
            BY <4>1, <4>2, <4>6, <5>1
          <5>2. CASE ~(i <= Len(fed))
            <6>1. i - Len(fed) \in 1..m /\ Len(fed) + (i - Len(fed)) = i
                  /\ fed'[i] = block[i - Len(fed)]
              BY <4>2, <4>6, <5>2
            <6> QED
              BY <4>5, <6>1
          <5> QED
            BY <5>1, <5>2
        <4>8. Len(fed') = (Samples - left') * Channels
          BY <2>5, <4>2, <4>6
        <4> QED
          BY <4>6, <4>7, <4>8
      <3>3. /\ fed' = fed' /\ channels' = Channels /\ width' = disk[Song].width
        BY <1>1, <2>1
      <3>4. ~(dspPc' \notin {"read", "finish", "overrun"}) /\ dspPc' # "header"
        BY <1>1
      <3>5. FedInv'
        BY <1>3, <1>5, <3>1, <3>2, <3>3, <3>4 DEF FedInv
      <3> QED
        BY <2>9, <3>5
    <2> QED
      BY <2>8, <2>9
  <1> QED
    BY <1>6, <1>7

LEMMA FedInit == Init => FedInv
  BY DEF Init, FedInv

LEMMA FedStep == Inv /\ FedInv /\ [Next]_vars => FedInv'
  <1> SUFFICES ASSUME Inv, FedInv, [Next]_vars PROVE FedInv'
    OBVIOUS
  <1>1. CASE UNCHANGED <<disk, dspPc, fileIter, encVars, sramReadAddr>>
    BY <1>1 DEF FedInv, Song, Samples, Complete, Channels, Frame, TwoBytes, encVars
  <1>2. CASE /\ UNCHANGED <<buffer, fed>> /\ left' \in Nat
             /\ dspPc \notin {"read", "finish", "overrun"}
             /\ dspPc' \notin {"header", "read", "finish", "overrun"}
    BY <1>2 DEF FedInv
  <1>3. CASE Cm33Step
    BY <1>1, <1>3 DEF Cm33Step, StartLoad, LoadStep, FinishLoad, ServeOther, dspVars, loopVars,
       encVars, readerVars
  <1>4. CASE DspStep
    <2>1. CASE GetMusicFileNums \/ PrepareEncode \/ PrepareDecode \/ CloseFile
      <3>1. left \in Nat
        BY DEF FedInv
      <3> QED
        BY <1>2, <2>1, <3>1 DEF GetMusicFileNums, PrepareEncode, PrepareDecode, CloseFile,
           CallLink, encVars
    <2>2. CASE GotMusicFileNums \/ EncodePrepared \/ FileClosed \/ DecodePrepared
      <3>1. left \in Nat
        BY DEF FedInv
      <3> QED
        BY <1>2, <2>2, <3>1 DEF GotMusicFileNums, EncodePrepared, FileClosed, DecodePrepared,
           encVars
    <2>3. CASE AllEncoded \/ AllLevelsEncoded \/ NextSongToDecode \/ AllDecoded
               \/ DecoderReads \/ DecoderSeeks \/ FinishDecode
      <3>1. left \in Nat
        BY DEF FedInv
      <3> QED
        BY <1>2, <2>3, <3>1 DEF AllEncoded, AllLevelsEncoded, NextSongToDecode, AllDecoded,
           DecoderReads, DecoderSeeks, FinishDecode, encVars
    <2>4. CASE StartEncode
      BY <2>4 DEF StartEncode, ResetReadPr, FedInv, encVars
    <2>5. CASE ReadHeader
      BY <2>5, HeaderFed
    <2>6. CASE ReadBlock
      BY <2>6, BlockFed
    <2>7. CASE AllBlocksRead
      BY <2>7 DEF AllBlocksRead, FedInv, loopVars, encVars, Song, Samples, Complete, Channels,
         Frame, TwoBytes
    <2>8. CASE FinishEncode
      BY <2>8 DEF FinishEncode, FedInv
    <2> QED
      BY <1>4, <2>1, <2>2, <2>3, <2>4, <2>5, <2>6, <2>7, <2>8 DEF DspStep
  <1>5. CASE UNCHANGED vars
    BY <1>1, <1>5 DEF vars, dspVars, loopVars, encVars, readerVars
  <1> QED
    BY <1>3, <1>4, <1>5 DEF Next, Spin

THEOREM SongIsFed == Spec => [](Inv /\ FedInv)
  BY InitInv, FedInit, Step, FedStep, PTL DEF Spec

\* When the header is right about the length and says two bytes a sample in one or two
\* channels, the encoder gets the samples of the file, each put together of its own two
\* bytes, in order, without a gap, and as many as were counted off.
THEOREM EncoderIsFedTheSong == Spec => []EncoderFedTheSong
  <1>1. Inv /\ FedInv => EncoderFedTheSong
    <2> SUFFICES ASSUME Inv, FedInv, Encoding, Complete(Song), TwoBytes
                 PROVE  /\ \A i \in 1..Len(fed) : fed[i] = SampleOf(Song, i)
                        /\ dspPc = "read" => Len(fed) = (Samples - left) * Channels
      BY DEF EncoderFedTheSong, Song, Samples, Channels, TwoBytes
    <2>1. CASE dspPc = "header"
      BY <2>1 DEF FedInv
    <2>2. CASE dspPc \in {"read", "finish"}
      BY <2>2 DEF FedInv
    <2> QED
      BY <2>1, <2>2 DEF Encoding
  <1> QED
    BY <1>1, SongIsFed, PTL

\* With at least two bytes a sample of all channels, whatever the format, the end of file
\* that is reported one byte early never cuts a song.
THEOREM NoSongIsCut == Spec => NoReadError
  <1>1. Inv /\ FedInv /\ [Next]_vars =>
          [LET wav == Wav(fileIter) IN
           ReadBlock /\ Complete(wav) /\ disk[wav].channels * disk[wav].width >= 2
               => ~Eof]_vars
    BY BlockFed DEF Song, Frame, Channels
  <1> QED
    BY <1>1, SongIsFed, PTL DEF Spec, NoReadError
===============================================================================
