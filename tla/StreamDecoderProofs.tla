-------------------------- MODULE StreamDecoderProofs --------------------------
(***************************************************************************)
(* The stream decoder for every stream, every file it became, and every    *)
(* size of words and buffer: frames are written in their places, and the   *)
(* gaps between them are filled up to the limits of the repair; the reader *)
(* keeps its place in the file over refills, rewinds and seeks; the search *)
(* for a sync goes on behind a bad frame; and damage stays where it is.    *)
(***************************************************************************)
EXTENDS StreamDecoder, TLAPS, SequenceTheorems

-------------------------------------------------------------------------------
(* The least of two and of three numbers *)

LEMMA LeastOfTwo ==
    ASSUME NEW a \in Nat, NEW b \in Nat
    PROVE  /\ Min({a, b}) \in Nat /\ Min({a, b}) <= a /\ Min({a, b}) <= b
           /\ Min({a, b}) = IF a <= b THEN a ELSE b
  <1>1. ASSUME NEW x \in {a, b}, \A y \in {a, b} : x <= y PROVE Min({a, b}) = x
    <2>1. \A z \in {a, b} : (\A y \in {a, b} : z <= y) => z = x
      BY <1>1
    <2> QED
      BY <1>1, <2>1 DEF Min
  <1>2. CASE a <= b
    BY <1>1, <1>2
  <1>3. CASE ~(a <= b)
    BY <1>1, <1>3
  <1> QED
    BY <1>2, <1>3

LEMMA LeastOfThree ==
    ASSUME NEW a \in Nat, NEW b \in Nat, NEW c \in Nat
    PROVE  Min({a, b, c}) = Min({a, Min({b, c})}) /\ Min({a, b, c}) \in Nat
  <1>1. ASSUME NEW x \in {a, b, c}, \A y \in {a, b, c} : x <= y
        PROVE  Min({a, b, c}) = x
    <2>1. \A z \in {a, b, c} : (\A y \in {a, b, c} : z <= y) => z = x
      BY <1>1
    <2> QED
      BY <1>1, <2>1 DEF Min
  <1> DEFINE m == Min({b, c})
             n == Min({a, m})
  <1>2. m \in Nat /\ m <= b /\ m <= c /\ (m = b \/ m = c)
    BY LeastOfTwo
  <1> HIDE DEF m
  <1>3. n \in Nat /\ n <= a /\ n <= m /\ (n = a \/ n = m)
    BY <1>2, LeastOfTwo
  <1> HIDE DEF n
  <1>4. n \in {a, b, c} /\ \A y \in {a, b, c} : n <= y
    BY <1>2, <1>3
  <1> QED
    BY <1>1, <1>3, <1>4 DEF n, m

-------------------------------------------------------------------------------
(* Frames in their places *)

Early == {"marker", "marker2", "metadata", "skip"}

\* What a frame may be: located where STREAMINFO says, when there is one
Placed(f) ==
    /\ f \in FrameRead
    /\ f # NoFrame => f.of \in 1..Len(Frames) /\ f.size > 0
    /\ has_stream_info /\ f.of # Silence =>
          f.at = BlockSize * (f.of - 1) /\ f.next \in {0, BlockSize}

\* What is missing between a frame that was written and the one that was read, as far as
\* it is to be filled
Wanted(w) ==
    IF End(w) < frame.at /\ w.size >= MinRepairSize
    THEN Min({frame.at - End(w), MaxRepairSamples, MaxRepairFrames * w.size})
    ELSE 0

\* The frames written behind w, without a gap and all of them silence
Filling(i) ==
    /\ written[i].of # Silence /\ Silent(i, Len(written) + 1)
    /\ \A k \in i..(Len(written) - 1) : written[k + 1].at = End(written[k])

\* The frame written last is the last of the history, as long as that is kept.
HistoryInv ==
    IF written = <<>> THEN last_frame = NoFrame
    ELSE LET w == written[Len(written)] IN
         last_frame.of = w.of /\ last_frame.at = w.at /\ last_frame.size = w.size

\* The gap is what is still missing.
GapInv ==
    /\ pc \notin {"gap", "returned"} /\ written # <<>> =>
          written[Len(written)].of # Silence
    /\ pc = "gap" =>
          IF written = <<>> THEN gap = 0
          ELSE \E i \in 1..Len(written) :
                  /\ Filling(i)
                  /\ gap + End(written[Len(written)]) - End(written[i]) = Wanted(written[i])

\* Two frames that were written with silence between them, and how it fills their gap
Neighbours(i, j) ==
    /\ i < j /\ written[i].of # Silence /\ written[j].of # Silence /\ Silent(i, j)
    /\ End(written[i]) < written[j].at
GapFilled(i, j) ==
    LET gap_ == written[j].at - End(written[i])
        most == IF written[i].size < MinRepairSize THEN 0
                ELSE Min({MaxRepairSamples, MaxRepairFrames * written[i].size})
    IN End(written[j - 1]) - End(written[i]) = Min({gap_, most})
Contiguous(i, j) == \A k \in i..(j - 2) : written[k + 1].at = End(written[k])

WrittenInv ==
    /\ has_stream_info =>
          \A i \in 1..Len(written) :
              written[i].of # Silence => written[i].at = BlockSize * (written[i].of - 1)
    /\ \A i, j \in 1..Len(written) :
          Neighbours(i, j) => GapFilled(i, j) /\ Contiguous(i, j)

PlacesInv ==
    /\ input \in Inputs
    /\ has_stream_info \in BOOLEAN /\ fixed_block_size \in Nat
    /\ gap \in Nat /\ zeroed \in Nat /\ written \in Seq(WrittenFrame)
    /\ last_frame \in FrameRead /\ Placed(frame)
    /\ pc \in Early => /\ written = <<>> /\ last_frame = NoFrame /\ frame = NoFrame
                       /\ fixed_block_size = 0
    /\ pc \in {"body", "crc16", "gap"} => frame # NoFrame
    /\ has_stream_info => fixed_block_size \in {0, BlockSize}
    /\ last_frame # NoFrame => last_frame.size > 0
    /\ pc = "gap" /\ gap > 0 => last_frame # NoFrame
    /\ Len(written) < MaxWritten => HistoryInv /\ GapInv
    /\ WrittenInv

-------------------------------------------------------------------------------
(* Steps that write nothing *)

Untouched == UNCHANGED <<input, fixed_block_size, last_frame, written>>

LEMMA PlacesStay ==
    ASSUME UNCHANGED <<input, written, has_stream_info>>, WrittenInv
    PROVE  WrittenInv'
  <1>1. UNCHANGED <<input, written, has_stream_info>>
    OBVIOUS
  <1>2. ASSUME NEW i \in 1..Len(written), NEW j \in 1..Len(written)
        PROVE  (Neighbours(i, j) => GapFilled(i, j) /\ Contiguous(i, j))'
    <2>1. Neighbours(i, j)' => Neighbours(i, j)
      BY <1>1 DEF Neighbours, Silent, End
    <2>2. GapFilled(i, j) => GapFilled(i, j)'
      BY <1>1 DEF GapFilled, End
    <2>3. Contiguous(i, j) => Contiguous(i, j)'
      BY <1>1 DEF Contiguous, End
    <2> QED
      BY <2>1, <2>2, <2>3 DEF WrittenInv
  <1>3. BlockSize' = BlockSize
    BY <1>1 DEF BlockSize, Frames
  <1> QED
    BY <1>1, <1>2, <1>3 DEF WrittenInv

LEMMA HistoryStays ==
    ASSUME Untouched, UNCHANGED <<frame, gap>>, HistoryInv, GapInv,
           pc' = "gap" => pc = "gap", pc \in {"gap", "returned"} => pc' \in {"gap", "returned"}
    PROVE  HistoryInv' /\ GapInv'
  <1>1. HistoryInv'
    BY DEF Untouched, HistoryInv
  <1>2. GapInv'
    BY DEF Untouched, GapInv, Filling, Wanted, End, Silent
  <1> QED
    BY <1>1, <1>2

LEMMA QuietStep ==
    ASSUME PlacesInv, UNCHANGED <<input, has_stream_info, frameVars>>,
           pc' \in Early => pc \in Early,
           pc' \in {"body", "crc16"} => pc \in {"body", "crc16"},
           pc' = "gap" => pc = "gap",
           pc \in {"gap", "returned"} => pc' \in {"gap", "returned"}
    PROVE  PlacesInv'
  <1>1. Untouched /\ UNCHANGED <<has_stream_info, frame, gap, zeroed>>
    BY DEF Untouched, frameVars
  <1>2. Placed(frame)'
    BY <1>1 DEF PlacesInv, Placed, Untouched, FrameRead, Frames, BlockSize
  <1>3. WrittenInv'
    BY <1>1, PlacesStay DEF PlacesInv, Untouched
  <1>4. Len(written) < MaxWritten => HistoryInv' /\ GapInv'
    BY <1>1, HistoryStays DEF PlacesInv
  <1>5. /\ WrittenFrame' = WrittenFrame /\ FrameRead' = FrameRead
        /\ BlockSize' = BlockSize
    BY <1>1 DEF Untouched, WrittenFrame, FrameRead, Frames, BlockSize
  <1>6. /\ gap' \in Nat /\ zeroed' \in Nat /\ written' \in Seq(WrittenFrame')
        /\ last_frame' \in FrameRead' /\ input' \in Inputs
        /\ has_stream_info' \in BOOLEAN /\ fixed_block_size' \in Nat
    BY <1>1, <1>5 DEF PlacesInv, Untouched
  <1>7. /\ pc' \in Early => /\ written' = <<>> /\ last_frame' = NoFrame
                            /\ frame' = NoFrame /\ fixed_block_size' = 0
        /\ pc' \in {"body", "crc16", "gap"} => frame' # NoFrame
        /\ has_stream_info' => fixed_block_size' \in {0, BlockSize'}
        /\ last_frame' # NoFrame => last_frame'.size > 0
        /\ pc' = "gap" /\ gap' > 0 => last_frame' # NoFrame
    BY <1>1, <1>5 DEF PlacesInv, Untouched
  <1> QED
    BY <1>1, <1>2, <1>3, <1>4, <1>6, <1>7 DEF PlacesInv, Untouched

LEMMA PlacesInit ==
    ASSUME Init
    PROVE  PlacesInv
  <1>1. /\ input \in Inputs /\ has_stream_info = FALSE /\ fixed_block_size = 0
        /\ gap = 0 /\ zeroed = 0 /\ written = <<>> /\ frame = NoFrame
        /\ last_frame = NoFrame /\ pc = "marker"
    BY DEF Init
  <1>2. Len(Frames) \in Nat
    BY <1>1, InputsAssumption DEF Frames
  <1>3. NoFrame \in FrameRead /\ NoFrame.of = Silence
    BY <1>2 DEF NoFrame, FrameRead, Silence
  <1>4. Placed(frame)
    BY <1>1, <1>3 DEF Placed
  <1>5. WrittenInv
    BY <1>1 DEF WrittenInv
  <1>6. HistoryInv /\ GapInv
    BY <1>1 DEF HistoryInv, GapInv
  <1>7. gap \in Nat /\ zeroed \in Nat /\ fixed_block_size \in Nat
        /\ written \in Seq(WrittenFrame)
    BY <1>1
  <1> QED
    BY <1>1, <1>3, <1>4, <1>5, <1>6, <1>7 DEF PlacesInv

\* STREAMINFO comes before any frame.
LEMMA MetadataStep ==
    ASSUME PlacesInv, ReadMetadata
    PROVE  PlacesInv'
  <1>1. /\ pc = "metadata" /\ UNCHANGED <<input, frameVars>>
        /\ pc' \in {"sync", "metadata", "skip"}
        /\ has_stream_info' \in BOOLEAN
    BY DEF ReadMetadata, AfterBlock, fileVars, PlacesInv
  <1>2. Untouched /\ UNCHANGED <<frame, gap, zeroed>>
    BY <1>1 DEF Untouched, frameVars
  <1>3. /\ written = <<>> /\ last_frame = NoFrame /\ frame = NoFrame
        /\ fixed_block_size = 0
    BY <1>1 DEF PlacesInv, Early
  <1>4. WrittenFrame' = WrittenFrame /\ FrameRead' = FrameRead
    BY <1>1 DEF WrittenFrame, FrameRead, Frames
  <1>5. Placed(frame)'
    BY <1>2, <1>3, <1>4 DEF PlacesInv, Placed, NoFrame, Silence
  <1>6. WrittenInv'
    BY <1>2, <1>3 DEF WrittenInv, Untouched
  <1>7. HistoryInv' /\ GapInv'
    BY <1>1, <1>2, <1>3 DEF HistoryInv, GapInv, Untouched
  <1>8. /\ gap' \in Nat /\ zeroed' \in Nat /\ written' \in Seq(WrittenFrame')
        /\ last_frame' \in FrameRead' /\ input' \in Inputs
        /\ fixed_block_size' = 0
    BY <1>2, <1>3, <1>4 DEF PlacesInv, Untouched
  <1> QED
    BY <1>1, <1>2, <1>3, <1>5, <1>6, <1>7, <1>8 DEF PlacesInv, Untouched

LEMMA FramesAreSome ==
    ASSUME PlacesInv
    PROVE  /\ Len(Frames) \in Nat /\ \A f \in 1..Len(Frames) : Frames[f].size \in Nat \ {0}
           /\ Len(Frames) > 0 => BlockSize \in Nat \ {0}
  <1> DEFINE AnyByte == [is : STRING, of : Nat, at : Nat]
             Some == [size : Nat \ {0}, body : Seq(AnyByte) \ {<<>>}, hints : 0..MaxExtraBody,
                      verbatim : BOOLEAN, future : BOOLEAN]
  <1>1. Frames \in Seq(Some)
    BY InputsAssumption DEF PlacesInv, Frames
  <1>2. \A f \in Some : f.size \in Nat \ {0}
    OBVIOUS
  <1> HIDE DEF Some
  <1>3. /\ Len(Frames) \in Nat /\ \A f \in 1..Len(Frames) : Frames[f] \in Some
        /\ Len(Frames) > 0 => 1 \in 1..Len(Frames)
    BY <1>1
  <1> QED
    BY <1>2, <1>3 DEF BlockSize

LEMMA LocatedIsPlaced ==
    ASSUME PlacesInv, NEW f \in 1..Len(Frames)
    PROVE  Placed(Located(f)) /\ Located(f).of = f
  <1> DEFINE size == Frames[f].size
             number == f - 1
             at(n, next) == [of |-> f, at |-> n * number, size |-> size, next |-> next]
  <1>1. size \in Nat \ {0} /\ BlockSize \in Nat \ {0} /\ number \in Nat /\ Len(Frames) \in Nat
    BY FramesAreSome
  <1>2. ASSUME NEW n \in Nat, NEW next \in Nat
        PROVE  /\ at(n, next) \in FrameRead /\ at(n, next) # NoFrame
               /\ at(n, next).of = f /\ at(n, next).size > 0
    <2>1. n * number \in Nat
      BY <1>1
    <2>2. f \in 0..Len(Frames)
      BY <1>1
    <2> HIDE DEF number, size
    <2> QED
      BY <1>1, <2>1, <2>2 DEF FrameRead, NoFrame
  <1>3. fixed_block_size \in Nat
    BY DEF PlacesInv
  <1>4. CASE fixed_block_size # 0
    <2>1. Located(f) = at(fixed_block_size, 0)
      BY <1>4 DEF Located
    <2>2. has_stream_info => fixed_block_size = BlockSize
      BY <1>4 DEF PlacesInv
    <2>3. at(fixed_block_size, 0).at = fixed_block_size * number
          /\ at(fixed_block_size, 0).next = 0
      OBVIOUS
    <2>4. at(fixed_block_size, 0) \in FrameRead /\ at(fixed_block_size, 0).of = f
          /\ at(fixed_block_size, 0).size > 0
      BY <1>2, <1>3
    <2> HIDE DEF number, size, at
    <2> QED
      BY <2>1, <2>2, <2>3, <2>4 DEF Placed, number
  <1>5. CASE fixed_block_size = 0 /\ has_stream_info
    <2>1. Located(f) = at(BlockSize, BlockSize)
      BY <1>5 DEF Located
    <2>2. at(BlockSize, BlockSize).at = BlockSize * number
          /\ at(BlockSize, BlockSize).next = BlockSize
      OBVIOUS
    <2>3. at(BlockSize, BlockSize) \in FrameRead /\ at(BlockSize, BlockSize).of = f
          /\ at(BlockSize, BlockSize).size > 0
      BY <1>1, <1>2
    <2> HIDE DEF number, size, at
    <2> QED
      BY <2>1, <2>2, <2>3 DEF Placed, number
  <1>6. CASE fixed_block_size = 0 /\ ~has_stream_info
    <2>1. Located(f) = at(size, size) \/ Located(f) = at(size, 0)
      BY <1>6 DEF Located
    <2> HIDE DEF number, size
    <2> QED
      BY <1>1, <1>2, <1>6, <2>1 DEF Placed
  <1> QED
    BY <1>4, <1>5, <1>6 DEF PlacesInv

LEMMA HeaderStep ==
    ASSUME PlacesInv, ReadCrc8
    PROVE  PlacesInv'
  <1>1. /\ pc = "crc8" /\ pc' \in {"sync", "body"}
        /\ UNCHANGED <<input, has_stream_info, fixed_block_size, last_frame, gap, zeroed,
                       written>>
        /\ \/ UNCHANGED frame /\ pc' = "sync"
           \/ \E f \in 1..Len(Frames) : frame' = Located(f)
    BY DEF ReadCrc8, BadHeader, fileVars, HeadersEndingIn
  <1>2. Untouched
    BY <1>1 DEF Untouched
  <1>3. /\ WrittenFrame' = WrittenFrame /\ FrameRead' = FrameRead
        /\ BlockSize' = BlockSize /\ Len(Frames)' = Len(Frames)
    BY <1>1 DEF WrittenFrame, FrameRead, Frames, BlockSize
  <1>4. Placed(frame') /\ (pc' = "body" => frame' # NoFrame)
    <2>1. CASE UNCHANGED frame /\ pc' = "sync"
      BY <2>1 DEF PlacesInv
    <2>2. ASSUME NEW f \in 1..Len(Frames), frame' = Located(f)
          PROVE  Placed(frame') /\ frame' # NoFrame
      <3>1. Placed(Located(f)) /\ Located(f).of = f /\ Len(Frames) \in Nat
        BY LocatedIsPlaced, FramesAreSome
      <3>2. NoFrame.of = 0 /\ f # 0
        BY <3>1 DEF NoFrame
      <3> QED
        BY <2>2, <3>1, <3>2
    <2> QED
      BY <1>1, <2>1, <2>2
  <1>5. Placed(frame)'
    BY <1>1, <1>3, <1>4 DEF Placed
  <1>6. WrittenInv'
    BY <1>1, <1>2, PlacesStay DEF PlacesInv
  <1>7. Len(written) < MaxWritten => HistoryInv' /\ GapInv'
    <2>1. HistoryInv => HistoryInv'
      BY <1>1 DEF HistoryInv
    <2>2. GapInv => GapInv'
      BY <1>1 DEF GapInv
    <2> QED
      BY <2>1, <2>2 DEF PlacesInv
  <1>8. /\ gap' \in Nat /\ zeroed' \in Nat /\ written' \in Seq(WrittenFrame')
        /\ last_frame' \in FrameRead' /\ input' \in Inputs
        /\ has_stream_info' \in BOOLEAN /\ fixed_block_size' \in Nat
        /\ has_stream_info' => fixed_block_size' \in {0, BlockSize'}
        /\ last_frame' # NoFrame => last_frame'.size > 0
    BY <1>1, <1>3 DEF PlacesInv
  <1> QED
    BY <1>1, <1>4, <1>5, <1>6, <1>7, <1>8 DEF PlacesInv, Early

-------------------------------------------------------------------------------
(* Steps that fill a gap *)

LEMMA FrameIsMeasured ==
    ASSUME PlacesInv
    PROVE  /\ frame.at \in Nat /\ frame.size \in Nat /\ frame.of \in Nat
           /\ last_frame.at \in Nat /\ last_frame.size \in Nat /\ LastEnd \in Nat
           /\ \A w \in WrittenFrame : w.of \in Nat /\ w.at \in Nat /\ w.size \in Nat
                                      /\ End(w) \in Nat
  <1>1. Len(Frames) \in Nat
    BY FramesAreSome
  <1>2. 0..Len(Frames) \subseteq Nat
    BY <1>1
  <1>3. ASSUME NEW f \in FrameRead PROVE f.at \in Nat /\ f.size \in Nat /\ f.of \in Nat
    BY <1>2 DEF FrameRead
  <1>4. ASSUME NEW w \in WrittenFrame
        PROVE  w.of \in Nat /\ w.at \in Nat /\ w.size \in Nat /\ End(w) \in Nat
    <2>1. w.of \in Nat /\ w.at \in Nat /\ w.size \in Nat
      BY <1>2 DEF WrittenFrame
    <2> QED
      BY <2>1 DEF End
  <1>5. frame \in FrameRead /\ last_frame \in FrameRead
    BY DEF PlacesInv, Placed
  <1>6. LastEnd \in Nat
    BY <1>3, <1>5 DEF LastEnd
  <1> QED
    BY <1>3, <1>4, <1>5, <1>6

\* What a gap of g behind a frame of so many samples is filled up to
LEMMA WantedIsNat ==
    ASSUME NEW g \in Nat, NEW n \in Nat
    PROVE  /\ Min({g, MaxRepairSamples, MaxRepairFrames * n}) \in Nat
           /\ Min({g, MaxRepairSamples, MaxRepairFrames * n})
                  = Min({g, Min({MaxRepairSamples, MaxRepairFrames * n})})
           /\ Min({g, 0}) = 0
  <1> DEFINE most == MaxRepairFrames * n
  <1>1. MaxRepairSamples \in Nat /\ most \in Nat
    BY DecoderAssumption
  <1> HIDE DEF most
  <1>2. /\ Min({g, MaxRepairSamples, most}) \in Nat
        /\ Min({g, MaxRepairSamples, most}) = Min({g, Min({MaxRepairSamples, most})})
    BY <1>1, LeastOfThree
  <1>3. Min({g, 0}) = 0
    BY LeastOfTwo
  <1> QED
    BY <1>2, <1>3 DEF most

LEMMA CrcStep ==
    ASSUME PlacesInv, ReadCrc16
    PROVE  PlacesInv'
  <1>1. /\ pc = "crc16" /\ frame # NoFrame
        /\ UNCHANGED <<input, has_stream_info, fixed_block_size, frame, last_frame, written>>
        /\ \/ pc' = "gap" /\ gap' = Padding /\ zeroed' = 0
           \/ pc' = "bad" /\ UNCHANGED <<gap, zeroed>>
    BY DEF ReadCrc16, BadFrame, fileVars, PlacesInv
  <1>2. CASE pc' = "bad" /\ UNCHANGED <<gap, zeroed>>
    <2>1. UNCHANGED <<input, has_stream_info, frameVars>>
      BY <1>1, <1>2 DEF frameVars
    <2> QED
      BY <1>1, <1>2, <2>1, QuietStep DEF Early
  <1>3. CASE pc' = "gap" /\ gap' = Padding /\ zeroed' = 0
    <2>1. Untouched
      BY <1>1 DEF Untouched
    <2>2. /\ WrittenFrame' = WrittenFrame /\ FrameRead' = FrameRead
          /\ BlockSize' = BlockSize /\ Placed(frame)'
      BY <1>1 DEF WrittenFrame, FrameRead, Frames, BlockSize, Placed, PlacesInv
    <2>3. Padding \in Nat /\ (Padding > 0 => last_frame # NoFrame)
      <3>1. /\ frame.at \in Nat /\ last_frame.size \in Nat /\ LastEnd \in Nat
        BY FrameIsMeasured
      <3>2. CASE last_frame # NoFrame /\ LastEnd < frame.at /\ last_frame.size >= MinRepairSize
        <4>1. frame.at - LastEnd \in Nat
          BY <3>1, <3>2
        <4>2. Padding = Min({frame.at - LastEnd, MaxRepairSamples,
                             MaxRepairFrames * last_frame.size})
          BY <3>2 DEF Padding
        <4> QED
          BY <3>1, <3>2, <4>1, <4>2, WantedIsNat
      <3>3. CASE ~(last_frame # NoFrame /\ LastEnd < frame.at
                       /\ last_frame.size >= MinRepairSize)
        <4>1. Padding = 0
          BY <3>3 DEF Padding
        <4> QED
          BY <4>1
      <3> QED
        BY <3>2, <3>3
    <2>4. WrittenInv'
      BY <1>1, <2>1, PlacesStay DEF PlacesInv
    <2>5. ASSUME Len(written) < MaxWritten PROVE HistoryInv' /\ GapInv'
      <3>1. HistoryInv /\ GapInv
        BY <2>5 DEF PlacesInv
      <3>2. HistoryInv'
        BY <1>1, <3>1 DEF HistoryInv
      <3>3. CASE written = <<>>
        <4>1. last_frame = NoFrame
          BY <3>1, <3>3 DEF HistoryInv
        <4>2. gap' = 0
          BY <1>3, <4>1 DEF Padding
        <4> QED
          BY <1>1, <1>3, <3>2, <3>3, <4>2 DEF GapInv
      <3>4. CASE written # <<>>
        <4> DEFINE n == Len(written)
                   w == written[n]
        <4>1. n \in Nat /\ n \in 1..n /\ w \in WrittenFrame
          BY <3>4 DEF PlacesInv
        <4>2. last_frame.at = w.at /\ last_frame.size = w.size /\ w.of # Silence
          BY <1>1, <3>1, <3>4 DEF HistoryInv, GapInv
        <4>3. last_frame # NoFrame
          BY <4>1, <4>2 DEF NoFrame, WrittenFrame
        <4>4. Padding = Wanted(w)
          BY <4>2, <4>3 DEF Padding, Wanted, LastEnd, End
        <4>5. End(w) \in Nat
          BY <4>1, FrameIsMeasured
        <4>6. Filling(n)
          <5>1. (n + 1)..((n + 1) - 1) = {} /\ n..(n - 1) = {}
            BY <4>1
          <5> QED
            BY <4>2, <5>1 DEF Filling, Silent
        <4>7. Filling(n)' /\ Wanted(w)' = Wanted(w)
          BY <1>1, <4>6 DEF Filling, Silent, End, Wanted
        <4>8. gap' + End(w)' - End(w)' = Wanted(w)'
          <5>1. End(w)' = End(w)
            BY <1>1 DEF End
          <5> QED
            BY <1>3, <2>3, <4>4, <4>5, <4>7, <5>1
        <4>9. GapInv'
          BY <1>1, <1>3, <3>4, <4>1, <4>7, <4>8 DEF GapInv
        <4> QED
          BY <3>2, <4>9
      <3> QED
        BY <3>3, <3>4
    <2>6. /\ gap' \in Nat /\ zeroed' \in Nat /\ written' \in Seq(WrittenFrame')
          /\ last_frame' \in FrameRead' /\ input' \in Inputs
          /\ has_stream_info' \in BOOLEAN /\ fixed_block_size' \in Nat
          /\ has_stream_info' => fixed_block_size' \in {0, BlockSize'}
          /\ last_frame' # NoFrame => last_frame'.size > 0
      BY <1>1, <1>3, <2>2, <2>3 DEF PlacesInv
    <2> QED
      BY <1>1, <1>3, <2>2, <2>3, <2>4, <2>5, <2>6 DEF PlacesInv, Early
  <1> QED
    BY <1>1, <1>2, <1>3

\* One more frame in the history leaves what is said of those before it.
LEMMA Appending ==
    ASSUME PlacesInv, NEW e \in WrittenFrame, written' = Append(written, e)
    PROVE  LET n == Len(written) IN
           /\ n \in Nat /\ Len(written') = n + 1 /\ written' \in Seq(WrittenFrame)
           /\ \A i \in 1..n : written'[i] = written[i]
           /\ written'[n + 1] = e
  BY DEF PlacesInv

LEMMA PairsStay ==
    ASSUME PlacesInv, NEW e \in WrittenFrame, written' = Append(written, e),
           NEW i \in 1..Len(written), NEW j \in 1..Len(written)
    PROVE  (Neighbours(i, j) => GapFilled(i, j) /\ Contiguous(i, j))'
  <1> DEFINE n == Len(written)
  <1>1. n \in Nat /\ \A k \in 1..n : written'[k] = written[k]
    BY Appending
  <1> HIDE DEF n
  <1>2. SUFFICES ASSUME Neighbours(i, j)' PROVE GapFilled(i, j)' /\ Contiguous(i, j)'
    OBVIOUS
  <1>3. i \in 1..n /\ j \in 1..n /\ i < j /\ i \in Int /\ j \in Int
    BY <1>1, <1>2 DEF n, Neighbours
  <1>4. j - 1 \in 1..n /\ \A k \in (i + 1)..(j - 1) : k \in 1..n
    BY <1>1, <1>3
  <1>5. Neighbours(i, j)
    BY <1>1, <1>2, <1>3, <1>4 DEF Neighbours, Silent, End
  <1>6. GapFilled(i, j) /\ Contiguous(i, j)
    BY <1>5 DEF PlacesInv, WrittenInv
  <1>7. GapFilled(i, j)'
    BY <1>1, <1>3, <1>4, <1>6 DEF GapFilled, End
  <1>8. \A k \in i..(j - 2) : k \in 1..n /\ k + 1 \in 1..n
    BY <1>1, <1>3
  <1>9. Contiguous(i, j)'
    BY <1>1, <1>6, <1>8 DEF Contiguous, End
  <1> QED
    BY <1>7, <1>9

LEMMA SilenceStep ==
    ASSUME PlacesInv, WriteSilence
    PROVE  PlacesInv'
  <1>0. PICK n \in Nat : n = Len(written)
    BY DEF PlacesInv
  <1> USE <1>0
  <1> DEFINE size == Min({gap, last_frame.size})
             e == [of |-> Silence, at |-> LastEnd, size |-> size, zeroed |-> size]
             l == [of |-> Silence, at |-> LastEnd, size |-> size, next |-> 0]
  <1>1. /\ pc = "gap" /\ gap > 0 /\ pc' \in {"gap", "returned"}
        /\ gap' = gap - size /\ zeroed' = (IF size > zeroed THEN size ELSE zeroed)
        /\ last_frame' = l
        /\ written' = IF n < MaxWritten THEN Append(written, e) ELSE written
        /\ UNCHANGED <<input, has_stream_info, fixed_block_size, frame>>
    BY DEF WriteSilence, Write, Aborted, fileVars
  <1>2. /\ gap \in Nat /\ zeroed \in Nat /\ n \in Nat /\ LastEnd \in Nat
        /\ last_frame.size \in Nat /\ last_frame.size > 0 /\ Len(Frames) \in Nat
    BY <1>1, FrameIsMeasured, FramesAreSome DEF PlacesInv
  <1>3. size \in Nat /\ size > 0 /\ size <= gap
    BY <1>1, <1>2, LeastOfTwo
  <1> HIDE DEF size
  <1>4. e \in WrittenFrame /\ l \in FrameRead /\ l # NoFrame /\ l.size > 0
    BY <1>2, <1>3 DEF WrittenFrame, FrameRead, NoFrame, Silence
  <1>5. e.of = Silence /\ e.at = LastEnd /\ e.size = size /\ End(e) = LastEnd + size
        /\ l.of = e.of /\ l.at = e.at /\ l.size = e.size
    BY DEF End
  <1> HIDE DEF e, l
  <1>6. /\ WrittenFrame' = WrittenFrame /\ FrameRead' = FrameRead
        /\ BlockSize' = BlockSize /\ Placed(frame)'
    BY <1>1 DEF WrittenFrame, FrameRead, Frames, BlockSize, Placed, PlacesInv
  <1>7. /\ gap' \in Nat /\ zeroed' \in Nat /\ last_frame' \in FrameRead' /\ input' \in Inputs
        /\ has_stream_info' \in BOOLEAN /\ fixed_block_size' \in Nat
        /\ has_stream_info' => fixed_block_size' \in {0, BlockSize'}
        /\ last_frame' # NoFrame /\ last_frame'.size > 0 /\ frame' # NoFrame
    BY <1>1, <1>2, <1>3, <1>4, <1>6 DEF PlacesInv
  <1>8. CASE n < MaxWritten
    <2>1. HistoryInv /\ GapInv
      BY <1>8 DEF PlacesInv
    <2>2. /\ written' = Append(written, e) /\ Len(written') = n + 1
          /\ written' \in Seq(WrittenFrame)
          /\ \A i \in 1..n : written'[i] = written[i]
          /\ written'[n + 1] = e
      BY <1>1, <1>4, <1>8, Appending
    <2>3. written # <<>>
      BY <1>1, <1>2, <2>1 DEF GapInv
    <2>4. n \in 1..n /\ LastEnd = End(written[n])
      BY <1>2, <2>1, <2>3 DEF HistoryInv, LastEnd, End, PlacesInv
    <2>5. PICK i \in 1..n : /\ Filling(i)
                            /\ gap + End(written[n]) - End(written[i]) = Wanted(written[i])
      BY <1>1, <2>1, <2>3 DEF GapInv
    <2>6. WrittenInv'
      <3>1. ASSUME has_stream_info', NEW k \in 1..Len(written'), written'[k].of # Silence
            PROVE  written'[k].at = BlockSize' * (written'[k].of - 1)
        <4>1. CASE k \in 1..n
          BY <1>1, <1>6, <2>2, <3>1, <4>1 DEF PlacesInv, WrittenInv
        <4>2. CASE k = n + 1
          BY <1>5, <2>2, <3>1, <4>2
        <4> QED
          BY <1>2, <2>2, <4>1, <4>2
      <3>2. ASSUME NEW k \in 1..Len(written'), NEW j \in 1..Len(written')
            PROVE  (Neighbours(k, j) => GapFilled(k, j) /\ Contiguous(k, j))'
        <4>1. CASE k \in 1..n /\ j \in 1..n
          BY <1>4, <2>2, <4>1, PairsStay
        <4>2. CASE j = n + 1
          BY <1>5, <2>2, <4>2 DEF Neighbours
        <4>3. CASE k = n + 1
          <5>1. Len(written') = n + 1
            BY <2>2
          <5>2. ~(k < j)
            BY <4>3, <5>1
          <5> QED
            BY <5>2 DEF Neighbours
        <4>4. n \in Nat /\ k \in 1..(n + 1) /\ j \in 1..(n + 1)
          BY <1>2, <2>2
        <4>5. (k \in 1..n \/ k = n + 1) /\ (j \in 1..n \/ j = n + 1)
          BY <4>4
        <4> QED
          BY <4>1, <4>2, <4>3, <4>5
      <3> QED
        BY <3>1, <3>2 DEF WrittenInv
    <2>7. HistoryInv'
      <3>1. written' # <<>>
        BY <1>2, <2>2
      <3> QED
        BY <1>1, <1>5, <2>2, <3>1 DEF HistoryInv
    <2>8. i \in 1..(n + 1) /\ written'[i] = written[i]
      BY <1>2, <2>2
    <2>9. Filling(i)'
      <3>1. written'[i].of # Silence
        BY <2>5, <2>8 DEF Filling
      <3>2. Silent(i, Len(written) + 1)'
        <4>1. ASSUME NEW k \in (i + 1)..(Len(written') + 1 - 1)
              PROVE  written'[k].of = Silence
          <5>1. k = n + 1 \/ (k \in (i + 1)..(n + 1 - 1) /\ k \in 1..n)
            BY <1>2, <2>2
          <5>2. \A m \in (i + 1)..(n + 1 - 1) : written[m].of = Silence
            BY <2>5 DEF Filling, Silent
          <5> QED
            BY <1>5, <2>2, <5>1, <5>2
        <4> QED
          BY <4>1 DEF Silent
      <3>3. ASSUME NEW k \in i..(Len(written') - 1)
            PROVE  written'[k + 1].at = End(written'[k])
        <4>1. k = n \/ (k \in i..(n - 1) /\ k \in 1..n /\ k + 1 \in 1..n)
          BY <1>2, <2>2
        <4>2. \A m \in i..(n - 1) : written[m + 1].at = End(written[m])
          BY <2>5 DEF Filling
        <4>3. CASE k = n
          <5>1. written'[k + 1] = e /\ written'[k] = written[n]
            BY <2>2, <2>4, <4>3
          <5> QED
            BY <1>5, <2>4, <5>1
        <4>4. CASE k \in i..(n - 1) /\ k \in 1..n /\ k + 1 \in 1..n
          BY <2>2, <4>2, <4>4
        <4> QED
          BY <4>1, <4>3, <4>4
      <3>4. (\A k \in i..(Len(written) - 1) : written[k + 1].at = End(written[k]))'
        BY <3>3 DEF End
      <3> QED
        BY <3>1, <3>2, <3>4 DEF Filling
    <2>10. gap' + End(written'[Len(written')]) - End(written'[i]) = Wanted(written[i])'
      <3>1. written[i] \in WrittenFrame
        BY <1>2 DEF PlacesInv
      <3>2. End(written[i]) \in Nat
        BY <3>1, FrameIsMeasured
      <3>3. End(written'[Len(written')]) = LastEnd + size
        BY <1>5, <2>2
      <3>4. gap' = gap - size /\ gap + LastEnd - End(written[i]) = Wanted(written[i])
        BY <1>1, <2>4, <2>5
      <3>5. Wanted(written[i])' = Wanted(written[i])
        BY <1>1, <2>8 DEF Wanted, End
      <3> QED
        BY <1>2, <1>3, <2>8, <3>2, <3>3, <3>4, <3>5
    <2>11. (Filling(i) /\ gap + End(written[Len(written)]) - End(written[i])
                              = Wanted(written[i]))'
      BY <2>9, <2>10 DEF End, Wanted
    <2>12. GapInv'
      <3>1. written' # <<>> /\ i \in 1..Len(written')
        BY <1>2, <2>2, <2>8
      <3> QED
        BY <1>1, <2>11, <3>1 DEF GapInv
    <2> QED
      BY <1>1, <1>6, <1>7, <2>2, <2>6, <2>7, <2>12 DEF PlacesInv, Early
  <1>9. CASE ~(n < MaxWritten)
    <2>1. UNCHANGED <<input, written, has_stream_info>>
      BY <1>1, <1>9
    <2>2. WrittenInv' /\ ~(Len(written') < MaxWritten) /\ written' \in Seq(WrittenFrame')
      BY <1>6, <1>9, <2>1, PlacesStay DEF PlacesInv
    <2> QED
      BY <1>1, <1>6, <1>7, <2>2 DEF PlacesInv, Early
  <1> QED
    BY <1>8, <1>9

LEMMA FrameStep ==
    ASSUME PlacesInv, WriteFrame
    PROVE  PlacesInv'
  <1>0. PICK n \in Nat : n = Len(written)
    BY DEF PlacesInv
  <1> USE <1>0
  <1> DEFINE zeros == Min({zeroed, frame.size})
             e == [of |-> frame.of, at |-> frame.at, size |-> frame.size, zeroed |-> zeros]
  <1>1. /\ pc = "gap" /\ gap = 0 /\ pc' \in {"sync", "returned"}
        /\ fixed_block_size' = (IF frame.next # 0 THEN frame.next ELSE fixed_block_size)
        /\ last_frame' = frame
        /\ written' = IF n < MaxWritten THEN Append(written, e) ELSE written
        /\ UNCHANGED <<input, has_stream_info, frame, gap, zeroed>>
    BY DEF WriteFrame, Write, Aborted, fileVars
  <1>2. /\ zeroed \in Nat /\ n \in Nat /\ frame.at \in Nat /\ frame.size \in Nat
        /\ Len(Frames) \in Nat
    BY FrameIsMeasured, FramesAreSome DEF PlacesInv
  <1>3. zeros \in Nat
    BY <1>2, LeastOfTwo
  <1> HIDE DEF zeros
  <1>4. /\ frame \in FrameRead /\ frame # NoFrame /\ frame.of \in 1..Len(Frames)
        /\ frame.size > 0 /\ frame.next \in Nat
    BY <1>1 DEF PlacesInv, Placed, FrameRead
  <1>5. e \in WrittenFrame /\ frame.of # Silence
    BY <1>2, <1>3, <1>4 DEF WrittenFrame, Silence
  <1>6. e.of = frame.of /\ e.at = frame.at /\ e.size = frame.size
    OBVIOUS
  <1> HIDE DEF e
  <1>7. /\ WrittenFrame' = WrittenFrame /\ FrameRead' = FrameRead
        /\ BlockSize' = BlockSize /\ Placed(frame)'
    BY <1>1 DEF WrittenFrame, FrameRead, Frames, BlockSize, Placed, PlacesInv
  <1>8. has_stream_info => /\ frame.at = BlockSize * (frame.of - 1)
                           /\ frame.next \in {0, BlockSize}
                           /\ fixed_block_size \in {0, BlockSize}
    BY <1>5 DEF PlacesInv, Placed
  <1>9. /\ gap' \in Nat /\ zeroed' \in Nat /\ last_frame' \in FrameRead' /\ input' \in Inputs
        /\ has_stream_info' \in BOOLEAN /\ fixed_block_size' \in Nat
        /\ has_stream_info' => fixed_block_size' \in {0, BlockSize'}
        /\ last_frame' # NoFrame /\ last_frame'.size > 0
    BY <1>1, <1>4, <1>7, <1>8 DEF PlacesInv
  <1>10. CASE n < MaxWritten
    <2>1. HistoryInv /\ GapInv
      BY <1>10 DEF PlacesInv
    <2>2. /\ written' = Append(written, e) /\ Len(written') = n + 1
          /\ written' \in Seq(WrittenFrame)
          /\ \A i \in 1..n : written'[i] = written[i]
          /\ written'[n + 1] = e
      BY <1>1, <1>5, <1>10, Appending
    <2>3. ASSUME NEW i \in 1..n, Neighbours(i, n + 1)'
          PROVE  GapFilled(i, n + 1)' /\ Contiguous(i, n + 1)'
      <3>1. written # <<>> /\ n \in 1..n
        BY <1>2 DEF PlacesInv
      <3>2. PICK i0 \in 1..n : /\ Filling(i0)
                               /\ gap + End(written[n]) - End(written[i0])
                                      = Wanted(written[i0])
        BY <1>1, <2>1, <3>1 DEF GapInv
      <3>3. /\ written[i].of # Silence
            /\ \A k \in (i + 1)..(n + 1 - 1) : written'[k].of = Silence
            /\ End(written[i]) < frame.at
        BY <1>6, <2>2, <2>3 DEF Neighbours, Silent, End
      <3>4. i = i0
        <4>1. /\ written[i0].of # Silence
              /\ \A k \in (i0 + 1)..(n + 1 - 1) : written[k].of = Silence
          BY <3>2 DEF Filling, Silent
        <4>2. ~(i < i0)
          <5>1. i < i0 => i0 \in (i + 1)..(n + 1 - 1)
            BY <1>2
          <5> QED
            BY <2>2, <3>3, <4>1, <5>1
        <4>3. ~(i0 < i)
          <5>1. i0 < i => i \in (i0 + 1)..(n + 1 - 1)
            BY <1>2
          <5> QED
            BY <3>3, <4>1, <5>1
        <4> QED
          BY <1>2, <4>2, <4>3
      <3>5. written[i] \in WrittenFrame /\ written[n] \in WrittenFrame
        BY <3>1 DEF PlacesInv
      <3> DEFINE w == written[i]
                 missing == frame.at - End(w)
      <3>6. w.size \in Nat /\ End(w) \in Nat /\ End(written[n]) \in Nat
        BY <3>5, FrameIsMeasured
      <3>7. End(written[n]) - End(w) = Wanted(w)
        <4>1. 0 + End(written[n]) - End(w) = Wanted(w)
          BY <1>1, <3>2, <3>4
        <4> QED
          BY <3>6, <4>1
      <3>8. missing \in Nat
        BY <1>2, <3>3, <3>6
      <3>9. Wanted(w) = Min({missing, IF w.size < MinRepairSize THEN 0
                                      ELSE Min({MaxRepairSamples, MaxRepairFrames * w.size})})
        <4>1. CASE w.size < MinRepairSize
          <5>1. Wanted(w) = 0
            BY <3>6, <4>1, DecoderAssumption DEF Wanted
          <5> QED
            BY <3>6, <3>8, <4>1, <5>1, WantedIsNat
        <4>2. CASE ~(w.size < MinRepairSize)
          <5>1. Wanted(w) = Min({missing, MaxRepairSamples, MaxRepairFrames * w.size})
            BY <3>3, <3>6, <4>2, DecoderAssumption DEF Wanted
          <5> QED
            BY <3>6, <3>8, <4>2, <5>1, WantedIsNat
        <4> QED
          BY <4>1, <4>2
      <3>10. GapFilled(i, n + 1)'
        <4>1. written'[i] = w /\ written'[n + 1].at = frame.at
              /\ written'[n + 1 - 1] = written[n]
          BY <1>2, <1>6, <2>2, <3>1
        <4>2. End(written'[n + 1 - 1]) - End(written'[i])
                = Min({written'[n + 1].at - End(written'[i]),
                       IF written'[i].size < MinRepairSize THEN 0
                       ELSE Min({MaxRepairSamples, MaxRepairFrames * written'[i].size})})
          BY <3>7, <3>9, <4>1
        <4> QED
          BY <2>2, <4>2 DEF GapFilled, End
      <3>11. Contiguous(i, n + 1)'
        <4>1. ASSUME NEW k \in i..(n + 1 - 2)
              PROVE  written'[k + 1].at = End(written'[k])
          <5>1. k \in i..(n - 1) /\ k \in 1..n /\ k + 1 \in 1..n
            BY <1>2
          <5>2. \A m \in i..(n - 1) : written[m + 1].at = End(written[m])
            BY <3>2, <3>4 DEF Filling
          <5> QED
            BY <2>2, <5>1, <5>2
        <4> QED
          BY <2>2, <4>1 DEF Contiguous, End
      <3> QED
        BY <3>10, <3>11
    <2>4. WrittenInv'
      <3>1. ASSUME has_stream_info', NEW k \in 1..Len(written'), written'[k].of # Silence
            PROVE  written'[k].at = BlockSize' * (written'[k].of - 1)
        <4>1. CASE k \in 1..n
          BY <1>1, <1>7, <2>2, <3>1, <4>1 DEF PlacesInv, WrittenInv
        <4>2. CASE k = n + 1
          BY <1>1, <1>6, <1>7, <1>8, <2>2, <3>1, <4>2
        <4> QED
          BY <1>2, <2>2, <4>1, <4>2
      <3>2. ASSUME NEW k \in 1..Len(written'), NEW j \in 1..Len(written')
            PROVE  (Neighbours(k, j) => GapFilled(k, j) /\ Contiguous(k, j))'
        <4>1. CASE k \in 1..n /\ j \in 1..n
          BY <1>5, <2>2, <4>1, PairsStay
        <4>2. CASE k \in 1..n /\ j = n + 1
          BY <2>3, <4>2
        <4>3. CASE k = n + 1
          <5>1. Len(written') = n + 1
            BY <2>2
          <5>2. ~(k < j)
            BY <4>3, <5>1
          <5> QED
            BY <5>2 DEF Neighbours
        <4> QED
          BY <1>2, <2>2, <4>1, <4>2, <4>3
      <3> QED
        BY <3>1, <3>2 DEF WrittenInv
    <2>5. written' # <<>>
      BY <1>2, <2>2
    <2>6. HistoryInv'
      BY <1>1, <1>6, <2>2, <2>5 DEF HistoryInv
    <2>7. GapInv'
      BY <1>1, <1>5, <1>6, <2>2, <2>5 DEF GapInv
    <2> QED
      BY <1>1, <1>7, <1>9, <2>2, <2>4, <2>6, <2>7 DEF PlacesInv, Early
  <1>11. CASE ~(n < MaxWritten)
    <2>1. UNCHANGED <<input, written, has_stream_info>>
      BY <1>1, <1>11
    <2>2. WrittenInv' /\ ~(Len(written') < MaxWritten) /\ written' \in Seq(WrittenFrame')
      BY <1>7, <1>11, <2>1, PlacesStay DEF PlacesInv
    <2> QED
      BY <1>1, <1>7, <1>9, <2>2 DEF PlacesInv, Early
  <1> QED
    BY <1>10, <1>11

-------------------------------------------------------------------------------
(* The theorem *)

\* The inductive invariant holds in every state.
LEMMA PlacesStep ==
    ASSUME PlacesInv, [Next]_vars
    PROVE  PlacesInv'
  <1> USE DEF fileVars, syncVars
  <1>1. CASE Refill
    <2>1. /\ UNCHANGED <<input, has_stream_info, frameVars>>
          /\ \/ pc' = pc
             \/ pc \in {"body", "crc16"} /\ pc' = "bad"
             \/ pc' = "returned"
      BY <1>1 DEF Refill, EndOfStream
    <2> QED
      BY <2>1, QuietStep DEF Early
  <1>2. CASE FindMetadata
    <2>1. /\ UNCHANGED <<input, has_stream_info, frameVars>>
          /\ pc = "marker" /\ pc' \in {"metadata", "marker2", "marker"}
      BY <1>2 DEF FindMetadata
    <2> QED
      BY <2>1, QuietStep DEF Early
  <1>3. CASE FindMetadata2
    <2>1. /\ UNCHANGED <<input, has_stream_info, frameVars>>
          /\ pc = "marker2" /\ pc' \in {"marker", "parameters"}
      BY <1>3 DEF FindMetadata2, StartFrame
    <2> QED
      BY <2>1, QuietStep DEF Early
  <1>4. CASE ReadMetadata
    BY <1>4, MetadataStep
  <1>5. CASE SkipBlock
    <2>1. /\ UNCHANGED <<input, has_stream_info, frameVars>>
          /\ pc = "skip" /\ pc' \in {"skip", "metadata", "sync"}
      BY <1>5 DEF SkipBlock, AfterBlock
    <2> QED
      BY <2>1, QuietStep DEF Early
  <1>6. CASE SearchSync
    <2>1. /\ UNCHANGED <<input, has_stream_info, frameVars>>
          /\ pc = "sync" /\ pc' \in {"sync", "sync2"}
      BY <1>6 DEF SearchSync
    <2> QED
      BY <2>1, QuietStep DEF Early
  <1>7. CASE SearchSync2
    <2>1. /\ UNCHANGED <<input, has_stream_info, frameVars>>
          /\ pc = "sync2" /\ pc' \in {"sync", "parameters"}
      BY <1>7 DEF SearchSync2, StartFrame
    <2> QED
      BY <2>1, QuietStep DEF Early
  <1>8. CASE ReadParameters
    <2>1. /\ UNCHANGED <<input, has_stream_info, frameVars>>
          /\ pc = "parameters" /\ pc' \in {"sync", "parameters", "number"}
      BY <1>8 DEF ReadParameters, BadHeader
    <2> QED
      BY <2>1, QuietStep DEF Early
  <1>9. CASE ReadNumber
    <2>1. /\ UNCHANGED <<input, has_stream_info, frameVars>>
          /\ pc \in {"number", "number2"}
          /\ pc' \in {"sync", "number2", "crc8", "blocksize"}
      BY <1>9 DEF ReadNumber, BadHeader, NumberDone
    <2> QED
      BY <2>1, QuietStep DEF Early
  <1>10. CASE ReadBlockSize
    <2>1. /\ UNCHANGED <<input, has_stream_info, frameVars>>
          /\ pc = "blocksize" /\ pc' \in {"crc8", "blocksize"}
      BY <1>10 DEF ReadBlockSize
    <2> QED
      BY <2>1, QuietStep DEF Early
  <1>11. CASE ReadCrc8
    BY <1>11, HeaderStep
  <1>12. CASE ReadBody
    <2>1. /\ UNCHANGED <<input, has_stream_info, frameVars>>
          /\ pc = "body" /\ pc' \in {"body", "crc16", "bad", "returned"}
      BY <1>12 DEF ReadBody, BadFrame
    <2> QED
      BY <2>1, QuietStep DEF Early
  <1>13. CASE ReadCrc16
    BY <1>13, CrcStep
  <1>14. CASE WriteSilence
    BY <1>14, SilenceStep
  <1>15. CASE WriteFrame
    BY <1>15, FrameStep
  <1>16. CASE Rewind
    <2>1. /\ UNCHANGED <<input, has_stream_info, frameVars>>
          /\ pc = "bad" /\ pc' \in {"returned", "sync"}
      BY <1>16 DEF Rewind
    <2> QED
      BY <2>1, QuietStep DEF Early
  <1>17. CASE Returned \/ UNCHANGED vars
    <2>1. UNCHANGED <<input, has_stream_info, frameVars, pc>>
      BY <1>17 DEF Returned, vars
    <2> QED
      BY <2>1, QuietStep DEF Early
  <1> QED
    BY <1>1, <1>2, <1>3, <1>4, <1>5, <1>6, <1>7, <1>8, <1>9, <1>10, <1>11, <1>12, <1>13,
       <1>14, <1>15, <1>16, <1>17 DEF Next, Go

LEMMA PlacesSuffice ==
    ASSUME PlacesInv
    PROVE  FramesAreInPlace
  <1>1. ASSUME NEW i \in 1..Len(written), NEW j \in 1..Len(written), Neighbours(i, j)
        PROVE  GapFilled(i, j) /\ Contiguous(i, j)
    BY <1>1 DEF PlacesInv, WrittenInv
  <1> QED
    BY <1>1 DEF PlacesInv, WrittenInv, FramesAreInPlace, Neighbours, GapFilled, Contiguous

\* Whatever became of the file: with a STREAMINFO every frame is given its place in the
\* stream, and every gap between two frames is filled with silence as far as the limits
\* of the repair go, without a hole and never beyond the frame behind it
\* (read_frame_, padding_samples_needed).
THEOREM FramesAlwaysInPlace == Spec => []FramesAreInPlace
  <1>1. Init => PlacesInv
    BY PlacesInit
  <1>2. PlacesInv /\ [Next]_vars => PlacesInv'
    BY PlacesStep
  <1>3. PlacesInv => FramesAreInPlace
    BY PlacesSuffice
  <1> QED
    BY <1>1, <1>2, <1>3, PTL DEF Spec

-------------------------------------------------------------------------------
(* The bit reader, byte by byte *)

RL == INSTANCE BitReaderLemmas WITH Capacity <- BufferWords

BufferBytes == BufferWords * BytesPerWord
Available(b) == Reader!Available(b)
At(b) == Reader!Consumed(b) \div BitsPerByte
Lsf(b) == b.last_seen_framesync

\* A reader of a buffer of bytes of S that stands between two bytes
Good(b, S) == b \in RL!Readers(S) /\ RL!Sane(b) /\ b.consumed_bits % BitsPerByte = 0

\* What all of these do not change
SameBytes(c, b) ==
    /\ c.buffer = b.buffer /\ c.words = b.words /\ c.bytes = b.bytes
    /\ Available(c) = Available(b)

LEMMA ReaderSizes ==
    /\ BytesPerWord \in Nat \ {0} /\ BitsPerByte \in Nat \ {0}
    /\ BufferWords \in Nat \ {0} /\ Wrap \in Nat \ {0, 1}
    /\ BufferBytes \in Nat \ {0} /\ BufferBytes = BytesPerWord * BufferWords
    /\ BitsPerByte = 8
  <1>1. BytesPerWord * BufferWords \in Nat \ {0}
    BY DecoderAssumption
  <1>2. BytesPerWord * BufferWords = BufferWords * BytesPerWord
    BY DecoderAssumption
  <1> QED
    BY <1>1, <1>2, DecoderAssumption DEF BitsPerByte, BufferBytes

\* The operators that StreamDecoder calls are those the lemmas are about.
LEMMA SameOperators ==
    /\ Reader!Addr = RL!Addr /\ Reader!None = RL!None /\ Reader!BitsPerWord = RL!BitsPerWord
    /\ BufferBytes = RL!BufferBytes
    /\ \A b : /\ Reader!Available(b) = RL!Available(b) /\ Reader!Consumed(b) = RL!Consumed(b)
              /\ Reader!Unconsumed(b) = RL!Unconsumed(b) /\ Reader!SpaceLeft(b) = RL!SpaceLeft(b)
              /\ Reader!FramesyncInBuffer(b) = RL!FramesyncInBuffer(b)
    /\ \A a : Reader!MemoryOrder(a) = RL!MemoryOrder(a)
  BY DEF Reader!Addr, RL!Addr, Reader!None, RL!None, Reader!BitsPerWord, RL!BitsPerWord,
     BufferBytes, RL!BufferBytes, Reader!Available, RL!Available, Reader!Consumed, RL!Consumed,
     Reader!Unconsumed, RL!Unconsumed, Reader!SpaceLeft, RL!SpaceLeft,
     Reader!FramesyncInBuffer, RL!FramesyncInBuffer, Reader!MemoryOrder, RL!MemoryOrder

LEMMA SameFunctions ==
    ASSUME NEW b
    PROVE  /\ \A n : Reader!Consume(b, n) = RL!Consume(b, n)
           /\ \A seed : Reader!ResetReadCrc16(b, seed) = RL!ResetReadCrc16(b, seed)
           /\ Reader!SetFramesyncLocation(b) = RL!SetFramesyncLocation(b)
           /\ Reader!RewindToAfterLastSeenFramesync(b) = RL!RewindToAfterLastSeenFramesync(b)
           /\ Reader!Clear(b) = RL!Clear(b)
           /\ Reader!Crc16UpdateBlock(b) = RL!Crc16UpdateBlock(b)
  <1> USE SameOperators
  <1>1. \A n : Reader!Consume(b, n) = RL!Consume(b, n)
    BY DEF Reader!Consume, RL!Consume
  <1>2. \A seed : Reader!ResetReadCrc16(b, seed) = RL!ResetReadCrc16(b, seed)
    BY DEF Reader!ResetReadCrc16, RL!ResetReadCrc16
  <1>3. Reader!SetFramesyncLocation(b) = RL!SetFramesyncLocation(b)
    BY DEF Reader!SetFramesyncLocation, RL!SetFramesyncLocation
  <1>4. Reader!RewindToAfterLastSeenFramesync(b) = RL!RewindToAfterLastSeenFramesync(b)
    BY DEF Reader!RewindToAfterLastSeenFramesync, RL!RewindToAfterLastSeenFramesync
  <1>5. Reader!Clear(b) = RL!Clear(b)
    BY DEF Reader!Clear, RL!Clear
  <1>6. Reader!Crc16UpdateBlock(b) = RL!Crc16UpdateBlock(b)
    BY DEF Reader!Crc16UpdateBlock, RL!Crc16UpdateBlock, Reader!BytesOf, RL!BytesOf
  <1> QED
    BY <1>1, <1>2, <1>3, <1>4, <1>5, <1>6

LEMMA SameFunctions2 ==
    ASSUME NEW b
    PROVE  /\ Reader!BeforeRead(b) = RL!BeforeRead(b)
           /\ Reader!TailForClient(b) = RL!TailForClient(b)
           /\ \A data : Reader!Filled(b, data) = RL!Filled(b, data)
           /\ \A data : Reader!NotFilled(b, data) = RL!NotFilled(b, data)
  <1> USE SameOperators
  <1>2. Reader!BeforeRead(b) = RL!BeforeRead(b)
    BY SameFunctions DEF Reader!BeforeRead, RL!BeforeRead, Reader!ShiftToFront, RL!ShiftToFront
  <1>3. Reader!TailForClient(b) = RL!TailForClient(b)
    BY DEF Reader!TailForClient, RL!TailForClient, Reader!SwapWords, RL!SwapWords,
       Reader!InWords, RL!InWords
  <1>4. \A buffer, target, data : Reader!StoreAt(buffer, target, data) = RL!StoreAt(buffer, target, data)
    BY DEF Reader!StoreAt, RL!StoreAt
  <1>5. \A buffer, f, l : Reader!SwapWords(buffer, f, l) = RL!SwapWords(buffer, f, l)
    BY DEF Reader!SwapWords, RL!SwapWords, Reader!InWords, RL!InWords
  <1>6. \A data : Reader!Filled(b, data) = RL!Filled(b, data)
    BY <1>3, <1>4, <1>5 DEF Reader!Filled, RL!Filled
  <1>7. \A data : Reader!NotFilled(b, data) = RL!NotFilled(b, data)
    BY <1>3, <1>4, <1>5 DEF Reader!NotFilled, RL!NotFilled, Reader!InWords, RL!InWords
  <1> QED
    BY <1>2, <1>3, <1>6, <1>7

\* And so is the CRC.
LEMMA SameCrc ==
    ASSUME NEW b
    PROVE  Reader!GetReadCrc16(b) = RL!GetReadCrc16(b)
  <1>1. \A c, from, to : Reader!BytesOf(c, from, to) = RL!BytesOf(c, from, to)
    BY DEF Reader!BytesOf, RL!BytesOf
  <1> DEFINE c == Reader!Crc16UpdateBlock(b)
  <1>2. RL!Crc16UpdateBlock(b) = c
    BY SameFunctions
  <1> HIDE DEF c
  <1>3. Reader!GetReadCrc16(b) =
            [c EXCEPT !.read_crc16 =
                          @ \o Reader!BytesOf(c, c.consumed_words * BytesPerWord + c.crc16_align \div BitsPerByte,
                                 c.consumed_words * BytesPerWord + c.consumed_bits \div BitsPerByte),
                      !.crc16_align = IF c.crc16_align < c.consumed_bits
                                      THEN c.consumed_bits ELSE @]
    BY DEF Reader!GetReadCrc16, c
  <1>4. RL!GetReadCrc16(b) =
            [c EXCEPT !.read_crc16 =
                          @ \o RL!BytesOf(c, c.consumed_words * BytesPerWord + c.crc16_align \div BitsPerByte,
                                 c.consumed_words * BytesPerWord + c.consumed_bits \div BitsPerByte),
                      !.crc16_align = IF c.crc16_align < c.consumed_bits
                                      THEN c.consumed_bits ELSE @]
    BY <1>2 DEF RL!GetReadCrc16
  <1> QED
    BY <1>1, <1>3, <1>4

-------------------------------------------------------------------------------

LEMMA ByteDivision ==
    ASSUME NEW n \in Nat
    PROVE  (n * BitsPerByte) \div BitsPerByte = n /\ (n * BitsPerByte) % BitsPerByte = 0
  BY DEF BitsPerByte

\* Between two bytes the bits consumed are whole bytes.
LEMMA BetweenBytes ==
    ASSUME NEW S, NEW b \in RL!Readers(S), RL!Sane(b)
    PROVE  b.consumed_bits % BitsPerByte = 0 <=> Reader!Consumed(b) % BitsPerByte = 0
  <1> DEFINE whole == b.consumed_words * BytesPerWord
  <1>1. b.consumed_words \in Nat /\ b.consumed_bits \in Nat
    BY DEF RL!Readers
  <1>2. whole \in Nat
    BY <1>1, ReaderSizes
  <1>3. Reader!Consumed(b) = whole * BitsPerByte + b.consumed_bits
    <2>1. Reader!Consumed(b) = b.consumed_words * (BytesPerWord * BitsPerByte) + b.consumed_bits
      BY DEF Reader!Consumed, Reader!BitsPerWord
    <2>2. b.consumed_words * (BytesPerWord * BitsPerByte) = whole * BitsPerByte
      BY <1>1, ReaderSizes
    <2> QED
      BY <2>1, <2>2
  <1> DEFINE bits == b.consumed_bits
  <1>4. bits \in Nat /\ Reader!Consumed(b) = whole * 8 + bits
    BY <1>1, <1>3 DEF BitsPerByte
  <1> HIDE DEF whole, bits
  <1>5. (whole * 8 + bits) % 8 = bits % 8
    BY <1>2, <1>4
  <1> QED
    BY <1>4, <1>5 DEF BitsPerByte, bits

LEMMA GoodPlaces ==
    ASSUME NEW S, NEW b, Good(b, S)
    PROVE  /\ At(b) \in Nat /\ Reader!Consumed(b) = At(b) * BitsPerByte
           /\ Available(b) \in Nat /\ At(b) <= Available(b) /\ Available(b) <= BufferBytes
           /\ Reader!Unconsumed(b) = (Available(b) - At(b)) * BitsPerByte
           /\ Reader!Unconsumed(b) \div BitsPerByte = Available(b) - At(b)
           /\ Reader!SpaceLeft(b) = BufferBytes - Available(b)
           /\ b.buffer \in [0..(BufferBytes - 1) -> S] /\ BufferBytes \in Nat \ {0}
           /\ Lsf(b) \in Nat /\ b.read_crc16 \in Seq(S)
  <1>1. b \in RL!Readers(S) /\ RL!Sane(b) /\ b.consumed_bits % BitsPerByte = 0
    BY DEF Good
  <1> DEFINE consumed == Reader!Consumed(b)
             unconsumed == Reader!Unconsumed(b)
             available == Available(b)
  <1>2. /\ available \in Nat /\ consumed \in Nat
        /\ unconsumed = available * BitsPerByte - consumed
        /\ Reader!SpaceLeft(b) = BufferBytes - available
    BY <1>1, RL!Places, ReaderSizes, SameOperators DEF Available
  <1>3. consumed % BitsPerByte = 0
    BY <1>1, BetweenBytes
  <1>4. /\ consumed <= available * BitsPerByte /\ available <= BufferBytes
    BY <1>1, SameOperators DEF RL!Sane, Available
  <1>5. /\ b.buffer \in [0..(BufferBytes - 1) -> S] /\ Lsf(b) \in Nat
        /\ b.read_crc16 \in Seq(S)
    BY <1>1, ReaderSizes DEF RL!Readers, RL!Addr, Lsf, BufferBytes
  <1>6. At(b) = consumed \div BitsPerByte
    BY DEF At
  <1> HIDE DEF consumed, unconsumed, available
  <1>7. /\ consumed \div 8 \in Nat /\ consumed = (consumed \div 8) * 8
        /\ consumed \div 8 <= available
        /\ unconsumed = (available - consumed \div 8) * 8
        /\ unconsumed \div 8 = available - consumed \div 8
    BY <1>2, <1>3, <1>4 DEF BitsPerByte
  <1> QED
    BY <1>2, <1>4, <1>5, <1>6, <1>7, ReaderSizes DEF BitsPerByte, consumed, unconsumed, available

\* A reader with the place and the bytes of a good one is good.
LEMMA GoodStays ==
    ASSUME NEW S, NEW b, Good(b, S), NEW c, c \in RL!Readers(S), RL!SamePlace(c, b)
    PROVE  Good(c, S) /\ SameBytes(c, b) /\ At(c) = At(b)
  <1>1. b \in RL!Readers(S) /\ RL!Sane(b) /\ b.consumed_bits % BitsPerByte = 0
    BY DEF Good
  <1>2. /\ c.buffer = b.buffer /\ c.words = b.words /\ c.bytes = b.bytes
        /\ c.consumed_words = b.consumed_words /\ c.consumed_bits = b.consumed_bits
    BY DEF RL!SamePlace
  <1>3. RL!Sane(c)
    BY <1>1, <1>2 DEF RL!Sane, RL!Available, RL!Consumed
  <1> QED
    BY <1>1, <1>2, <1>3 DEF Good, SameBytes, Available, Reader!Available, At, Reader!Consumed

LEMMA ConsumeBytes ==
    ASSUME NEW S, NEW b, Good(b, S), NEW k \in Nat, k <= Available(b) - At(b)
    PROVE  LET c == Reader!Consume(b, k * BitsPerByte) IN
           Good(c, S) /\ SameBytes(c, b) /\ At(c) = At(b) + k /\ Lsf(c) = Lsf(b)
  <1> DEFINE c == Reader!Consume(b, k * BitsPerByte)
  <1>1. b \in RL!Readers(S) /\ RL!Sane(b)
    BY DEF Good
  <1>2. At(b) \in Nat /\ Available(b) \in Nat /\ Reader!Consumed(b) = At(b) * BitsPerByte
        /\ RL!Unconsumed(b) = (Available(b) - At(b)) * BitsPerByte
    BY GoodPlaces, SameOperators
  <1>3. k * BitsPerByte \in Nat /\ k * BitsPerByte <= RL!Unconsumed(b)
    BY <1>2 DEF BitsPerByte
  <1>4. c = RL!Consume(b, k * BitsPerByte)
    BY SameFunctions
  <1>5. /\ c \in RL!Readers(S) /\ RL!Sane(c)
        /\ c.buffer = b.buffer /\ c.words = b.words /\ c.bytes = b.bytes
        /\ c.last_seen_framesync = b.last_seen_framesync
        /\ RL!Available(c) = RL!Available(b)
        /\ RL!Consumed(c) = RL!Consumed(b) + k * BitsPerByte
    BY <1>1, <1>3, <1>4, RL!Consuming, ReaderSizes
  <1> HIDE DEF c
  <1>6. Reader!Consumed(c) = (At(b) + k) * BitsPerByte
    BY <1>2, <1>5, SameOperators DEF BitsPerByte
  <1>7. At(c) = At(b) + k /\ Reader!Consumed(c) % BitsPerByte = 0
    BY <1>2, <1>6, ByteDivision DEF At
  <1>8. Good(c, S)
    BY <1>5, <1>7, BetweenBytes DEF Good
  <1> QED
    BY <1>5, <1>7, <1>8, SameOperators DEF SameBytes, Available, Lsf, c

LEMMA RememberSync ==
    ASSUME NEW S, NEW b, Good(b, S)
    PROVE  LET c == Reader!SetFramesyncLocation(b) IN
           Good(c, S) /\ SameBytes(c, b) /\ At(c) = At(b) /\ Lsf(c) = At(b)
  <1> DEFINE c == Reader!SetFramesyncLocation(b)
  <1>1. b \in RL!Readers(S) /\ RL!Sane(b) /\ RL!ByteAligned(b)
    BY DEF Good, RL!ByteAligned
  <1>2. c = RL!SetFramesyncLocation(b)
    BY SameFunctions
  <1>3. /\ c \in RL!Readers(S) /\ RL!SamePlace(c, b)
        /\ c.last_seen_framesync \in Nat
        /\ c.last_seen_framesync * BitsPerByte = RL!Consumed(b)
    BY <1>1, <1>2, RL!Remembering, ReaderSizes
  <1> HIDE DEF c
  <1>4. Good(c, S) /\ SameBytes(c, b) /\ At(c) = At(b)
    BY <1>3, GoodStays
  <1>5. Lsf(c) * BitsPerByte = At(b) * BitsPerByte /\ At(b) \in Nat /\ Lsf(c) \in Nat
    BY <1>3, GoodPlaces, SameOperators DEF Lsf
  <1>6. Lsf(c) = At(b)
    BY <1>5 DEF BitsPerByte
  <1> QED
    BY <1>4, <1>6 DEF c

LEMMA ResetCrc ==
    ASSUME NEW S, NEW b, Good(b, S), NEW seed \in Seq(S)
    PROVE  LET c == Reader!ResetReadCrc16(b, seed) IN
           Good(c, S) /\ SameBytes(c, b) /\ At(c) = At(b) /\ Lsf(c) = Lsf(b)
  <1> DEFINE c == Reader!ResetReadCrc16(b, seed)
  <1>1. b \in RL!Readers(S) /\ c = RL!ResetReadCrc16(b, seed)
    BY SameFunctions DEF Good
  <1>2. /\ c \in RL!Readers(S) /\ RL!SamePlace(c, b)
        /\ c.last_seen_framesync = b.last_seen_framesync
    BY <1>1, RL!ResettingCrc, ReaderSizes
  <1> HIDE DEF c
  <1> QED
    BY <1>2, GoodStays DEF Lsf, c

LEMMA TakeCrc ==
    ASSUME NEW S, NEW b, Good(b, S)
    PROVE  LET c == Reader!GetReadCrc16(b) IN
           Good(c, S) /\ SameBytes(c, b) /\ At(c) = At(b) /\ Lsf(c) = Lsf(b)
  <1> DEFINE c == Reader!GetReadCrc16(b)
  <1>1. b \in RL!Readers(S) /\ RL!Sane(b) /\ c = RL!GetReadCrc16(b)
    BY SameCrc DEF Good
  <1>2. /\ c \in RL!Readers(S) /\ RL!SamePlace(c, b)
        /\ c.last_seen_framesync = b.last_seen_framesync
    BY <1>1, RL!GetCrcKeepsPlace, ReaderSizes
  <1> HIDE DEF c
  <1> QED
    BY <1>2, GoodStays DEF Lsf, c

LEMMA RewindBytes ==
    ASSUME NEW S, NEW b, Good(b, S), Reader!FramesyncInBuffer(b) => Lsf(b) + 1 <= Available(b)
    PROVE  LET c == Reader!RewindToAfterLastSeenFramesync(b) IN
           /\ Good(c, S) /\ SameBytes(c, b) /\ Lsf(c) = Lsf(b)
           /\ At(c) = IF Reader!FramesyncInBuffer(b) THEN Lsf(b) + 1 ELSE 0
  <1> DEFINE c == Reader!RewindToAfterLastSeenFramesync(b)
             place == IF Reader!FramesyncInBuffer(b) THEN Lsf(b) + 1 ELSE 0
  <1>1. b \in RL!Readers(S) /\ RL!Sane(b) /\ c = RL!RewindToAfterLastSeenFramesync(b)
    BY SameFunctions DEF Good
  <1>2. RL!FramesyncInBuffer(b) => b.last_seen_framesync + 1 <= RL!Available(b)
    BY SameOperators DEF Lsf, Available
  <1>3. /\ c \in RL!Readers(S) /\ RL!Sane(c)
        /\ c.buffer = b.buffer /\ c.words = b.words /\ c.bytes = b.bytes
        /\ c.last_seen_framesync = b.last_seen_framesync
        /\ c.consumed_bits % BitsPerByte = 0
        /\ RL!Available(c) = RL!Available(b)
        /\ RL!Consumed(c) = IF RL!FramesyncInBuffer(b)
                            THEN (b.last_seen_framesync + 1) * BitsPerByte ELSE 0
    BY <1>1, <1>2, RL!Rewinding, ReaderSizes
  <1> HIDE DEF c
  <1>4. Lsf(b) \in Nat /\ place \in Nat
    BY GoodPlaces
  <1>5. Reader!Consumed(c) = place * BitsPerByte
    BY <1>3, SameOperators DEF Lsf, BitsPerByte
  <1> HIDE DEF place
  <1>6. At(c) = place
    BY <1>4, <1>5, ByteDivision DEF At
  <1> QED
    BY <1>3, <1>6, SameOperators DEF Good, SameBytes, Available, Lsf, c, place

LEMMA ClearBytes ==
    ASSUME NEW S, NEW b, Good(b, S)
    PROVE  LET c == Reader!Clear(b) IN
           Good(c, S) /\ Available(c) = 0 /\ At(c) = 0 /\ ~Reader!FramesyncInBuffer(c)
  <1> DEFINE c == Reader!Clear(b)
  <1>1. b \in RL!Readers(S) /\ c = RL!Clear(b)
    BY SameFunctions DEF Good
  <1>2. /\ c \in RL!Readers(S) /\ RL!Sane(c) /\ c.consumed_bits = 0
        /\ RL!Available(c) = 0 /\ RL!Consumed(c) = 0 /\ c.last_seen_framesync = RL!None
    BY <1>1, RL!Clearing, ReaderSizes
  <1> HIDE DEF c
  <1>3. Good(c, S)
    BY <1>2 DEF Good, BitsPerByte
  <1>4. At(c) = 0 /\ Available(c) = 0
    BY <1>2, SameOperators DEF At, Available, BitsPerByte
  <1> QED
    BY <1>2, <1>3, <1>4, SameOperators DEF c, Reader!FramesyncInBuffer

\* Words that are consumed leave; all else moves to the front.
\* c holds what b does but for the first d bytes, which were taken.
Without(c, b, d) ==
    /\ d <= At(b) /\ At(c) = At(b) - d /\ Available(c) = Available(b) - d
    /\ \A a \in 0..(Available(c) - 1) : c.buffer[a] = b.buffer[a + d]

LEMMA ShiftBytes ==
    ASSUME NEW S, NEW b, Good(b, S)
    PROVE  LET c == Kept(Reader!BeforeRead(b)) IN
           /\ Good(c, S) /\ ~Reader!FramesyncInBuffer(c)
           /\ \E d \in Nat : Without(c, b, d)
  <1> DEFINE c == Reader!BeforeRead(b)
             e == Kept(c)
             d == b.consumed_words * BytesPerWord
  <1>1. b \in RL!Readers(S) /\ RL!Sane(b) /\ c = RL!BeforeRead(b)
    BY SameFunctions2 DEF Good
  <1>2. /\ c \in RL!Readers(S) /\ RL!Sane(c) /\ d \in Nat
        /\ RL!Available(c) = RL!Available(b) - d
        /\ RL!Consumed(c) = RL!Consumed(b) - d * BitsPerByte
        /\ c.consumed_bits = b.consumed_bits
        /\ \A a \in 0..(RL!Available(c) - 1) : c.buffer[a] = b.buffer[a + d]
        /\ c.last_seen_framesync = RL!None
    BY <1>1, RL!Shifting, ReaderSizes
  <1>3. e \in RL!Readers(S) /\ RL!SamePlace(e, c) /\ e.last_seen_framesync = RL!None
    <2>1. CASE InFrame
      BY <1>2, <2>1 DEF Kept, RL!SamePlace
    <2>2. CASE ~InFrame
      <3>1. e = [c EXCEPT !.read_crc16 = <<>>]
        BY <2>2 DEF Kept
      <3> HIDE DEF c
      <3>2. e \in RL!Readers(S)
        <4>1. <<>> \in Seq(S)
          OBVIOUS
        <4> QED
          BY <1>2, <3>1, <4>1 DEF RL!Readers
      <3>3. /\ e.buffer = c.buffer /\ e.words = c.words /\ e.bytes = c.bytes
            /\ e.consumed_words = c.consumed_words /\ e.consumed_bits = c.consumed_bits
            /\ e.last_seen_framesync = c.last_seen_framesync
        BY <1>2, <3>1 DEF RL!Readers
      <3> QED
        BY <1>2, <3>2, <3>3 DEF RL!SamePlace
    <2> QED
      BY <2>1, <2>2
  <1> HIDE DEF c, e
  <1>4. Good(c, S)
    BY <1>1, <1>2 DEF Good
  <1>5. Good(e, S) /\ SameBytes(e, c) /\ At(e) = At(c)
    BY <1>3, <1>4, GoodStays
  <1> HIDE DEF d
  <1>6. /\ At(b) \in Nat /\ Reader!Consumed(b) = At(b) * BitsPerByte
        /\ At(c) \in Nat /\ Reader!Consumed(c) = At(c) * BitsPerByte
    BY <1>4, GoodPlaces
  <1>7. At(c) = At(b) - d
    BY <1>2, <1>6, SameOperators DEF BitsPerByte
  <1>8. /\ Available(e) = Available(b) - d
        /\ \A a \in 0..(Available(e) - 1) : e.buffer[a] = b.buffer[a + d]
    BY <1>2, <1>5, SameOperators DEF SameBytes, Available
  <1>9. d <= At(b)
    BY <1>2, <1>6, <1>7
  <1>10. ~Reader!FramesyncInBuffer(e)
    BY <1>3, SameOperators DEF Reader!FramesyncInBuffer
  <1>11. d \in Nat /\ Without(e, b, d)
    BY <1>2, <1>5, <1>7, <1>8, <1>9 DEF Without
  <1> QED
    BY <1>5, <1>10, <1>11 DEF e, c

LEMMA FillBytes ==
    ASSUME NEW S, NEW b, Good(b, S), NEW data \in Seq(S),
           Available(b) + Len(data) <= BufferBytes
    PROVE  LET c == Reader!Filled(b, data) IN
           /\ Good(c, S) /\ At(c) = At(b) /\ Lsf(c) = Lsf(b)
           /\ Available(c) = Available(b) + Len(data)
           /\ \A a \in 0..(Available(c) - 1) :
                 c.buffer[a] = IF a < Available(b) THEN b.buffer[a]
                               ELSE data[a - Available(b) + 1]
  <1> DEFINE c == Reader!Filled(b, data)
  <1>1. b \in RL!Readers(S) /\ RL!Sane(b) /\ c = RL!Filled(b, data)
    BY SameFunctions2 DEF Good
  <1>2. RL!Available(b) + Len(data) <= RL!BufferBytes
    BY SameOperators DEF Available
  <1>3. /\ c \in RL!Readers(S) /\ RL!Sane(c)
        /\ c.consumed_words = b.consumed_words /\ c.consumed_bits = b.consumed_bits
        /\ c.last_seen_framesync = b.last_seen_framesync
        /\ RL!Available(c) = RL!Available(b) + Len(data)
        /\ RL!Consumed(c) = RL!Consumed(b)
        /\ \A a \in 0..(RL!Available(c) - 1) :
                 c.buffer[a] = IF a < RL!Available(b) THEN b.buffer[a]
                               ELSE data[a - RL!Available(b) + 1]
    BY <1>1, <1>2, RL!Filling, ReaderSizes
  <1> HIDE DEF c
  <1>4. Good(c, S)
    BY <1>3 DEF Good
  <1> QED
    BY <1>3, <1>4, SameOperators DEF Available, At, Lsf, c

LEMMA FillNothing ==
    ASSUME NEW S, NEW b, Good(b, S)
    PROVE  LET c == Reader!NotFilled(b, <<>>) IN
           /\ Good(c, S) /\ At(c) = At(b) /\ Lsf(c) = Lsf(b) /\ Available(c) = Available(b)
           /\ \A a \in 0..(Available(c) - 1) : c.buffer[a] = b.buffer[a]
  <1> DEFINE c == Reader!NotFilled(b, <<>>)
  <1>1. b \in RL!Readers(S) /\ RL!Sane(b) /\ c = RL!NotFilled(b, <<>>)
    BY SameFunctions2 DEF Good
  <1>2. PICK none \in Seq(S) : none = <<>> /\ Len(none) = 0
    <2>1. <<>> \in Seq(S) /\ Len(<<>>) = 0
      OBVIOUS
    <2> QED
      BY <2>1
  <1>3. RL!Available(b) + Len(none) <= RL!BufferBytes
    BY <1>2, GoodPlaces, SameOperators DEF Available
  <1> DEFINE e == RL!NotFilled(b, none)
  <1>6. c = e
    BY <1>1, <1>2
  <1>7. /\ e \in RL!Readers(S) /\ RL!Sane(e)
        /\ e.consumed_words = b.consumed_words /\ e.consumed_bits = b.consumed_bits
        /\ e.last_seen_framesync = b.last_seen_framesync
        /\ RL!Available(e) = RL!Available(b)
        /\ RL!Consumed(e) = RL!Consumed(b)
        /\ \A a \in 0..(RL!Available(e) - 1) : e.buffer[a] = b.buffer[a]
    <2>1. ASSUME NEW data \in Seq(S), RL!Available(b) + Len(data) <= RL!BufferBytes
          PROVE  LET f == RL!NotFilled(b, data) IN
                 /\ f \in RL!Readers(S) /\ RL!Sane(f)
                 /\ f.consumed_words = b.consumed_words /\ f.consumed_bits = b.consumed_bits
                 /\ f.last_seen_framesync = b.last_seen_framesync
                 /\ RL!Available(f) = RL!Available(b)
                 /\ RL!Consumed(f) = RL!Consumed(b)
                 /\ \A a \in 0..(RL!Available(f) - 1) : f.buffer[a] = b.buffer[a]
      BY <1>1, <2>1, RL!NotFilling, ReaderSizes
    <2> QED
      BY <1>2, <1>3, <2>1
  <1> HIDE DEF e
  <1>4. /\ c \in RL!Readers(S) /\ RL!Sane(c)
        /\ c.consumed_words = b.consumed_words /\ c.consumed_bits = b.consumed_bits
        /\ c.last_seen_framesync = b.last_seen_framesync
        /\ RL!Available(c) = RL!Available(b)
        /\ RL!Consumed(c) = RL!Consumed(b)
        /\ \A a \in 0..(RL!Available(c) - 1) : c.buffer[a] = b.buffer[a]
    BY <1>6, <1>7
  <1> HIDE DEF c
  <1>5. Good(c, S)
    BY <1>4 DEF Good
  <1> QED
    BY <1>4, <1>5, SameOperators DEF Available, At, Lsf, c

-------------------------------------------------------------------------------
(* The reader's place in the file *)

\* The bytes in the buffer that are of the file, and where in the file they begin; at
\* which place the file ends; and the places that a seek gets to when the subtraction in
\* get_decode_position wraps around
OfFile == Available(br) - beyond
FileStart == sramReadAddr - OfFile
FileEnd == Len(input.file)
BelowRegion == (Wrap - BufferBytes)..(Wrap - 1)
SyncSeen == Reader!FramesyncInBuffer(br)

States == {"SEARCH_FOR_METADATA", "READ_METADATA", "SEARCH_FOR_FRAME_SYNC",
           "READ_FRAME", "END_OF_STREAM", "ABORTED", "SEEK_ERROR"}
Points == {"marker", "marker2", "metadata", "skip", "sync", "sync2", "parameters",
           "number", "number2", "blocksize", "crc8", "body", "crc16", "bad",
           "gap", "returned"}
RawBytes == Bytes \cup {Block(n, last) : n \in 0..MaxExtraBody, last \in 0..1}

ControlInv ==
    /\ state \in States /\ pc \in Points
    /\ raw \in Seq(RawBytes) /\ skip \in Nat
    /\ cached \in BOOLEAN /\ lookahead \in Bytes
    /\ pc = "parameters" => Len(raw) \in {2, 3}
    /\ pc \in {"number", "number2"} => Len(raw) >= 3
    /\ pc = "blocksize" => skip > 0
    /\ cached => pc \in {"marker", "sync"}

RegionInv ==
    /\ sram = [a \in Fs!Addr |-> FileByte(a + 1)]
    /\ lengthWord = FileEnd /\ filesize = FileEnd

BufferInv ==
    /\ Good(br, Bytes) /\ beyond \in 0..BufferBytes
    /\ \A a \in 0..(OfFile - 1) : br.buffer[a] = FileByte(FileStart + a + 1)

\* Bytes from behind the file are in the buffer only when all of the file was read. The
\* buffer may begin one byte in front of the file: when the reader was sent to the last
\* address below the region, from where it reads on. The places below that are taken for
\* the end.
TellInv ==
    \/ /\ sramReadAddr \in 0..FileEnd /\ OfFile <= sramReadAddr + 1
       /\ beyond > 0 => sramReadAddr = FileEnd
    \/ /\ sramReadAddr \in BelowRegion /\ Available(br) = 0 /\ beyond = 0
       /\ pc \in {"sync", "returned"} /\ ~cached

LookInv ==
    InFile => /\ cached => lookahead = FileByte(Position)
              /\ pc = "sync2" => FileByte(Position) = FF

\* Behind the second byte of a sync another one was taken before its frame can be bad.
\* That keeps the place behind the remembered one in the buffer.
BehindSync == {"parameters", "sync", "sync2", "returned"}
SyncInv ==
    /\ pc \in Early => last_seen_framesync = 0 /\ ~SyncSeen
    /\ last_seen_framesync \in (0..FileEnd) \cup BelowRegion
    /\ SyncSeen =>
          /\ Lsf(br) <= At(br)
          /\ pc \notin BehindSync => Lsf(br) < At(br)
          /\ beyond = 0 => FileStart + Lsf(br) = last_seen_framesync
    /\ InFrame /\ last_seen_framesync # 0 =>
          /\ beyond = 0 => /\ FileByte(last_seen_framesync) = Sync2
                           /\ FileByte(last_seen_framesync - 1) = FF
          /\ SyncSeen /\ Lsf(br) > 0 => br.buffer[Lsf(br) - 1] = Sync2

ReaderInv ==
    ControlInv /\ RegionInv /\ BufferInv /\ TellInv /\ LookInv /\ SyncInv

\* What is in a file
LEMMA FileIsBytes ==
    ASSUME input \in Inputs
    PROVE  /\ FileEnd \in Nat /\ FileEnd <= Capacity
           /\ \A p \in Int : FileByte(p) \in Bytes
           /\ \A x \in RawBytes : x.at \in Nat /\ x.of \in Nat
           /\ \A x \in RawBytes : x.is = "parameters" => x.of \in 1..Len(Frames)
           /\ FF \in Bytes /\ Sync2 \in Bytes /\ Other \in Bytes /\ Marker \in Bytes
           /\ \A n \in 0..MaxExtraBody, last \in 0..1 : Block(n, last) \in RawBytes
           /\ Bytes \subseteq RawBytes
           /\ \A f \in 1..Len(Frames) : Frames[f].hints \in Nat
  <1> DEFINE AnyByte == [is : STRING, of : Nat, at : Nat]
             Some == [size : Nat \ {0}, body : Seq(AnyByte) \ {<<>>}, hints : 0..MaxExtraBody,
                      verbatim : BOOLEAN, future : BOOLEAN]
             file == input.file
  <1>1. /\ file \in Seq(AnyByte) /\ Len(file) <= Capacity
        /\ Frames \in Seq(Some)
        /\ \A i \in 1..Len(file) : file[i].is = "parameters" => file[i].of \in 1..Len(Frames)
    BY InputsAssumption DEF Frames
  <1>2. \A x \in AnyByte : x.at \in Nat /\ x.of \in Nat
    OBVIOUS
  <1>3. \A f \in Some : f.hints \in Nat
    OBVIOUS
  <1> HIDE DEF AnyByte, Some
  <1>4. FileEnd \in Nat /\ FileEnd = Len(file) /\ \A i \in 1..Len(file) : file[i] \in AnyByte
    BY <1>1 DEF FileEnd
  <1>5. \A f \in 1..Len(Frames) : Frames[f].hints \in Nat
    BY <1>1, <1>3
  <1>6. FF \in Bytes /\ Sync2 \in Bytes /\ Other \in Bytes /\ Marker \in Bytes
        /\ \A i \in 1..Len(file) : file[i] \in Bytes
    BY DEF Bytes
  <1>7. \A p \in Int : FileByte(p) \in Bytes
    BY <1>6 DEF FileByte
  <1>8. MaxExtraBody \in Nat
    BY DecoderAssumption
  <1>9. ASSUME NEW x \in RawBytes
        PROVE  /\ x.at \in Nat /\ x.of \in Nat
               /\ x.is = "parameters" => x.of \in 1..Len(Frames)
    <2>1. CASE x \in {FF, Sync2, Other, Marker}
      BY <2>1 DEF FF, Sync2, Other, Marker, Byte
    <2>2. CASE \E i \in 1..Len(file) : x = file[i]
      BY <1>1, <1>2, <1>4, <2>2
    <2>3. CASE \E n \in 0..MaxExtraBody, last \in 0..1 : x = Block(n, last)
      BY <1>8, <2>3 DEF Block, Byte
    <2> QED
      BY <2>1, <2>2, <2>3 DEF RawBytes, Bytes
  <1>10. /\ \A n \in 0..MaxExtraBody, last \in 0..1 : Block(n, last) \in RawBytes
         /\ Bytes \subseteq RawBytes
    BY DEF RawBytes
  <1> QED
    BY <1>1, <1>4, <1>5, <1>6, <1>7, <1>9, <1>10

LEMMA FileStays ==
    ASSUME UNCHANGED input
    PROVE  /\ Bytes' = Bytes /\ RawBytes' = RawBytes /\ FileEnd' = FileEnd
           /\ Frames' = Frames
           /\ \A p : FileByte(p)' = FileByte(p)
  BY DEF Bytes, RawBytes, FileEnd, Frames, FileByte

\* Where the reader is, in numbers
LEMMA PlacesInFile ==
    ASSUME input \in Inputs, BufferInv, TellInv
    PROVE  /\ At(br) \in Nat /\ Available(br) \in Nat /\ At(br) <= Available(br)
           /\ Available(br) <= BufferBytes /\ BufferBytes \in Nat \ {0}
           /\ NextAt = At(br) /\ Unread = Available(br) - At(br)
           /\ sramReadAddr \in Nat /\ sramReadAddr < Wrap /\ OfFile \in Int /\ FileStart \in Int
           /\ Position = FileStart + At(br) /\ (InFile <=> At(br) <= OfFile)
           /\ Lsf(br) \in Nat /\ beyond \in Nat
           /\ Ready <=> Reads * BitsPerByte <= (Available(br) - At(br)) * BitsPerByte
  <1>1. /\ At(br) \in Nat /\ Available(br) \in Nat /\ At(br) <= Available(br)
        /\ Available(br) <= BufferBytes /\ BufferBytes \in Nat \ {0}
        /\ Reader!Unconsumed(br) \div BitsPerByte = Available(br) - At(br)
        /\ Reader!Unconsumed(br) = (Available(br) - At(br)) * BitsPerByte
        /\ Lsf(br) \in Nat /\ beyond \in Nat
    BY GoodPlaces DEF BufferInv
  <1>2. sramReadAddr \in Nat /\ sramReadAddr < Wrap
    <2>1. FileEnd \in Nat /\ FileEnd <= Capacity
      BY FileIsBytes
    <2>2. BufferBytes <= Wrap /\ Capacity < Wrap /\ Wrap \in Nat /\ Capacity \in Nat
      BY DecoderAssumption, ReaderSizes
    <2>3. sramReadAddr \in 0..FileEnd \/ sramReadAddr \in BelowRegion
      BY DEF TellInv
    <2>4. BufferBytes \in Nat
      BY <1>1
    <2> QED
      BY <2>1, <2>2, <2>3, <2>4 DEF BelowRegion
  <1>3. OfFile \in Int /\ FileStart \in Int
    BY <1>1, <1>2 DEF OfFile, FileStart
  <1>4. NextAt = At(br) /\ Unread = Available(br) - At(br)
    BY <1>1 DEF NextAt, At, Unread
  <1>5. Position = FileStart + At(br) /\ (InFile <=> At(br) <= OfFile)
    BY <1>1, <1>2, <1>3, <1>4 DEF Position, UnreadOfFile, FileStart, OfFile, InFile
  <1> QED
    BY <1>1, <1>2, <1>3, <1>4, <1>5 DEF Ready

\* The next byte is that of the file, as long as the file has one.
LEMMA NextByte ==
    ASSUME input \in Inputs, BufferInv, TellInv
    PROVE  /\ Next1(1) = br.buffer[At(br)]
           /\ At(br) < Available(br) => Next1(1) \in Bytes
           /\ At(br) < OfFile => Next1(1) = FileByte(Position + 1)
  <1>1. /\ At(br) \in Nat /\ Available(br) \in Nat /\ Available(br) <= BufferBytes
        /\ OfFile \in Int /\ FileStart \in Int /\ Position = FileStart + At(br)
        /\ BufferBytes \in Nat
    BY PlacesInFile
  <1>2. Next1(1) = br.buffer[At(br)]
    BY <1>1 DEF Next1, At
  <1>3. br.buffer \in [0..(BufferBytes - 1) -> Bytes]
    BY GoodPlaces DEF BufferInv
  <1>4. At(br) < Available(br) => At(br) \in 0..(BufferBytes - 1)
    BY <1>1
  <1>5. ASSUME At(br) < OfFile
        PROVE  br.buffer[At(br)] = FileByte(Position + 1)
    <2>1. At(br) \in 0..(OfFile - 1)
      BY <1>1, <1>5
    <2> QED
      BY <1>1, <2>1 DEF BufferInv
  <1> QED
    BY <1>2, <1>3, <1>4, <1>5

-------------------------------------------------------------------------------
(* Steps within the buffer *)

\* The buffer is what it was, and the reader is somewhere in it.
LEMMA Staying ==
    ASSUME input \in Inputs, RegionInv, BufferInv, TellInv, UNCHANGED fileVars,
           Good(br', Bytes), SameBytes(br', br),
           Available(br) = 0 /\ pc \in {"sync", "returned"} /\ ~cached =>
               pc' \in {"sync", "returned"} /\ ~cached'
    PROVE  /\ RegionInv' /\ BufferInv' /\ TellInv'
           /\ OfFile' = OfFile /\ FileStart' = FileStart /\ FileEnd' = FileEnd
           /\ Position' = FileStart + At(br') /\ (InFile' <=> At(br') <= OfFile)
  <1>1. UNCHANGED <<input, beyond, sram, lengthWord, sramReadAddr, filesize>>
    BY DEF fileVars, fsVars
  <1>2. Bytes' = Bytes /\ FileEnd' = FileEnd /\ \A p : FileByte(p)' = FileByte(p)
    BY <1>1, FileStays
  <1>3. RegionInv'
    BY <1>1, <1>2 DEF RegionInv
  <1>4. Available(br') = Available(br) /\ br'.buffer = br.buffer
    BY DEF SameBytes
  <1>5. OfFile' = OfFile /\ FileStart' = FileStart
    BY <1>1, <1>4 DEF OfFile, FileStart
  <1>6. BufferInv'
    <2>1. Good(br', Bytes') /\ beyond' \in 0..BufferBytes
      BY <1>1, <1>2 DEF BufferInv
    <2>2. ASSUME NEW a \in 0..(OfFile' - 1)
          PROVE  br'.buffer[a] = FileByte(FileStart + a + 1)'
      BY <1>2, <1>4, <1>5 DEF BufferInv, FileByte
    <2> QED
      BY <2>1, <2>2 DEF BufferInv
  <1>7. TellInv'
    BY <1>1, <1>2, <1>4, <1>5 DEF TellInv
  <1>8. /\ At(br') \in Nat /\ Available(br') \in Nat
        /\ Reader!Unconsumed(br') \div BitsPerByte = Available(br') - At(br')
    BY GoodPlaces
  <1>9. /\ sramReadAddr \in Nat /\ beyond \in Nat /\ OfFile \in Int /\ FileStart \in Int
    BY PlacesInFile
  <1>10. Unread' = Available(br') - At(br')
    BY <1>8 DEF Unread
  <1>11. Position' = FileStart + At(br') /\ (InFile' <=> At(br') <= OfFile)
    BY <1>1, <1>4, <1>8, <1>9, <1>10 DEF Position, UnreadOfFile, FileStart, OfFile, InFile
  <1> QED
    BY <1>2, <1>3, <1>5, <1>6, <1>7, <1>11

\* What a reader takes from the buffer
LEMMA Taking ==
    ASSUME input \in Inputs, BufferInv, TellInv,
           NEW k \in Nat, k <= Available(br) - At(br), br' = Reader!Consume(br, k * BitsPerByte)
    PROVE  /\ Good(br', Bytes) /\ SameBytes(br', br)
           /\ At(br') = At(br) + k /\ Lsf(br') = Lsf(br)
  BY ConsumeBytes DEF BufferInv

\* The remembered sync stays where it was.
LEMMA SyncStays ==
    ASSUME SyncInv, UNCHANGED <<input, beyond, last_seen_framesync>>,
           FileStart' = FileStart, br'.buffer = br.buffer, Lsf(br') = Lsf(br),
           pc' \in Early => pc \in Early, InFrame' => InFrame,
           SyncSeen => /\ Lsf(br) <= At(br')
                       /\ pc' \notin BehindSync => Lsf(br) < At(br')
    PROVE  SyncInv'
  <1>1. SyncSeen' = SyncSeen
    BY DEF SyncSeen, Reader!FramesyncInBuffer, Lsf
  <1>2. FileEnd' = FileEnd /\ \A p : FileByte(p)' = FileByte(p)
    BY FileStays
  <1> QED
    BY <1>1, <1>2 DEF SyncInv

\* A step that reads k bytes, keeps at most the last of them to look at again, and does
\* not search for a sync
LEMMA ReadingStep ==
    ASSUME input \in Inputs, ReaderInv, UNCHANGED <<fileVars, last_seen_framesync>>,
           NEW k \in Nat, k <= Available(br) - At(br),
           Good(br', Bytes), SameBytes(br', br), At(br') = At(br) + k, Lsf(br') = Lsf(br),
           InFrame' => InFrame, pc' \in Early => pc \in Early,
           pc' # "sync2", pc \in BehindSync /\ pc' \notin BehindSync => k > 0,
           cached' => k = 1 /\ lookahead' = Next1(1),
           k = 0 => (pc \in {"sync", "returned"} => pc' \in {"sync", "returned"})
    PROVE  RegionInv' /\ BufferInv' /\ TellInv' /\ LookInv' /\ SyncInv'
  <1>1. RegionInv /\ BufferInv /\ TellInv /\ SyncInv
    BY DEF ReaderInv
  <1>2. /\ At(br) \in Nat /\ Available(br) \in Nat /\ At(br) <= Available(br)
        /\ OfFile \in Int /\ FileStart \in Int /\ Position = FileStart + At(br)
        /\ Lsf(br) \in Nat
    BY <1>1, PlacesInFile
  <1>3. Available(br) = 0 => k = 0
    BY <1>2
  <1>4. /\ RegionInv' /\ BufferInv' /\ TellInv'
        /\ FileStart' = FileStart
        /\ Position' = FileStart + At(br') /\ (InFile' <=> At(br') <= OfFile)
    BY <1>1, <1>3, Staying
  <1>5. LookInv'
    <2>1. ASSUME InFile', cached'
          PROVE  lookahead' = FileByte(Position)'
      <3>1. At(br) < OfFile /\ Position' = Position + 1 /\ Position + 1 \in Int
        BY <1>2, <1>4, <2>1
      <3>2. lookahead' = FileByte(Position + 1)
        BY <1>1, <2>1, <3>1, NextByte
      <3> QED
        BY <3>1, <3>2 DEF FileByte, fileVars
    <2> QED
      BY <2>1 DEF LookInv
  <1>6. SyncInv'
    <2>1. SyncSeen => /\ Lsf(br) <= At(br')
                      /\ pc' \notin BehindSync => Lsf(br) < At(br')
      BY <1>1, <1>2 DEF SyncInv
    <2>2. UNCHANGED <<input, beyond>> /\ br'.buffer = br.buffer
      BY DEF fileVars, SameBytes
    <2> QED
      BY <1>1, <1>4, <2>1, <2>2, SyncStays
  <1> QED
    BY <1>4, <1>5, <1>6

\* What is there when a step is ready to read
LEMMA Reading ==
    ASSUME input \in Inputs, ReaderInv, Ready, Read, NEW k \in Nat, Reads = k
    PROVE  /\ k <= Available(br) - At(br)
           /\ Good(br', Bytes) /\ SameBytes(br', br)
           /\ At(br') = At(br) + k /\ Lsf(br') = Lsf(br)
  <1>1. BufferInv /\ TellInv
    BY DEF ReaderInv
  <1>2. /\ At(br) \in Nat /\ Available(br) \in Nat
        /\ k * BitsPerByte <= (Available(br) - At(br)) * BitsPerByte
    BY <1>1, PlacesInFile
  <1>3. k <= Available(br) - At(br)
    BY <1>2 DEF BitsPerByte
  <1>4. br' = Reader!Consume(br, k * BitsPerByte)
    BY DEF Read
  <1> QED
    BY <1>1, <1>3, <1>4, Taking

\* One byte, which is in the buffer
LEMMA ReadingOne ==
    ASSUME input \in Inputs, ReaderInv, Ready, Reads = 1
    PROVE  /\ 1 <= Available(br) - At(br) /\ Next1(1) \in Bytes
           /\ LET b == Reader!Consume(br, BitsPerByte) IN
              Good(b, Bytes) /\ SameBytes(b, br) /\ At(b) = At(br) + 1 /\ Lsf(b) = Lsf(br)
           /\ Read => br' = Reader!Consume(br, BitsPerByte)
  <1>1. BufferInv /\ TellInv
    BY DEF ReaderInv
  <1>2. /\ At(br) \in Nat /\ Available(br) \in Nat
        /\ 1 * BitsPerByte <= (Available(br) - At(br)) * BitsPerByte
    BY <1>1, PlacesInFile
  <1>3. 1 <= Available(br) - At(br) /\ At(br) < Available(br)
    BY <1>2 DEF BitsPerByte
  <1>4. Next1(1) \in Bytes
    BY <1>1, <1>3, NextByte
  <1>5. PICK k \in Nat : k = 1
    OBVIOUS
  <1>6. k * BitsPerByte = BitsPerByte
    BY <1>5 DEF BitsPerByte
  <1>7. Good(br, Bytes)
    BY <1>1 DEF BufferInv
  <1>8. LET b == Reader!Consume(br, k * BitsPerByte) IN
        Good(b, Bytes) /\ SameBytes(b, br) /\ At(b) = At(br) + k /\ Lsf(b) = Lsf(br)
    BY <1>3, <1>5, <1>7, ConsumeBytes
  <1>9. Read => br' = Reader!Consume(br, BitsPerByte)
    BY <1>5, <1>6 DEF Read
  <1> QED
    BY <1>3, <1>4, <1>5, <1>6, <1>8, <1>9

LEMMA TakingStep ==
    ASSUME input \in Inputs, ReaderInv, Ready, Take, pc \in {"marker", "sync"}
    PROVE  \E k \in 0..1 :
              /\ k <= Available(br) - At(br) /\ (cached <=> k = 0)
              /\ Good(br', Bytes) /\ SameBytes(br', br)
              /\ At(br') = At(br) + k /\ Lsf(br') = Lsf(br)
              /\ cached' = FALSE /\ lookahead' = lookahead
              /\ At(br) + k <= OfFile => Taken = FileByte(FileStart + At(br) + k)
  <1>1. BufferInv /\ TellInv /\ LookInv /\ ControlInv
    BY DEF ReaderInv
  <1>2. /\ At(br) \in Nat /\ Available(br) \in Nat /\ At(br) <= Available(br)
        /\ OfFile \in Int /\ FileStart \in Int /\ Position = FileStart + At(br)
        /\ (InFile <=> At(br) <= OfFile)
    BY <1>1, PlacesInFile
  <1>3. CASE cached
    <2>1. br' = br /\ lookahead' = lookahead /\ cached' = FALSE /\ Taken = lookahead
      BY <1>3 DEF Take, Taken
    <2>2. Good(br, Bytes) /\ SameBytes(br, br)
      BY <1>1 DEF BufferInv, SameBytes
    <2>3. At(br) + 0 <= OfFile => Taken = FileByte(FileStart + At(br) + 0)
      BY <1>1, <1>2, <1>3, <2>1 DEF LookInv
    <2>4. 0 <= Available(br) - At(br) /\ At(br') = At(br) + 0 /\ 0 \in 0..1
      BY <1>2, <2>1
    <2>5. /\ Good(br', Bytes) /\ SameBytes(br', br) /\ Lsf(br') = Lsf(br)
          /\ cached' = FALSE /\ lookahead' = lookahead /\ (cached <=> 0 = 0)
      BY <1>3, <2>1, <2>2
    <2> WITNESS 0 \in 0..1
    <2> QED
      BY <2>3, <2>4, <2>5
  <1>4. CASE ~cached
    <2>1. Read /\ lookahead' = lookahead /\ cached' = FALSE /\ Taken = Next1(1) /\ Reads = 1
      BY <1>1, <1>4 DEF Take, Taken, Reads, ControlInv
    <2>2. /\ 1 <= Available(br) - At(br)
          /\ Good(br', Bytes) /\ SameBytes(br', br)
          /\ At(br') = At(br) + 1 /\ Lsf(br') = Lsf(br)
      BY <2>1, Reading
    <2>3. At(br) + 1 <= OfFile => Taken = FileByte(FileStart + At(br) + 1)
      BY <1>1, <1>2, <2>1, NextByte
    <2> QED
      BY <1>4, <2>1, <2>2, <2>3
  <1> QED
    BY <1>3, <1>4

-------------------------------------------------------------------------------
(* The steps of the search for metadata and of metadata *)

LEMMA FindMetadataKeeps ==
    ASSUME input \in Inputs, ReaderInv, FindMetadata
    PROVE  ReaderInv'
  <1>1. /\ pc = "marker" /\ Ready /\ Take /\ UNCHANGED <<fileVars, raw, skip, last_seen_framesync>>
        /\ pc' \in {"metadata", "marker2", "marker"}
        /\ state' = "READ_METADATA" \/ state' = state
    BY DEF FindMetadata
  <1>2. PICK k \in 0..1 :
              /\ k <= Available(br) - At(br)
              /\ Good(br', Bytes) /\ SameBytes(br', br)
              /\ At(br') = At(br) + k /\ Lsf(br') = Lsf(br)
              /\ cached' = FALSE /\ lookahead' = lookahead
    BY <1>1, TakingStep
  <1>3. RegionInv' /\ BufferInv' /\ TellInv' /\ LookInv' /\ SyncInv'
    BY <1>1, <1>2, ReadingStep DEF Early, BehindSync, InFrame
  <1>4. ControlInv'
    BY <1>1, <1>2, FileStays DEF ReaderInv, ControlInv, States, Points, fileVars
  <1> QED
    BY <1>3, <1>4 DEF ReaderInv

LEMMA ReadMetadataKeeps ==
    ASSUME input \in Inputs, ReaderInv, ReadMetadata
    PROVE  ReaderInv'
  <1>1. /\ pc = "metadata" /\ Ready /\ Read /\ UNCHANGED <<fileVars, syncVars>>
        /\ pc' \in {"metadata", "skip", "sync"}
        /\ state' = "SEARCH_FOR_FRAME_SYNC" \/ state' = state
    BY DEF ReadMetadata, AfterBlock
  <1>2. Reads = 1
    BY <1>1 DEF Reads
  <1>3. /\ 1 <= Available(br) - At(br)
        /\ Good(br', Bytes) /\ SameBytes(br', br)
        /\ At(br') = At(br) + 1 /\ Lsf(br') = Lsf(br) /\ Next1(1) \in Bytes
    BY <1>1, <1>2, Reading, ReadingOne
  <1>4. ~cached /\ ControlInv
    BY <1>1 DEF ReaderInv, ControlInv
  <1>5. RegionInv' /\ BufferInv' /\ TellInv' /\ LookInv' /\ SyncInv'
    BY <1>1, <1>3, <1>4, ReadingStep DEF Early, BehindSync, InFrame, syncVars
  <1>6. raw' \in Seq(RawBytes) /\ skip' \in Nat
    <2>1. CASE UNCHANGED <<raw, skip>>
      BY <1>4, <2>1 DEF ControlInv
    <2>2. CASE skip' = Next1(1).at /\ raw' = <<Next1(1)>>
      <3>1. Next1(1) \in RawBytes /\ Next1(1).at \in Nat
        BY <1>3, FileIsBytes
      <3> QED
        BY <2>2, <3>1
    <2>3. ASSUME NEW n \in 0..MaxExtraBody, NEW last \in 0..1, skip' = n, raw' = <<Block(n, last)>>
          PROVE  raw' \in Seq(RawBytes) /\ skip' \in Nat
      <3>1. Block(n, last) \in RawBytes /\ n \in Nat
        BY FileIsBytes, DecoderAssumption
      <3> QED
        BY <2>3, <3>1
    <2> QED
      BY <2>1, <2>2, <2>3 DEF ReadMetadata
  <1>7. ControlInv'
    BY <1>1, <1>4, <1>6, FileStays DEF ControlInv, States, Points, fileVars, syncVars
  <1> QED
    BY <1>5, <1>7 DEF ReaderInv

LEMMA SkipBlockKeeps ==
    ASSUME input \in Inputs, ReaderInv, SkipBlock
    PROVE  ReaderInv'
  <1>1. /\ pc = "skip" /\ Ready /\ Read /\ UNCHANGED <<fileVars, syncVars>>
        /\ pc' \in {"metadata", "skip", "sync"}
        /\ state' = "SEARCH_FOR_FRAME_SYNC" \/ state' = state
        /\ raw' \in {raw, <<>>}
        /\ IF skip > 0 THEN skip' = skip - 1 ELSE skip' = skip
    BY DEF SkipBlock, AfterBlock
  <1>2. ControlInv
    BY DEF ReaderInv
  <1>3. Reads = IF skip = 0 THEN 0 ELSE 1
    BY <1>1 DEF Reads
  <1>4. PICK k \in 0..1 : Reads = k
    BY <1>3
  <1>5. /\ k <= Available(br) - At(br)
        /\ Good(br', Bytes) /\ SameBytes(br', br)
        /\ At(br') = At(br) + k /\ Lsf(br') = Lsf(br)
    BY <1>1, <1>4, Reading
  <1>6. ~cached
    BY <1>1, <1>2 DEF ControlInv
  <1>7. RegionInv' /\ BufferInv' /\ TellInv' /\ LookInv' /\ SyncInv'
    BY <1>1, <1>5, <1>6, ReadingStep DEF Early, BehindSync, InFrame, syncVars
  <1>8. raw' \in Seq(RawBytes) /\ skip' \in Nat
    <2>1. raw \in Seq(RawBytes) /\ <<>> \in Seq(RawBytes) /\ skip \in Nat
      BY <1>2 DEF ControlInv
    <2>2. raw' = raw \/ raw' = <<>>
      BY <1>1
    <2>3. skip' \in Nat
      BY <1>1, <2>1
    <2> QED
      BY <2>1, <2>2, <2>3
  <1>9. ControlInv'
    BY <1>1, <1>2, <1>8, FileStays DEF ControlInv, States, Points, fileVars, syncVars
  <1> QED
    BY <1>7, <1>9 DEF ReaderInv

\* A sync that is not remembered, in front of any metadata
LEMMA FindMetadata2Keeps ==
    ASSUME input \in Inputs, ReaderInv, FindMetadata2
    PROVE  ReaderInv'
  <1> DEFINE b == Reader!Consume(br, BitsPerByte)
  <1>1. /\ pc = "marker2" /\ Ready /\ UNCHANGED <<fileVars, skip, last_seen_framesync>>
        /\ \/ StartFrame(b) /\ UNCHANGED <<cached, lookahead>>
           \/ /\ Next1(1) = FF /\ LookAhead(FF) /\ Read
              /\ pc' = "marker" /\ UNCHANGED <<state, raw>>
           \/ Read /\ pc' = "marker" /\ UNCHANGED <<state, raw, cached, lookahead>>
    BY DEF FindMetadata2
  <1>2. Reads = 1
    BY <1>1 DEF Reads
  <1>3. ControlInv /\ SyncInv /\ ~cached
    BY <1>1 DEF ReaderInv, ControlInv
  <1>4. /\ 1 <= Available(br) - At(br)
        /\ Good(b, Bytes) /\ SameBytes(b, br) /\ At(b) = At(br) + 1 /\ Lsf(b) = Lsf(br)
        /\ Read => br' = b
    BY <1>1, <1>2, ReadingOne
  <1> HIDE DEF b
  <1>5. FF \in Bytes /\ Sync2 \in Bytes /\ Bytes \subseteq RawBytes
    BY FileIsBytes
  <1>6. CASE StartFrame(b) /\ UNCHANGED <<cached, lookahead>>
    <2>1. /\ state' = "READ_FRAME" /\ pc' = "parameters" /\ raw' = <<FF, Sync2>>
          /\ br' = Reader!ResetReadCrc16(b, <<FF, Sync2>>)
      BY <1>6 DEF StartFrame
    <2>2. <<FF, Sync2>> \in Seq(Bytes) /\ <<FF, Sync2>> \in Seq(RawBytes) /\ Len(<<FF, Sync2>>) = 2
      BY <1>5
    <2>3. Good(br', Bytes) /\ SameBytes(br', b) /\ At(br') = At(b) /\ Lsf(br') = Lsf(b)
      BY <1>4, <2>1, <2>2, ResetCrc
    <2>4. SameBytes(br', br) /\ At(br') = At(br) + 1 /\ Lsf(br') = Lsf(br)
      BY <1>4, <2>3 DEF SameBytes
    <2>5. BufferInv /\ TellInv /\ RegionInv
      BY DEF ReaderInv
    <2>6. RegionInv' /\ BufferInv' /\ TellInv'
      BY <1>1, <2>3, <2>4, <2>5, Staying
    <2>7. LookInv' /\ ControlInv'
      BY <1>1, <1>3, <1>6, <2>1, <2>2, FileStays
      DEF LookInv, ControlInv, States, Points, fileVars
    <2>8. ~SyncSeen /\ last_seen_framesync = 0
      BY <1>1, <1>3 DEF SyncInv, Early
    <2>9. ~SyncSeen'
      BY <2>4, <2>8 DEF SyncSeen, Reader!FramesyncInBuffer, Lsf
    <2>10. SyncInv'
      BY <1>1, <1>3, <2>1, <2>8, <2>9, FileStays DEF SyncInv, Early, fileVars
    <2> QED
      BY <2>6, <2>7, <2>10 DEF ReaderInv
  <1>7. CASE Read /\ pc' = "marker" /\ UNCHANGED <<state, raw>>
             /\ (UNCHANGED <<cached, lookahead>> \/ (LookAhead(FF) /\ Next1(1) = FF))
    <2>1. cached' => lookahead' = Next1(1)
      BY <1>3, <1>7 DEF LookAhead
    <2>2. br' = b
      BY <1>4, <1>7
    <2>3. RegionInv' /\ BufferInv' /\ TellInv' /\ LookInv' /\ SyncInv'
      BY <1>1, <1>4, <1>7, <2>1, <2>2, ReadingStep DEF Early, BehindSync, InFrame
    <2>4. ControlInv'
      BY <1>1, <1>3, <1>5, <1>7, FileStays
      DEF ControlInv, States, Points, fileVars, LookAhead
    <2> QED
      BY <2>3, <2>4 DEF ReaderInv
  <1> QED
    BY <1>1, <1>6, <1>7

-------------------------------------------------------------------------------
(* The steps of frame_sync_ *)

LEMMA SearchSyncKeeps ==
    ASSUME input \in Inputs, ReaderInv, SearchSync
    PROVE  ReaderInv'
  <1>1. /\ pc = "sync" /\ Ready /\ Take
        /\ pc' = IF Taken = FF THEN "sync2" ELSE "sync"
        /\ UNCHANGED <<fileVars, state, raw, skip, last_seen_framesync>>
    BY DEF SearchSync
  <1>2. RegionInv /\ BufferInv /\ TellInv /\ SyncInv /\ ControlInv
    BY DEF ReaderInv
  <1>3. /\ At(br) \in Nat /\ Available(br) \in Nat /\ At(br) <= Available(br)
        /\ OfFile \in Int /\ FileStart \in Int /\ Position = FileStart + At(br)
        /\ Lsf(br) \in Nat
    BY <1>2, PlacesInFile
  <1>4. PICK k \in 0..1 :
              /\ k <= Available(br) - At(br) /\ (cached => k = 0)
              /\ Good(br', Bytes) /\ SameBytes(br', br)
              /\ At(br') = At(br) + k /\ Lsf(br') = Lsf(br)
              /\ cached' = FALSE /\ lookahead' = lookahead
              /\ At(br) + k <= OfFile => Taken = FileByte(FileStart + At(br) + k)
    BY <1>1, TakingStep
  <1>5. ~cached => k = 1
    <2>1. CASE ~cached
      <3>1. Reads = 1 /\ Read
        BY <1>1, <2>1 DEF Reads, Take
      <3>2. At(br') = At(br) + 1
        BY <1>1, <3>1, Reading
      <3> QED
        BY <1>3, <1>4, <3>2
    <2> QED
      BY <2>1
  <1>6. /\ RegionInv' /\ BufferInv' /\ TellInv' /\ FileStart' = FileStart
        /\ Position' = FileStart + At(br') /\ (InFile' <=> At(br') <= OfFile)
    <2>1. ~(Available(br) = 0 /\ ~cached)
      BY <1>3, <1>4, <1>5
    <2> QED
      BY <1>1, <1>2, <1>4, <2>1, Staying
  <1>7. LookInv'
    <2>1. ASSUME InFile', pc' = "sync2"
          PROVE  FileByte(Position)' = FF
      <3>1. Taken = FF
        BY <1>1, <2>1
      <3>2. FileByte(FileStart + At(br) + k) = FF /\ Position' = FileStart + At(br) + k
        BY <1>3, <1>4, <1>6, <2>1, <3>1
      <3> QED
        BY <1>1, <3>2 DEF FileByte, fileVars
    <2> QED
      BY <1>4, <2>1 DEF LookInv
  <1>8. SyncInv'
    <2>1. SyncSeen => /\ Lsf(br) <= At(br')
                      /\ pc' \notin BehindSync => Lsf(br) < At(br')
      BY <1>1, <1>2, <1>3, <1>4 DEF SyncInv, BehindSync
    <2>2. /\ UNCHANGED <<input, beyond>> /\ br'.buffer = br.buffer
          /\ (pc' \in Early => pc \in Early) /\ (InFrame' => InFrame)
      BY <1>1, <1>4 DEF fileVars, SameBytes, Early, InFrame
    <2> QED
      BY <1>1, <1>2, <1>4, <1>6, <2>1, <2>2, SyncStays
  <1>9. ControlInv'
    BY <1>1, <1>2, <1>4, FileStays DEF ControlInv, States, Points, fileVars
  <1> QED
    BY <1>6, <1>7, <1>8, <1>9 DEF ReaderInv

\* The place right behind a sync is where the decoder reads next.
LEMMA SyncIsRemembered ==
    ASSUME input \in Inputs, ReaderInv, pc = "sync2", At(br) < Available(br), Next1(1) = Sync2,
           UNCHANGED fileVars,
           Good(br', Bytes), SameBytes(br', br), At(br') = At(br) + 1, Lsf(br') = At(br) + 1,
           last_seen_framesync' =
               Fs!Minus(sramReadAddr, Available(br) - At(br) - 1),
           pc' = "parameters"
    PROVE  SyncInv'
  <1>1. BufferInv /\ TellInv /\ LookInv
    BY DEF ReaderInv
  <1>2. /\ At(br) \in Nat /\ Available(br) \in Nat /\ Available(br) <= BufferBytes
        /\ BufferBytes \in Nat /\ sramReadAddr \in Nat
        /\ OfFile \in Int /\ FileStart \in Int /\ Position = FileStart + At(br)
        /\ (InFile <=> At(br) <= OfFile) /\ beyond \in Nat
    BY <1>1, PlacesInFile
  <1>3. FileEnd \in Nat /\ FileEnd <= Capacity
    BY FileIsBytes
  <1>4. /\ Wrap \in Nat /\ Capacity \in Nat /\ BufferBytes + Capacity < Wrap
    <2>1. BufferBytes = BytesPerWord * BufferWords /\ BufferBytes \in Nat
      BY ReaderSizes
    <2> QED
      BY <2>1, DecoderAssumption
  <1>5. /\ sramReadAddr \in 0..FileEnd /\ OfFile <= sramReadAddr + 1
        /\ beyond > 0 => sramReadAddr = FileEnd
    BY <1>1, <1>2 DEF TellInv
  <1> DEFINE unread == Available(br) - At(br) - 1
             place == Fs!Minus(sramReadAddr, unread)
  <1>6. unread \in 0..(BufferBytes - 1)
    BY <1>2
  <1>7. place = IF unread <= sramReadAddr THEN sramReadAddr - unread
                ELSE Wrap + sramReadAddr - unread
    BY DEF Fs!Minus
  <1>8. place \in (0..FileEnd) \cup BelowRegion
    <2>1. CASE unread <= sramReadAddr
      <3>1. place = sramReadAddr - unread /\ unread \in Nat
        BY <1>6, <1>7, <2>1
      <3> HIDE DEF place, unread
      <3> QED
        BY <1>3, <1>5, <2>1, <3>1
    <2>2. CASE ~(unread <= sramReadAddr)
      <3>1. place = Wrap + sramReadAddr - unread
        BY <1>7, <2>2
      <3> HIDE DEF place, unread
      <3>2. place >= Wrap - BufferBytes /\ place <= Wrap - 1 /\ place \in Int
        BY <1>2, <1>4, <1>6, <2>2, <3>1
      <3> QED
        BY <1>2, <1>4, <3>2 DEF BelowRegion
    <2> QED
      BY <2>1, <2>2
  <1>9. beyond = 0 => /\ OfFile = Available(br) /\ unread <= sramReadAddr
                      /\ place = FileStart + At(br) + 1
    <2>1. beyond = 0 => OfFile = Available(br) /\ FileStart = sramReadAddr - Available(br)
      BY <1>2 DEF OfFile, FileStart
    <2>2. beyond = 0 => unread <= sramReadAddr
      BY <1>2, <1>5, <2>1
    <2> QED
      BY <1>2, <1>7, <2>1, <2>2
  <1> HIDE DEF place, unread
  <1>10. last_seen_framesync' = place /\ Lsf(br') = At(br')
    BY DEF place, unread
  <1>11. /\ FileStart' = FileStart /\ FileEnd' = FileEnd
         /\ \A p : FileByte(p)' = FileByte(p) /\ UNCHANGED <<input, beyond>>
    <2>1. FileEnd' = FileEnd /\ \A p : FileByte(p)' = FileByte(p)
      BY FileStays DEF fileVars
    <2> QED
      BY <2>1 DEF FileStart, OfFile, fileVars, fsVars, SameBytes
  <1>12. beyond = 0 => FileByte(place) = Sync2 /\ FileByte(place - 1) = FF
    <2>1. ASSUME beyond = 0
          PROVE  FileByte(place) = Sync2 /\ FileByte(place - 1) = FF
      <3>1. place = Position + 1 /\ place - 1 = Position /\ At(br) < OfFile /\ InFile
        BY <1>2, <1>9, <2>1
      <3>2. FileByte(Position + 1) = Sync2
        BY <1>1, <3>1, NextByte
      <3>3. FileByte(Position) = FF
        BY <1>1, <3>1 DEF LookInv
      <3> QED
        BY <3>1, <3>2, <3>3
    <2> QED
      BY <2>1
  <1>13. br'.buffer[Lsf(br') - 1] = Sync2
    <2>1. br.buffer[At(br)] = Sync2
      BY <1>1, NextByte
    <2>2. Lsf(br') - 1 = At(br)
      BY <1>2
    <2> QED
      BY <2>1, <2>2 DEF SameBytes
  <1>14. /\ pc' \notin Early /\ pc' \in BehindSync
         /\ last_seen_framesync' \in (0..FileEnd') \cup BelowRegion
         /\ Lsf(br') <= At(br')
    BY <1>2, <1>8, <1>10, <1>11 DEF Early, BehindSync
  <1>15. beyond' = 0 => FileStart' + Lsf(br') = last_seen_framesync'
    BY <1>2, <1>9, <1>10, <1>11
  <1>16. beyond' = 0 => /\ FileByte(last_seen_framesync)' = Sync2
                        /\ FileByte(last_seen_framesync - 1)' = FF
    BY <1>10, <1>11, <1>12 DEF FileByte
  <1> QED
    BY <1>13, <1>14, <1>15, <1>16 DEF SyncInv

LEMMA SearchSync2Keeps ==
    ASSUME input \in Inputs, ReaderInv, SearchSync2
    PROVE  ReaderInv'
  <1> DEFINE b == Reader!Consume(br, BitsPerByte)
             c == Reader!SetFramesyncLocation(b)
  <1>1. /\ pc = "sync2" /\ Ready /\ UNCHANGED <<fileVars, skip>>
        /\ \/ /\ Next1(1) = Sync2 /\ StartFrame(c)
              /\ last_seen_framesync' = DecodePosition(b)
              /\ UNCHANGED <<cached, lookahead>>
           \/ /\ LookAhead(FF) /\ Next1(1) = FF
              /\ br' = b /\ pc' = "sync" /\ UNCHANGED <<state, raw, last_seen_framesync>>
           \/ br' = b /\ pc' = "sync" /\ UNCHANGED <<state, raw, syncVars>>
    BY DEF SearchSync2
  <1>2. Reads = 1
    BY <1>1 DEF Reads
  <1>3. ControlInv /\ BufferInv /\ TellInv /\ RegionInv /\ ~cached
    BY <1>1 DEF ReaderInv, ControlInv
  <1>4. /\ 1 <= Available(br) - At(br)
        /\ Good(b, Bytes) /\ SameBytes(b, br) /\ At(b) = At(br) + 1 /\ Lsf(b) = Lsf(br)
    BY <1>1, <1>2, ReadingOne
  <1>5. Good(c, Bytes) /\ SameBytes(c, b) /\ At(c) = At(b) /\ Lsf(c) = At(b)
    BY <1>4, RememberSync
  <1>6. /\ FF \in Bytes /\ Sync2 \in Bytes /\ Bytes \subseteq RawBytes
    BY FileIsBytes
  <1>7. At(br) \in Nat /\ Available(br) \in Nat
    BY <1>3, PlacesInFile
  <1>8. Reader!Unconsumed(b) \div BitsPerByte = Available(br) - At(br) - 1
    <2>1. Reader!Unconsumed(b) \div BitsPerByte = Available(b) - At(b)
      BY <1>4, GoodPlaces
    <2> QED
      BY <1>4, <1>7, <2>1 DEF SameBytes
  <1> HIDE DEF b, c
  <1>9. CASE /\ Next1(1) = Sync2 /\ StartFrame(c)
             /\ last_seen_framesync' = DecodePosition(b)
             /\ UNCHANGED <<cached, lookahead>>
    <2>1. /\ state' = "READ_FRAME" /\ pc' = "parameters" /\ raw' = <<FF, Sync2>>
          /\ br' = Reader!ResetReadCrc16(c, <<FF, Sync2>>)
      BY <1>9 DEF StartFrame
    <2>2. <<FF, Sync2>> \in Seq(Bytes) /\ <<FF, Sync2>> \in Seq(RawBytes) /\ Len(<<FF, Sync2>>) = 2
      BY <1>6
    <2>3. Good(br', Bytes) /\ SameBytes(br', c) /\ At(br') = At(c) /\ Lsf(br') = Lsf(c)
      BY <1>5, <2>1, <2>2, ResetCrc
    <2>4. SameBytes(br', br) /\ At(br') = At(br) + 1 /\ Lsf(br') = At(br) + 1
      BY <1>4, <1>5, <2>3 DEF SameBytes
    <2>5. At(br) < Available(br)
      BY <1>4, <1>7
    <2>6. RegionInv' /\ BufferInv' /\ TellInv'
      BY <1>1, <1>3, <2>3, <2>4, <2>5, Staying
    <2>7. LookInv' /\ ControlInv'
      BY <1>1, <1>3, <1>9, <2>1, <2>2, FileStays
      DEF LookInv, ControlInv, States, Points, fileVars
    <2>8. last_seen_framesync' = Fs!Minus(sramReadAddr, Available(br) - At(br) - 1)
      BY <1>8, <1>9 DEF DecodePosition, Fs!Tell
    <2>9. SyncInv'
      BY <1>1, <1>9, <2>1, <2>3, <2>4, <2>5, <2>8, SyncIsRemembered
    <2> QED
      BY <2>6, <2>7, <2>9 DEF ReaderInv
  <1>10. CASE br' = b /\ pc' = "sync" /\ UNCHANGED <<state, raw, last_seen_framesync>>
              /\ (UNCHANGED <<cached, lookahead>> \/ (LookAhead(FF) /\ Next1(1) = FF))
    <2>1. cached' => lookahead' = Next1(1)
      BY <1>3, <1>10 DEF LookAhead
    <2>2. RegionInv' /\ BufferInv' /\ TellInv' /\ LookInv' /\ SyncInv'
      BY <1>1, <1>4, <1>10, <2>1, ReadingStep DEF Early, BehindSync, InFrame
    <2>3. ControlInv'
      BY <1>1, <1>3, <1>6, <1>10, FileStays
      DEF ControlInv, States, Points, fileVars, LookAhead
    <2> QED
      BY <2>2, <2>3 DEF ReaderInv
  <1> QED
    BY <1>1, <1>9, <1>10 DEF syncVars

-------------------------------------------------------------------------------
(* The steps in a frame *)

\* Steps in a frame that read one byte, which may be kept to be looked at again
LEMMA FrameByteKeeps ==
    ASSUME input \in Inputs, ReaderInv, Ready, Reads = 1, br' = Reader!Consume(br, BitsPerByte),
           UNCHANGED <<fileVars, last_seen_framesync>>,
           pc \notin {"marker", "sync"}, pc' \notin Early \cup {"sync2"}, InFrame' => InFrame,
           UNCHANGED <<cached, lookahead>> \/ LookAhead(Next1(1))
    PROVE  RegionInv' /\ BufferInv' /\ TellInv' /\ LookInv' /\ SyncInv' /\ lookahead' \in Bytes
  <1>1. ControlInv
    BY DEF ReaderInv
  <1>2. ~cached /\ lookahead \in Bytes
    BY <1>1 DEF ControlInv
  <1>3. /\ 1 <= Available(br) - At(br)
        /\ Good(br', Bytes) /\ SameBytes(br', br) /\ At(br') = At(br) + 1 /\ Lsf(br') = Lsf(br)
        /\ Next1(1) \in Bytes
    BY ReadingOne
  <1>4. cached' => lookahead' = Next1(1)
    BY <1>2 DEF LookAhead
  <1>5. RegionInv' /\ BufferInv' /\ TellInv' /\ LookInv' /\ SyncInv'
    BY <1>3, <1>4, ReadingStep DEF Early
  <1>6. lookahead' \in Bytes
    BY <1>2, <1>3 DEF LookAhead
  <1> QED
    BY <1>5, <1>6

LEMMA ReadParametersKeeps ==
    ASSUME input \in Inputs, ReaderInv, ReadParameters
    PROVE  ReaderInv'
  <1>1. /\ pc = "parameters" /\ Ready /\ Read /\ UNCHANGED <<fileVars, skip, last_seen_framesync>>
        /\ \/ Next1(1) = FF /\ LookAhead(FF) /\ BadHeader
           \/ /\ raw' = Append(raw, Next1(1))
              /\ pc' = IF Len(raw) = 3 THEN "number" ELSE "parameters"
              /\ UNCHANGED <<state, cached, lookahead>>
           \/ BadHeader /\ UNCHANGED <<cached, lookahead>>
    BY DEF ReadParameters
  <1>2. Reads = 1
    BY <1>1 DEF Reads
  <1>3. ControlInv
    BY DEF ReaderInv
  <1>4. Next1(1) \in Bytes /\ Bytes \subseteq RawBytes /\ br' = Reader!Consume(br, BitsPerByte)
    BY <1>1, <1>2, ReadingOne, FileIsBytes
  <1>5. /\ pc' \in {"sync", "number", "parameters"} /\ (InFrame' => InFrame)
        /\ UNCHANGED <<cached, lookahead>> \/ LookAhead(Next1(1))
    BY <1>1 DEF BadHeader, InFrame
  <1>6. RegionInv' /\ BufferInv' /\ TellInv' /\ LookInv' /\ SyncInv' /\ lookahead' \in Bytes
    BY <1>1, <1>2, <1>4, <1>5, FrameByteKeeps DEF Early
  <1>7. /\ raw' \in Seq(RawBytes) /\ (pc' = "parameters" => Len(raw') \in {2, 3})
        /\ (pc' = "number" => Len(raw') >= 3)
    <2>1. raw \in Seq(RawBytes) /\ Len(raw) \in {2, 3} /\ Next1(1) \in RawBytes
      BY <1>1, <1>3, <1>4 DEF ControlInv
    <2>2. CASE /\ raw' = Append(raw, Next1(1))
               /\ pc' = IF Len(raw) = 3 THEN "number" ELSE "parameters"
      <3>1. raw' \in Seq(RawBytes) /\ Len(raw') = Len(raw) + 1
        BY <2>1, <2>2
      <3> QED
        BY <2>1, <2>2, <3>1
    <2>3. CASE BadHeader
      <3>1. raw' = <<>> /\ pc' = "sync" /\ <<>> \in Seq(RawBytes)
        BY <2>3 DEF BadHeader
      <3> QED
        BY <3>1
    <2> QED
      BY <1>1, <2>2, <2>3
  <1>8. /\ state' \in States /\ skip' \in Nat
        /\ cached' \in BOOLEAN /\ (cached' => pc' = "sync")
    <2>1. state \in States /\ skip \in Nat /\ cached = FALSE
      BY <1>1, <1>3 DEF ControlInv
    <2>2. UNCHANGED state \/ BadHeader
      BY <1>1
    <2>3. UNCHANGED cached \/ (LookAhead(Next1(1)) /\ BadHeader)
      BY <1>1
    <2>4. "SEARCH_FOR_FRAME_SYNC" \in States
      BY DEF States
    <2> QED
      BY <1>1, <2>1, <2>2, <2>3, <2>4 DEF BadHeader, LookAhead
  <1>9. ControlInv'
    BY <1>1, <1>5, <1>6, <1>7, <1>8, FileStays DEF ControlInv, Points, fileVars
  <1> QED
    BY <1>6, <1>9 DEF ReaderInv

LEMMA ReadNumberKeeps ==
    ASSUME input \in Inputs, ReaderInv, ReadNumber
    PROVE  ReaderInv'
  <1>1. /\ pc \in {"number", "number2"} /\ Ready /\ Read
        /\ UNCHANGED <<fileVars, last_seen_framesync>>
        /\ \/ /\ raw' = Append(raw, Next1(1))
              /\ NumberDone /\ UNCHANGED <<state, cached, lookahead>>
           \/ /\ raw' = Append(raw, Next1(1))
              /\ pc' = "number2" /\ UNCHANGED <<state, skip, cached, lookahead>>
           \/ LookAhead(Next1(1)) /\ BadHeader /\ UNCHANGED skip
    BY DEF ReadNumber
  <1>2. Reads = 1
    BY <1>1 DEF Reads
  <1>3. ControlInv
    BY DEF ReaderInv
  <1>4. Next1(1) \in RawBytes /\ br' = Reader!Consume(br, BitsPerByte)
    BY <1>1, <1>2, ReadingOne, FileIsBytes
  <1>5. /\ raw \in Seq(RawBytes) /\ Len(raw) >= 3 /\ skip \in Nat
    BY <1>1, <1>3 DEF ControlInv
  <1>6. Hints \subseteq Nat
    <2>1. raw[3] \in RawBytes
      BY <1>5
    <2>2. raw[3].is = "parameters" => raw[3].of \in 1..Len(Frames)
      BY <2>1, FileIsBytes
    <2>3. \A f \in 1..Len(Frames) : Frames[f].hints \in Nat
      BY FileIsBytes
    <2> QED
      BY <2>2, <2>3, DecoderAssumption DEF Hints
  <1>7. /\ pc' \in {"sync", "number2", "crc8", "blocksize"} /\ (InFrame' => InFrame)
        /\ UNCHANGED <<cached, lookahead>> \/ LookAhead(Next1(1))
        /\ skip' \in Nat /\ (pc' = "blocksize" => skip' > 0)
    BY <1>1, <1>5, <1>6 DEF BadHeader, InFrame, NumberDone
  <1>8. RegionInv' /\ BufferInv' /\ TellInv' /\ LookInv' /\ SyncInv' /\ lookahead' \in Bytes
    BY <1>1, <1>2, <1>4, <1>7, FrameByteKeeps DEF Early
  <1>9. raw' \in Seq(RawBytes) /\ (pc' \in {"number", "number2"} => Len(raw') >= 3)
    <2>1. CASE raw' = Append(raw, Next1(1))
      <3>1. raw' \in Seq(RawBytes) /\ Len(raw') = Len(raw) + 1 /\ Len(raw) \in Nat
        BY <1>4, <1>5, <2>1
      <3> QED
        BY <1>5, <3>1
    <2>2. CASE BadHeader
      <3>1. raw' = <<>> /\ pc' = "sync" /\ <<>> \in Seq(RawBytes)
        BY <2>2 DEF BadHeader
      <3> QED
        BY <3>1
    <2> QED
      BY <1>1, <2>1, <2>2
  <1>10. /\ state' \in States /\ cached' \in BOOLEAN /\ (cached' => pc' = "sync")
    <2>1. state \in States /\ skip \in Nat /\ cached = FALSE
      BY <1>1, <1>3 DEF ControlInv
    <2>2. UNCHANGED state \/ BadHeader
      BY <1>1
    <2>3. UNCHANGED cached \/ (LookAhead(Next1(1)) /\ BadHeader)
      BY <1>1
    <2>4. "SEARCH_FOR_FRAME_SYNC" \in States
      BY DEF States
    <2> QED
      BY <1>1, <2>1, <2>2, <2>3, <2>4 DEF BadHeader, LookAhead
  <1>11. ControlInv'
    BY <1>1, <1>7, <1>8, <1>9, <1>10, FileStays DEF ControlInv, Points, fileVars
  <1> QED
    BY <1>8, <1>11 DEF ReaderInv

LEMMA ReadBlockSizeKeeps ==
    ASSUME input \in Inputs, ReaderInv, ReadBlockSize
    PROVE  ReaderInv'
  <1>1. /\ pc = "blocksize" /\ Ready /\ Read /\ raw' = Append(raw, Next1(1))
        /\ skip' = skip - 1 /\ pc' = IF skip = 1 THEN "crc8" ELSE "blocksize"
        /\ UNCHANGED <<fileVars, state, syncVars>>
    BY DEF ReadBlockSize
  <1>2. Reads = 1
    BY <1>1 DEF Reads
  <1>3. ControlInv
    BY DEF ReaderInv
  <1>4. Next1(1) \in RawBytes /\ br' = Reader!Consume(br, BitsPerByte)
    BY <1>1, <1>2, ReadingOne, FileIsBytes
  <1>5. /\ pc' \in {"crc8", "blocksize"} /\ skip' \in Nat /\ (pc' = "blocksize" => skip' > 0)
    BY <1>1, <1>3 DEF ControlInv
  <1>6. RegionInv' /\ BufferInv' /\ TellInv' /\ LookInv' /\ SyncInv' /\ lookahead' \in Bytes
    BY <1>1, <1>2, <1>4, <1>5, FrameByteKeeps DEF Early, InFrame, syncVars
  <1>7. raw' \in Seq(RawBytes)
    BY <1>1, <1>3, <1>4 DEF ControlInv
  <1>8. ControlInv'
    BY <1>1, <1>3, <1>5, <1>6, <1>7, FileStays DEF ControlInv, Points, fileVars, syncVars
  <1> QED
    BY <1>6, <1>8 DEF ReaderInv

LEMMA ReadCrc8Keeps ==
    ASSUME input \in Inputs, ReaderInv, ReadCrc8
    PROVE  ReaderInv'
  <1>1. /\ pc = "crc8" /\ Ready /\ Read
        /\ \/ BadHeader
           \/ raw' = Append(raw, Next1(1)) /\ pc' = "body" /\ UNCHANGED state
        /\ UNCHANGED <<fileVars, skip, syncVars>>
    BY DEF ReadCrc8
  <1>2. Reads = 1
    BY <1>1 DEF Reads
  <1>3. ControlInv
    BY DEF ReaderInv
  <1>4. Next1(1) \in RawBytes /\ br' = Reader!Consume(br, BitsPerByte)
    BY <1>1, <1>2, ReadingOne, FileIsBytes
  <1>5. pc' \in {"sync", "body"} /\ (InFrame' => InFrame)
    BY <1>1 DEF BadHeader, InFrame
  <1>6. RegionInv' /\ BufferInv' /\ TellInv' /\ LookInv' /\ SyncInv' /\ lookahead' \in Bytes
    BY <1>1, <1>2, <1>4, <1>5, FrameByteKeeps DEF Early, syncVars
  <1>7. raw' \in Seq(RawBytes) /\ state' \in States
    <2>1. raw \in Seq(RawBytes) /\ state \in States /\ <<>> \in Seq(RawBytes)
      BY <1>3 DEF ControlInv
    <2>2. Append(raw, Next1(1)) \in Seq(RawBytes)
      BY <1>4, <2>1
    <2>3. CASE BadHeader
      BY <2>1, <2>3 DEF BadHeader, States
    <2>4. CASE raw' = Append(raw, Next1(1)) /\ UNCHANGED state
      BY <2>1, <2>2, <2>4
    <2> QED
      BY <1>1, <2>3, <2>4
  <1>8. ControlInv'
    BY <1>1, <1>3, <1>5, <1>6, <1>7, FileStays DEF ControlInv, Points, fileVars, syncVars
  <1> QED
    BY <1>6, <1>8 DEF ReaderInv

LEMMA ReadBodyKeeps ==
    ASSUME input \in Inputs, ReaderInv, ReadBody
    PROVE  ReaderInv'
  <1> DEFINE b == Reader!Consume(br, BitsPerByte)
  <1>1. /\ pc = "body" /\ Ready /\ UNCHANGED <<fileVars, skip, syncVars>>
        /\ \/ br' = b /\ raw' = Append(raw, Next1(1)) /\ UNCHANGED <<state, pc>>
           \/ /\ br' = Reader!GetReadCrc16(b) /\ raw' = br'.read_crc16
              /\ pc' = "crc16" /\ UNCHANGED state
           \/ br' = b /\ BadFrame
           \/ br' = b /\ pc' = "returned" /\ UNCHANGED <<state, raw>>
    BY DEF ReadBody
  <1>2. Reads = 1
    BY <1>1 DEF Reads
  <1>3. ControlInv /\ ~cached
    BY <1>1 DEF ReaderInv, ControlInv
  <1>4. /\ 1 <= Available(br) - At(br) /\ Next1(1) \in Bytes
        /\ Good(b, Bytes) /\ SameBytes(b, br) /\ At(b) = At(br) + 1 /\ Lsf(b) = Lsf(br)
    BY <1>1, <1>2, ReadingOne
  <1> HIDE DEF b
  <1>5. Bytes \subseteq RawBytes
    BY FileIsBytes
  <1>6. /\ Good(br', Bytes) /\ SameBytes(br', br) /\ At(br') = At(br) + 1 /\ Lsf(br') = Lsf(br)
    <2>1. CASE br' = b
      BY <1>4, <2>1
    <2>2. CASE br' = Reader!GetReadCrc16(b)
      <3>1. Good(br', Bytes) /\ SameBytes(br', b) /\ At(br') = At(b) /\ Lsf(br') = Lsf(b)
        BY <1>4, <2>2, TakeCrc
      <3> QED
        BY <1>4, <3>1 DEF SameBytes
    <2> QED
      BY <1>1, <2>1, <2>2
  <1>7. /\ pc' \in {"body", "crc16", "bad", "returned"} /\ (InFrame' => InFrame) /\ ~cached'
    BY <1>1, <1>3 DEF BadFrame, InFrame, syncVars
  <1>8. RegionInv' /\ BufferInv' /\ TellInv' /\ LookInv' /\ SyncInv'
    BY <1>1, <1>4, <1>6, <1>7, ReadingStep DEF Early, BehindSync, syncVars
  <1>9. raw' \in Seq(RawBytes)
    <2>1. raw \in Seq(RawBytes) /\ <<>> \in Seq(RawBytes) /\ Next1(1) \in RawBytes
      BY <1>3, <1>4, <1>5 DEF ControlInv
    <2>2. Append(raw, Next1(1)) \in Seq(RawBytes)
      BY <2>1
    <2>3. br'.read_crc16 \in Seq(RawBytes)
      <3>1. br'.read_crc16 \in Seq(Bytes)
        BY <1>6, GoodPlaces
      <3> QED
        BY <1>5, <3>1
    <2> QED
      BY <1>1, <2>1, <2>2, <2>3 DEF BadFrame
  <1>10. state' \in States
    BY <1>1, <1>3 DEF ControlInv, BadFrame, States
  <1>11. ControlInv'
    BY <1>1, <1>3, <1>7, <1>9, <1>10, FileStays DEF ControlInv, Points, fileVars, syncVars
  <1> QED
    BY <1>8, <1>11 DEF ReaderInv

LEMMA ReadCrc16Keeps ==
    ASSUME input \in Inputs, ReaderInv, ReadCrc16
    PROVE  ReaderInv'
  <1>1. /\ pc = "crc16" /\ Ready /\ Read /\ raw' = <<>>
        /\ \/ pc' = "gap" /\ UNCHANGED state
           \/ pc' = "bad" /\ state' = "SEARCH_FOR_FRAME_SYNC"
        /\ UNCHANGED <<fileVars, skip, syncVars>>
    BY DEF ReadCrc16, BadFrame
  <1>2. PICK k \in Nat : k = 2 /\ Reads = k
    BY <1>1 DEF Reads
  <1>3. ControlInv /\ ~cached
    BY <1>1 DEF ReaderInv, ControlInv
  <1>4. /\ k <= Available(br) - At(br)
        /\ Good(br', Bytes) /\ SameBytes(br', br)
        /\ At(br') = At(br) + k /\ Lsf(br') = Lsf(br)
    BY <1>1, <1>2, Reading
  <1>5. RegionInv' /\ BufferInv' /\ TellInv' /\ LookInv' /\ SyncInv'
    BY <1>1, <1>2, <1>3, <1>4, ReadingStep DEF Early, BehindSync, InFrame, syncVars
  <1>6. <<>> \in Seq(RawBytes)
    OBVIOUS
  <1>7. ControlInv'
    BY <1>1, <1>3, <1>6, FileStays DEF ControlInv, States, Points, fileVars, syncVars
  <1> QED
    BY <1>5, <1>7 DEF ReaderInv

\* Steps that write and read nothing
LEMMA WritingKeeps ==
    ASSUME input \in Inputs, ReaderInv, pc = "gap", UNCHANGED <<fileVars, br, raw, skip, syncVars>>,
           pc' \in {"gap", "returned", "sync"},
           state' = state \/ state' \in {"ABORTED", "SEARCH_FOR_FRAME_SYNC"}
    PROVE  ReaderInv'
  <1>1. ControlInv /\ ~cached /\ BufferInv /\ TellInv
    BY DEF ReaderInv, ControlInv
  <1>2. At(br) \in Nat /\ Available(br) \in Nat /\ At(br) <= Available(br)
    BY <1>1, PlacesInFile
  <1>3. /\ 0 <= Available(br) - At(br) /\ At(br') = At(br) + 0 /\ Lsf(br') = Lsf(br)
        /\ Good(br', Bytes) /\ SameBytes(br', br)
    BY <1>1, <1>2 DEF BufferInv, SameBytes
  <1>4. RegionInv' /\ BufferInv' /\ TellInv' /\ LookInv' /\ SyncInv'
    BY <1>1, <1>3, ReadingStep DEF Early, BehindSync, InFrame, syncVars
  <1>5. ControlInv'
    BY <1>1, FileStays DEF ControlInv, States, Points, fileVars, syncVars
  <1> QED
    BY <1>4, <1>5 DEF ReaderInv

-------------------------------------------------------------------------------
(* Going back to a sync *)

LEMMA RewindKeeps ==
    ASSUME input \in Inputs, ReaderInv, Rewind
    PROVE  /\ ReaderInv'
           /\ beyond = 0 /\ last_seen_framesync # 0 => Position' >= last_seen_framesync
           /\ pc' = "sync" /\ ~cached' /\ UNCHANGED input
           /\ SyncSeen => /\ Position' = FileStart + Lsf(br) + 1
                          /\ FileStart' = FileStart /\ sramReadAddr' = sramReadAddr
           /\ ~SyncSeen /\ last_seen_framesync # 0 =>
                  /\ Position' = last_seen_framesync
                  /\ FileStart' = Position' /\ sramReadAddr' = Position'
  <1> DEFINE b == Reader!RewindToAfterLastSeenFramesync(br)
             seeks == ~SyncSeen /\ last_seen_framesync # 0
  <1>1. ControlInv /\ RegionInv /\ BufferInv /\ TellInv /\ SyncInv /\ pc = "bad" /\ ~cached
    BY DEF ReaderInv, ControlInv, Rewind
  <1>2. /\ At(br) \in Nat /\ Available(br) \in Nat /\ At(br) <= Available(br)
        /\ OfFile \in Int /\ FileStart \in Int /\ Lsf(br) \in Nat
        /\ BufferBytes \in Nat \ {0}
    BY <1>1, PlacesInFile
  <1>3. FileEnd \in Nat /\ FileEnd <= Capacity
    BY FileIsBytes
  <1>4. /\ last_seen_framesync \in Int
        /\ ~(last_seen_framesync > Capacity /\ last_seen_framesync < Wrap - Start)
    <2>1. BufferBytes <= Start /\ Capacity \in Nat /\ Start \in Nat /\ Wrap \in Nat
      BY ReaderSizes, DecoderAssumption, InputsAssumption
    <2>2. last_seen_framesync \in 0..FileEnd \/ last_seen_framesync \in BelowRegion
      BY <1>1 DEF SyncInv
    <2> QED
      BY <1>2, <1>3, <2>1, <2>2 DEF BelowRegion
  <1>5. /\ IF seeks THEN Fs!Seek(last_seen_framesync) ELSE UNCHANGED <<sramReadAddr, filesize>>
        /\ br' = IF seeks THEN Reader!Clear(b) ELSE b
        /\ beyond' = IF seeks THEN 0 ELSE beyond
        /\ state' = "SEARCH_FOR_FRAME_SYNC" /\ pc' = "sync"
        /\ UNCHANGED <<sram, lengthWord, load, input, raw, skip, syncVars>>
    BY <1>4 DEF Rewind, SyncSeen, Fs!SeekRefused
  <1>6. Reader!FramesyncInBuffer(br) => Lsf(br) < At(br)
    BY <1>1 DEF SyncInv, SyncSeen, BehindSync
  <1>7. Reader!FramesyncInBuffer(br) => Lsf(br) + 1 <= Available(br)
    BY <1>2, <1>6
  <1>8. /\ Good(b, Bytes) /\ SameBytes(b, br) /\ Lsf(b) = Lsf(br)
        /\ At(b) = IF SyncSeen THEN Lsf(br) + 1 ELSE 0
    BY <1>1, <1>7, RewindBytes DEF BufferInv, SyncSeen
  <1> HIDE DEF b
  <1>9. ControlInv'
    BY <1>1, <1>5, FileStays DEF ControlInv, States, Points, syncVars
  <1>10. CASE ~seeks
    <2>1. /\ br' = b /\ UNCHANGED fileVars /\ UNCHANGED last_seen_framesync /\ ~cached'
      BY <1>1, <1>5, <1>10 DEF fileVars, fsVars, syncVars
    <2>2. /\ RegionInv' /\ BufferInv' /\ TellInv'
          /\ FileStart' = FileStart /\ Position' = FileStart + At(b)
      BY <1>1, <1>8, <2>1, Staying
    <2>3. LookInv'
      BY <1>5, <2>1 DEF LookInv
    <2>4. SyncInv'
      <3>1. /\ UNCHANGED <<input, beyond>> /\ br'.buffer = br.buffer /\ Lsf(br') = Lsf(br)
            /\ (pc' \in Early => pc \in Early) /\ ~InFrame'
        BY <1>5, <1>8, <2>1 DEF fileVars, SameBytes, Early, InFrame
      <3>2. SyncSeen => Lsf(br) <= At(br') /\ (pc' \notin BehindSync => Lsf(br) < At(br'))
        BY <1>2, <1>8, <2>1
      <3> QED
        BY <1>1, <2>1, <2>2, <3>1, <3>2, SyncStays
    <2>5. beyond = 0 /\ last_seen_framesync # 0 => Position' >= last_seen_framesync
      <3>1. ASSUME beyond = 0, last_seen_framesync # 0
            PROVE  Position' >= last_seen_framesync
        <4>1. SyncSeen /\ FileStart + Lsf(br) = last_seen_framesync
          BY <1>1, <1>10, <3>1 DEF SyncInv
        <4>2. Position' = FileStart + (Lsf(br) + 1)
          BY <1>8, <2>2, <4>1
        <4> QED
          BY <1>2, <4>1, <4>2
      <3> QED
        BY <3>1
    <2>6. SyncSeen => /\ Position' = FileStart + Lsf(br) + 1
                      /\ FileStart' = FileStart /\ sramReadAddr' = sramReadAddr
      BY <1>2, <1>5, <1>8, <1>10, <2>2
    <2> QED
      BY <1>5, <1>9, <1>10, <2>1, <2>2, <2>3, <2>4, <2>5, <2>6 DEF ReaderInv
  <1>11. CASE seeks
    <2>1. /\ br' = Reader!Clear(b) /\ beyond' = 0 /\ ~cached' /\ pc' = "sync"
          /\ sramReadAddr' = last_seen_framesync
          /\ UNCHANGED <<sram, lengthWord, filesize, input, last_seen_framesync>>
      BY <1>1, <1>5, <1>11 DEF Fs!Seek, syncVars
    <2>2. /\ Good(br', Bytes) /\ Available(br') = 0 /\ At(br') = 0
          /\ ~Reader!FramesyncInBuffer(br')
      BY <1>8, <2>1, ClearBytes
    <2>3. /\ Bytes' = Bytes /\ FileEnd' = FileEnd /\ \A p : FileByte(p)' = FileByte(p)
      BY <2>1, FileStays
    <2>4. OfFile' = 0
      BY <2>1, <2>2 DEF OfFile
    <2>5. RegionInv' /\ BufferInv'
      BY <1>1, <1>2, <2>1, <2>2, <2>3, <2>4 DEF RegionInv, BufferInv
    <2>6. TellInv'
      <3>1. last_seen_framesync \in 0..FileEnd \/ last_seen_framesync \in BelowRegion
        BY <1>1 DEF SyncInv
      <3>2. CASE last_seen_framesync \in 0..FileEnd
        BY <1>3, <2>1, <2>3, <2>4, <3>2 DEF TellInv
      <3>3. CASE last_seen_framesync \in BelowRegion
        BY <2>1, <2>2, <3>3 DEF TellInv
      <3> QED
        BY <3>1, <3>2, <3>3
    <2>7. LookInv'
      BY <2>1 DEF LookInv
    <2>8. SyncInv'
      BY <1>1, <1>5, <2>1, <2>2, <2>3 DEF SyncInv, SyncSeen, Early, InFrame
    <2>9. Position' = last_seen_framesync
      <3>1. Reader!Unconsumed(br') \div BitsPerByte = Available(br') - At(br')
        BY <2>2, GoodPlaces
      <3>2. Unread' = 0
        BY <2>2, <3>1 DEF Unread
      <3> QED
        BY <1>4, <2>1, <3>2 DEF Position, UnreadOfFile
    <2>10. FileStart' = Position' /\ sramReadAddr' = Position'
      BY <1>4, <2>1, <2>4, <2>9 DEF FileStart
    <2> QED
      BY <1>4, <1>5, <1>9, <1>11, <2>1, <2>5, <2>6, <2>7, <2>8, <2>9, <2>10 DEF ReaderInv
  <1> QED
    BY <1>10, <1>11

-------------------------------------------------------------------------------
(* More from the file *)

\* A byte has a kind; what lies outside the region has none.
LEMMA NoByteIsNone ==
    ASSUME input \in Inputs, NEW x \in Bytes
    PROVE  x # Fs!NoByte
  <1> DEFINE AnyByte == [is : STRING, of : Nat, at : Nat]
             Some == [size : Nat \ {0}, body : Seq(AnyByte) \ {<<>>}, hints : 0..MaxExtraBody,
                      verbatim : BOOLEAN, future : BOOLEAN]
             file == input.file
  <1>1. file \in Seq(AnyByte)
    BY InputsAssumption
  <1>2. \A y \in AnyByte : "is" \in DOMAIN y
    OBVIOUS
  <1> HIDE DEF AnyByte
  <1>3. \A i \in 1..Len(file) : file[i] \in AnyByte
    BY <1>1
  <1>4. "is" \in DOMAIN x
    <2>1. CASE x \in {FF, Sync2, Other, Marker}
      BY <2>1 DEF FF, Sync2, Other, Marker, Byte
    <2>2. CASE \E i \in 1..Len(file) : x = file[i]
      BY <1>2, <1>3, <2>2
    <2> QED
      BY <2>1, <2>2 DEF Bytes
  <1>5. DOMAIN Fs!NoByte = {"gen", "at"}
    BY DEF Fs!NoByte, Fs!Byte
  <1>6. "is" \notin DOMAIN Fs!NoByte
    BY <1>5
  <1> QED
    BY <1>4, <1>6

\* The place in the file from which a callback that is not at the end copies: right in
\* front of the file when it comes from the last address below the region
From == IF sramReadAddr = Wrap - 1 THEN -1 ELSE sramReadAddr

LEMMA Copying ==
    ASSUME input \in Inputs, RegionInv, BufferInv, TellInv, ~Fs!Eof, NEW n \in Nat
    PROVE  /\ From \in -1..FileEnd /\ Len(Copied(n)) \in 0..n
           /\ Len(Copied(n)) = IF n > FileEnd - From THEN FileEnd - From ELSE n
           /\ Fs!ReadLen(n) = Len(Copied(n)) /\ Copied(n) \in Seq(Bytes)
           /\ \A i \in 1..Len(Copied(n)) : Copied(n)[i] = FileByte(From + i)
           /\ Fs!Plus(sramReadAddr, Len(Copied(n))) =
                  IF From + Len(Copied(n)) = -1 THEN sramReadAddr ELSE From + Len(Copied(n))
           /\ beyond = 0 /\ (sramReadAddr # From => Available(br) = 0)
           /\ OfFile = Available(br) /\ Available(br) <= From + 1
  <1>1. /\ Available(br) \in Nat /\ Available(br) <= BufferBytes /\ BufferBytes \in Nat \ {0}
        /\ sramReadAddr \in Nat /\ sramReadAddr < Wrap /\ beyond \in Nat
    BY PlacesInFile
  <1>2. FileEnd \in Nat /\ FileEnd <= Capacity
    BY FileIsBytes
  <1>3. /\ Wrap \in Nat /\ Capacity \in Nat /\ BufferBytes + Capacity < Wrap
        /\ Capacity + 1 < Wrap
    <2>1. BufferBytes = BytesPerWord * BufferWords /\ BufferBytes \in Nat \ {0}
      BY ReaderSizes
    <2> QED
      BY <2>1, DecoderAssumption
  <1>4. ~(Fs!Plus(sramReadAddr, 1) >= FileEnd)
    BY DEF Fs!Eof, Fs!Tell, RegionInv
  <1>5. Fs!Plus(sramReadAddr, 1) = IF sramReadAddr + 1 < Wrap THEN sramReadAddr + 1
                                   ELSE sramReadAddr + 1 - Wrap
    BY DEF Fs!Plus
  <1>6. \/ /\ sramReadAddr \in 0..FileEnd /\ sramReadAddr + 1 < FileEnd /\ beyond = 0
           /\ OfFile <= sramReadAddr + 1
        \/ sramReadAddr = Wrap - 1 /\ Available(br) = 0 /\ beyond = 0 /\ FileEnd > 0
    <2>1. CASE /\ sramReadAddr \in 0..FileEnd /\ OfFile <= sramReadAddr + 1
               /\ beyond > 0 => sramReadAddr = FileEnd
      BY <1>1, <1>2, <1>3, <1>4, <1>5, <2>1
    <2>2. CASE sramReadAddr \in BelowRegion /\ Available(br) = 0 /\ beyond = 0
      <3>1. sramReadAddr >= Wrap - BufferBytes
        BY <1>1, <1>3, <2>2 DEF BelowRegion
      <3>2. sramReadAddr + 1 < Wrap => Fs!Plus(sramReadAddr, 1) >= FileEnd
        BY <1>1, <1>2, <1>3, <1>5, <3>1
      <3>3. sramReadAddr = Wrap - 1 /\ Fs!Plus(sramReadAddr, 1) = 0
        BY <1>1, <1>3, <1>4, <1>5, <3>2
      <3> QED
        BY <1>2, <1>4, <2>2, <3>3
    <2> QED
      BY <2>1, <2>2 DEF TellInv
  <1>7. /\ From \in -1..FileEnd /\ beyond = 0 /\ (sramReadAddr # From => Available(br) = 0)
        /\ OfFile = Available(br) /\ Available(br) <= From + 1 /\ From < FileEnd
        /\ sramReadAddr = IF From = -1 THEN Wrap - 1 ELSE From
    <2>1. OfFile = Available(br)
      BY <1>1, <1>6 DEF OfFile
    <2> QED
      BY <1>1, <1>2, <1>3, <1>6, <2>1 DEF From
  <1> DEFINE left == FileEnd - From
             m == IF n > left THEN left ELSE n
  <1>8. left \in Nat /\ m \in 0..n /\ m <= left
    BY <1>2, <1>7
  <1>9. Fs!Minus(lengthWord, sramReadAddr) = left
    <2>1. lengthWord = FileEnd
      BY DEF RegionInv
    <2>2. Fs!Minus(lengthWord, sramReadAddr) =
              IF sramReadAddr <= FileEnd THEN FileEnd - sramReadAddr ELSE Wrap + FileEnd - sramReadAddr
      BY <2>1 DEF Fs!Minus
    <2> QED
      BY <1>2, <1>3, <1>7, <2>2
  <1>10. Fs!ReadLen(n) = m
    BY <1>9 DEF Fs!ReadLen, Fs!Tell
  <1> HIDE DEF left, m
  <1>11. Fs!ReadBytes(n) = [i \in 1..m |-> Fs!ByteAt(Fs!Plus(sramReadAddr, i - 1))]
    BY <1>10 DEF Fs!ReadBytes, Fs!Tell
  <1> DEFINE bytes == Fs!ReadBytes(n)
  <1>12. Len(bytes) = m /\ \A i \in 1..m : bytes[i] = Fs!ByteAt(Fs!Plus(sramReadAddr, i - 1))
    BY <1>8, <1>11
  <1> HIDE DEF bytes
  <1>13. Copied(n) = [i \in 1..m |-> IF bytes[i] = Fs!NoByte THEN Other ELSE bytes[i]]
    BY <1>12 DEF Copied, bytes
  <1> DEFINE copied == Copied(n)
  <1>14. Len(copied) = m /\ DOMAIN copied = 1..m
         /\ \A i \in 1..m : copied[i] = IF bytes[i] = Fs!NoByte THEN Other ELSE bytes[i]
    BY <1>8, <1>13
  <1>15. ASSUME NEW i \in 1..m
         PROVE  copied[i] = FileByte(From + i)
    <2>1. /\ From + i - 1 >= -1 /\ From + i <= FileEnd /\ From + i \in Int /\ i \in Nat /\ i > 0
      BY <1>2, <1>7, <1>8 DEF left
    <2> DEFINE address == Fs!Plus(sramReadAddr, i - 1)
    <2>2. address = IF From + i - 1 = -1 THEN Wrap - 1 ELSE From + i - 1
      <3>1. address = IF sramReadAddr + (i - 1) < Wrap THEN sramReadAddr + (i - 1)
                      ELSE sramReadAddr + (i - 1) - Wrap
        BY DEF Fs!Plus
      <3> QED
        BY <1>2, <1>3, <1>7, <2>1, <3>1
    <2> HIDE DEF address
    <2>3. Fs!Addr = 0..(Capacity - 1)
      BY DEF Fs!Addr
    <2>4. bytes[i] = Fs!ByteAt(address)
      BY <1>12 DEF address
    <2>5. CASE From + i - 1 = -1
      <3>1. address \notin Fs!Addr
        BY <1>1, <1>3, <2>2, <2>3, <2>5
      <3>2. bytes[i] = Fs!NoByte
        BY <2>4, <3>1 DEF Fs!ByteAt
      <3>3. From + i = 0
        BY <1>7, <2>1, <2>5
      <3>4. FileByte(0) = Other
        BY <1>2 DEF FileByte, FileEnd
      <3> QED
        BY <1>14, <3>2, <3>3, <3>4
    <2>6. CASE From + i - 1 # -1
      <3>1. address = From + i - 1 /\ address \in Fs!Addr /\ address + 1 = From + i
        BY <1>2, <1>3, <1>7, <2>1, <2>2, <2>3, <2>6
      <3>2. Fs!ByteAt(address) = FileByte(From + i)
        BY <3>1 DEF Fs!ByteAt, RegionInv
      <3>3. FileByte(From + i) # Fs!NoByte
        <4>1. FileByte(From + i) \in Bytes
          BY <2>1, FileIsBytes
        <4> QED
          BY <4>1, NoByteIsNone
      <3> QED
        BY <1>14, <2>4, <3>2, <3>3
    <2> QED
      BY <2>5, <2>6
  <1>16. copied \in Seq(Bytes)
    <2>1. \A i \in 1..m : copied[i] \in Bytes
      <3>1. \A i \in 1..m : From + i \in Int
        BY <1>2, <1>7, <1>8
      <3> QED
        BY <1>15, <3>1, FileIsBytes
    <2>2. copied = [i \in 1..m |-> copied[i]]
      BY <1>13, <1>14
    <2> HIDE DEF copied
    <2> QED
      BY <1>8, <2>1, <2>2
  <1>17. Fs!Plus(sramReadAddr, m) = IF From + m = -1 THEN sramReadAddr ELSE From + m
    <2>1. Fs!Plus(sramReadAddr, m) = IF sramReadAddr + m < Wrap THEN sramReadAddr + m
                                     ELSE sramReadAddr + m - Wrap
      BY DEF Fs!Plus
    <2>2. From + m <= FileEnd /\ m \in Nat
      BY <1>2, <1>7, <1>8 DEF left
    <2> QED
      BY <1>2, <1>3, <1>7, <2>1, <2>2
  <1> QED
    BY <1>7, <1>8, <1>10, <1>14, <1>15, <1>16, <1>17 DEF m, left

\* The buffer is b when its first d bytes, which were taken, are gone.
Shifted(b, d) ==
    /\ Good(b, Bytes) /\ d \in Nat /\ d <= At(br)
    /\ At(b) = At(br) - d /\ Available(b) = Available(br) - d
    /\ \A a \in 0..(Available(b) - 1) : b.buffer[a] = br.buffer[a + d]

\* The callback was asked for n bytes behind them.
Refilled(b, n) ==
    /\ n \in Nat /\ n = BufferBytes - Available(b)
    /\ br' = Reader!Filled(b, Stored(b, Available(b), n))
    /\ beyond' = beyond + n - Len(Copied(n))
    /\ Fs!ReadBuf(n) /\ UNCHANGED <<input, sram, lengthWord>>

\* A refill in numbers: it comes from place t of a file of size bytes; av bytes were in the
\* buffer and at of them taken; d go; the others, left, stay; n are asked for and m copied.
RefillSizes(t, size, av, at, d, left, n, m) ==
    /\ t \in Int /\ -1 <= t /\ t <= size /\ size \in Nat /\ av <= t + 1
    /\ av \in Nat /\ at \in Nat /\ at <= av /\ d \in Nat /\ d <= at
    /\ left = av - d /\ n \in Nat /\ n = BufferBytes - left
    /\ m = IF n > size - t THEN size - t ELSE n

LEMMA RefillPlaces ==
    ASSUME NEW t, NEW size, NEW av, NEW at, NEW d, NEW left, NEW n, NEW m,
           RefillSizes(t, size, av, at, d, left, n, m)
    PROVE  /\ t + m \in 0..size /\ m \in 0..n /\ n - m \in 0..BufferBytes
           /\ left \in Nat /\ left + n = BufferBytes /\ left + m <= t + m + 1
           /\ n - m > 0 => t + m = size
           /\ (t + m) - (left + m) = t - left
           /\ (t + m) - ((left + n - (at - d)) - (n - m)) = t - av + at
  <1>1. BufferBytes \in Nat \ {0}
    BY ReaderSizes
  <1>2. /\ t \in Int /\ -1 <= t /\ t <= size /\ size \in Nat /\ av <= t + 1
        /\ av \in Nat /\ at \in Nat /\ at <= av /\ d \in Nat /\ d <= at
        /\ left = av - d /\ n \in Nat /\ n = BufferBytes - left
    BY DEF RefillSizes
  <1>3. m = IF n > size - t THEN size - t ELSE n
    BY DEF RefillSizes
  <1>4. left \in Nat /\ m \in Nat /\ m <= n /\ t + m <= size /\ (n - m > 0 => t + m = size)
    BY <1>1, <1>2, <1>3
  <1>5. t + m >= 0
    <2>1. CASE t >= 0
      BY <1>2, <1>4, <2>1
    <2>2. CASE t = -1
      <3>1. av = 0 /\ n > 0
        BY <1>1, <1>2, <2>2
      <3> QED
        BY <1>2, <1>3, <2>2, <3>1
    <2> QED
      BY <1>2, <2>1, <2>2
  <1> QED
    BY <1>1, <1>2, <1>4, <1>5

\* A byte in front of what was copied, and one of it
LEMMA RefillByte ==
    ASSUME NEW t, NEW size, NEW av, NEW at, NEW d, NEW left, NEW n, NEW m,
           RefillSizes(t, size, av, at, d, left, n, m),
           NEW a \in 0..(left + m - 1)
    PROVE  /\ a \in 0..(left + n - 1)
           /\ a < left => /\ a \in 0..(left - 1) /\ a + d \in 0..(av - 1)
                          /\ (t - av) + (a + d) + 1 = t - left + a + 1
           /\ ~(a < left) => /\ a - left + 1 \in 1..m
                             /\ t + (a - left + 1) = t - left + a + 1
  <1>1. left \in Nat /\ m \in 0..n
    BY RefillPlaces
  <1>2. /\ t \in Int /\ av \in Nat /\ d \in Nat /\ left = av - d /\ n \in Nat
    BY DEF RefillSizes
  <1>3. m \in Nat /\ m <= n /\ a \in Nat /\ a <= left + m - 1
    BY <1>1, <1>2
  <1> QED
    BY <1>1, <1>2, <1>3

\* Whatever the callback left in the buffer behind the end of the
\* file, the bytes of the file are in it where they belong.
LEMMA RefillFromFile ==
    ASSUME input \in Inputs, RegionInv, BufferInv, TellInv, ~Fs!Eof,
           NEW b, NEW d, Shifted(b, d), NEW n, Refilled(b, n)
    PROVE  /\ RegionInv' /\ BufferInv' /\ TellInv'
           /\ Lsf(br') = Lsf(b) /\ beyond = 0
           /\ sramReadAddr = From => Position' = Position
           /\ At(br') = At(b)
           /\ \A a \in 0..(Available(b) - 1) : br'.buffer[a] = b.buffer[a]
           /\ sramReadAddr' \in 0..FileEnd
  <1> DEFINE copied == Copied(n)
             m == Len(copied)
             data == Stored(b, Available(b), n)
  <1>1. /\ From \in -1..FileEnd /\ m \in 0..n
        /\ m = IF n > FileEnd - From THEN FileEnd - From ELSE n
        /\ copied \in Seq(Bytes) /\ Fs!ReadLen(n) = m
        /\ \A i \in 1..m : copied[i] = FileByte(From + i)
        /\ Fs!Plus(sramReadAddr, m) = IF From + m = -1 THEN sramReadAddr ELSE From + m
        /\ beyond = 0 /\ (sramReadAddr # From => Available(br) = 0)
        /\ OfFile = Available(br) /\ Available(br) <= From + 1
    BY Copying DEF Refilled
  <1>2. FileEnd \in Nat
    BY FileIsBytes
  <1>3. /\ At(b) \in Nat /\ Available(b) \in Nat /\ Available(b) <= BufferBytes
        /\ BufferBytes \in Nat \ {0} /\ b.buffer \in [0..(BufferBytes - 1) -> Bytes]
        /\ Good(b, Bytes) /\ n \in Nat /\ n = BufferBytes - Available(b)
        /\ br' = Reader!Filled(b, Stored(b, Available(b), n))
        /\ At(b) = At(br) - d
    BY GoodPlaces DEF Shifted, Refilled
  <1>4. /\ At(br) \in Nat /\ Available(br) \in Nat /\ At(br) <= Available(br)
        /\ Position = FileStart + At(br) /\ FileStart \in Int /\ sramReadAddr \in Nat
    BY PlacesInFile
  <1> HIDE DEF copied
  <1>5. Len(data) = n /\ data \in Seq(Bytes) /\ \A i \in 1..m : data[i] = copied[i]
    <2> DEFINE memory == Reader!TailForClient(b)
               byte(i) == IF i <= m THEN copied[i]
                          ELSE memory[Reader!MemoryOrder(Available(b) + i - 1)]
    <2>1. data = [i \in 1..n |-> byte(i)]
      BY DEF Stored, copied
    <2>2. ASSUME NEW i \in 1..n
          PROVE  byte(i) \in Bytes
      <3>1. CASE i <= m
        BY <1>1, <2>2, <3>1
      <3>2. CASE ~(i <= m)
        <4>1. Available(b) + i - 1 \in 0..(BufferBytes - 1)
          BY <1>3
        <4>2. Available(b) + i - 1 \in RL!Addr
          BY <4>1 DEF RL!Addr, BufferBytes
        <4>3. Reader!MemoryOrder(Available(b) + i - 1) \in RL!Addr
          BY <4>2, RL!MemoryOrderStaysInBuffer, ReaderSizes, SameOperators
        <4>4. b \in RL!Readers(Bytes)
          BY <1>3 DEF Good
        <4>5. memory \in [RL!Addr -> Bytes]
          BY <4>4, RL!TailIsTurned, ReaderSizes, SameFunctions2
        <4> QED
          BY <3>2, <4>3, <4>5
      <3> QED
        BY <3>1, <3>2
    <2> HIDE DEF byte
    <2>3. data \in Seq(Bytes) /\ Len(data) = n /\ \A i \in 1..n : data[i] = byte(i)
      BY <1>3, <2>1, <2>2
    <2>4. \A i \in 1..m : i \in 1..n /\ byte(i) = copied[i]
      BY <1>1, <1>3 DEF byte
    <2> QED
      BY <2>3, <2>4
  <1> HIDE DEF data
  <1>6. /\ Good(br', Bytes) /\ At(br') = At(b) /\ Lsf(br') = Lsf(b)
        /\ Available(br') = Available(b) + n
        /\ \A a \in 0..(Available(br') - 1) :
              br'.buffer[a] = IF a < Available(b) THEN b.buffer[a]
                              ELSE data[a - Available(b) + 1]
    <2>1. Available(b) + Len(data) <= BufferBytes /\ br' = Reader!Filled(b, data)
      BY <1>3, <1>5 DEF data
    <2>2. Good(b, Bytes) /\ data \in Seq(Bytes) /\ Len(data) = n
      BY <1>3, <1>5
    <2>3. LET c == Reader!Filled(b, data) IN
          /\ Good(c, Bytes) /\ At(c) = At(b) /\ Lsf(c) = Lsf(b)
          /\ Available(c) = Available(b) + Len(data)
          /\ \A a \in 0..(Available(c) - 1) :
                c.buffer[a] = IF a < Available(b) THEN b.buffer[a]
                              ELSE data[a - Available(b) + 1]
      BY <2>1, <2>2, FillBytes
    <2> QED
      BY <2>1, <2>2, <2>3
  <1>7. /\ sramReadAddr' = IF From + m = -1 THEN sramReadAddr ELSE From + m
        /\ filesize' = FileEnd
    BY <1>1 DEF Refilled, Fs!ReadBuf, RegionInv, Fs!Tell
  <1>8. beyond' = n - m /\ beyond = 0
    BY <1>1 DEF Refilled, m, copied
  <1> HIDE DEF m
  <1>9. RefillSizes(From, FileEnd, Available(br), At(br), d, Available(b), n, m)
    BY <1>1, <1>2, <1>4 DEF Shifted, Refilled, RefillSizes
  <1> DEFINE t == From
             size == FileEnd
             av == Available(br)
             at == At(br)
             left == Available(b)
  <1>10. /\ t + m \in 0..size /\ m \in 0..n /\ n - m \in 0..BufferBytes
         /\ left \in Nat /\ left + n = BufferBytes /\ left + m <= t + m + 1
         /\ n - m > 0 => t + m = size
         /\ (t + m) - (left + m) = t - left
         /\ (t + m) - ((left + n - (at - d)) - (n - m)) = t - av + at
    BY <1>9, RefillPlaces
  <1>11. Bytes' = Bytes /\ FileEnd' = FileEnd /\ \A p : FileByte(p)' = FileByte(p)
    BY FileStays DEF Refilled
  <1>12. RegionInv'
    BY <1>7, <1>11 DEF Refilled, RegionInv
  <1>13. sramReadAddr' = t + m
    <2>1. t + m # -1
      BY <1>2, <1>10
    <2> QED
      BY <1>7, <2>1
  <1>14. OfFile' = left + m /\ FileStart' = t - left
    <2>1. OfFile' = (left + n) - (n - m)
      <3>1. OfFile' = Available(br') - beyond'
        BY DEF OfFile
      <3>2. Available(br') = left + n
        BY <1>6
      <3> QED
        BY <1>8, <3>1, <3>2
    <2>2. (left + n) - (n - m) = left + m
      <3>1. left \in Int /\ n \in Int /\ m \in Int
        BY <1>2, <1>3, <1>10
      <3> QED
        BY <3>1
    <2>3. FileStart' = (t + m) - (left + m)
      BY <1>13, <2>1, <2>2 DEF FileStart
    <2> QED
      BY <1>10, <2>1, <2>2, <2>3
  <1>15. av > 0 => FileStart = t - av
    BY <1>1 DEF FileStart
  <1>16. ASSUME NEW a \in 0..(left + m - 1)
         PROVE  br'.buffer[a] = FileByte((t - left) + a + 1)
    <2>1. /\ a \in 0..(left + n - 1)
          /\ a < left => /\ a \in 0..(left - 1) /\ a + d \in 0..(av - 1)
                         /\ (t - av) + (a + d) + 1 = t - left + a + 1
          /\ ~(a < left) => /\ a - left + 1 \in 1..m
                            /\ t + (a - left + 1) = t - left + a + 1
      BY <1>9, RefillByte
    <2>2. br'.buffer[a] = IF a < left THEN b.buffer[a] ELSE data[a - left + 1]
      <3>1. Available(br') = left + n
        BY <1>6
      <3>2. left \in Int /\ n \in Int
        BY <1>3
      <3>3. a \in 0..(Available(br') - 1)
        BY <2>1, <3>1, <3>2
      <3> QED
        BY <1>6, <3>3
    <2>3. CASE a < left
      <3>1. b.buffer[a] = br.buffer[a + d]
        BY <2>1, <2>3 DEF Shifted
      <3>2. av > 0
        BY <1>4, <2>1, <2>3
      <3>3. br.buffer[a + d] = FileByte((t - av) + (a + d) + 1)
        BY <1>1, <1>15, <2>1, <2>3, <3>2 DEF BufferInv
      <3> QED
        BY <2>1, <2>2, <2>3, <3>1, <3>3
    <2>4. CASE ~(a < left)
      <3>1. data[a - left + 1] = copied[a - left + 1]
        BY <1>5, <2>1, <2>4
      <3>2. copied[a - left + 1] = FileByte(t + (a - left + 1))
        BY <1>1, <2>1, <2>4 DEF m
      <3> QED
        BY <2>1, <2>2, <2>4, <3>1, <3>2
    <2> QED
      BY <2>3, <2>4
  <1>17. BufferInv'
    <2>1. beyond' \in 0..BufferBytes
      BY <1>8, <1>10
    <2>2. ASSUME NEW a \in 0..(OfFile' - 1)
          PROVE  br'.buffer[a] = FileByte(FileStart + a + 1)'
      <3>1. OfFile' = left + m
        BY <1>14
      <3>2. left \in Int /\ m \in Int
        BY <1>2, <1>3, <1>10
      <3>3. a \in 0..(left + m - 1)
        BY <2>2, <3>1, <3>2
      <3>4. br'.buffer[a] = FileByte(FileStart' + a + 1)
        BY <1>14, <1>16, <3>3
      <3> QED
        BY <1>11, <3>4 DEF FileByte
    <2>3. Good(br', Bytes')
      BY <1>6, <1>11
    <2> QED
      BY <2>1, <2>2, <2>3 DEF BufferInv
  <1>18. TellInv'
    <2>1. sramReadAddr' \in 0..FileEnd' /\ OfFile' <= sramReadAddr' + 1
      BY <1>10, <1>11, <1>13, <1>14
    <2>2. beyond' > 0 => sramReadAddr' = FileEnd'
      BY <1>8, <1>10, <1>11, <1>13
    <2> QED
      BY <2>1, <2>2 DEF TellInv
  <1>19. sramReadAddr = From => Position' = Position
    <2>1. Reader!Unconsumed(br') \div BitsPerByte = Available(br') - At(br')
      BY <1>6, GoodPlaces
    <2>2. Unread' = left + n - (at - d)
      <3>1. Unread' = Available(br') - At(br')
        BY <2>1 DEF Unread
      <3> QED
        BY <1>3, <1>4, <1>6, <3>1
    <2>3. Position' = (t + m) - ((left + n - (at - d)) - (n - m))
      BY <1>8, <1>13, <2>2 DEF Position, UnreadOfFile
    <2>4. sramReadAddr = From => FileStart = t - av
      BY <1>1 DEF FileStart
    <2> QED
      BY <1>4, <1>10, <2>3, <2>4
  <1>20. ASSUME NEW a \in 0..(Available(b) - 1)
         PROVE  br'.buffer[a] = b.buffer[a]
    <2>1. a \in 0..(Available(br') - 1) /\ a < Available(b)
      BY <1>3, <1>6, <1>20
    <2> QED
      BY <1>6, <2>1
  <1> QED
    BY <1>6, <1>8, <1>10, <1>12, <1>13, <1>17, <1>18, <1>19, <1>20

\* At the end nothing is added.
LEMMA RefillAtEnd ==
    ASSUME input \in Inputs, RegionInv, BufferInv, TellInv,
           NEW b, NEW d, Shifted(b, d), br' = Reader!NotFilled(b, <<>>),
           UNCHANGED <<input, beyond, sram, lengthWord, sramReadAddr, filesize>>,
           pc \in {"sync", "returned"} /\ ~cached => pc' \in {"sync", "returned"} /\ ~cached'
    PROVE  /\ RegionInv' /\ BufferInv' /\ TellInv'
           /\ Lsf(br') = Lsf(b) /\ At(br') = At(b)
           /\ Position' = Position /\ (InFile' <=> InFile)
  <1>1. /\ Good(b, Bytes) /\ d \in Nat /\ d <= At(br)
        /\ At(b) = At(br) - d /\ Available(b) = Available(br) - d
        /\ \A a \in 0..(Available(b) - 1) : b.buffer[a] = br.buffer[a + d]
    BY DEF Shifted
  <1>2. /\ Good(br', Bytes) /\ At(br') = At(b) /\ Lsf(br') = Lsf(b)
        /\ Available(br') = Available(b)
        /\ \A a \in 0..(Available(br') - 1) : br'.buffer[a] = b.buffer[a]
    BY <1>1, FillNothing
  <1>3. /\ At(br) \in Nat /\ Available(br) \in Nat /\ At(br) <= Available(br)
        /\ OfFile \in Int /\ FileStart \in Int /\ beyond \in Nat /\ sramReadAddr \in Nat
        /\ Position = FileStart + At(br) /\ (InFile <=> At(br) <= OfFile)
    BY PlacesInFile
  <1>4. Bytes' = Bytes /\ FileEnd' = FileEnd /\ \A p : FileByte(p)' = FileByte(p)
    BY FileStays
  <1>5. RegionInv'
    BY <1>4 DEF RegionInv
  <1>6. OfFile' = OfFile - d /\ FileStart' = FileStart + d
    <2>1. OfFile' = (Available(br) - d) - beyond
      BY <1>1, <1>2 DEF OfFile
    <2>2. OfFile = Available(br) - beyond
      BY DEF OfFile
    <2>3. OfFile' = OfFile - d
      BY <1>1, <1>3, <2>1, <2>2
    <2>4. FileStart' = sramReadAddr - (OfFile - d) /\ FileStart = sramReadAddr - OfFile
      BY <2>3 DEF FileStart
    <2>5. d \in Int /\ OfFile \in Int /\ sramReadAddr \in Int
      BY <1>1, <1>3
    <2>6. sramReadAddr - (OfFile - d) = (sramReadAddr - OfFile) + d
      BY <2>5
    <2> QED
      BY <2>3, <2>4, <2>6
  <1>7. BufferInv'
    <2>1. ASSUME NEW a \in 0..((OfFile - d) - 1)
          PROVE  br'.buffer[a] = FileByte((FileStart + d) + a + 1)
      <3>1. OfFile = Available(br) - beyond
        BY DEF OfFile
      <3>2. a \in 0..((Available(br) - d) - 1) /\ a + d \in 0..(OfFile - 1)
        <4>1. d \in Nat /\ OfFile \in Int /\ Available(br) \in Nat /\ beyond \in Nat
          BY <1>1, <1>3
        <4>2. ASSUME NEW o \in Int, NEW v \in Nat, NEW n \in Nat, o = v - n,
                     NEW k \in Nat, NEW x \in 0..((o - k) - 1)
              PROVE  x \in 0..((v - k) - 1) /\ x + k \in 0..(o - 1)
          BY <4>2
        <4> QED
          BY <2>1, <3>1, <4>1, <4>2
      <3>3. br'.buffer[a] = br.buffer[a + d]
        BY <1>1, <1>2, <3>2
      <3>4. br.buffer[a + d] = FileByte(FileStart + (a + d) + 1)
        BY <3>2 DEF BufferInv
      <3>5. FileStart + (a + d) + 1 = (FileStart + d) + a + 1
        BY <1>1, <1>3, <2>1
      <3> QED
        BY <3>3, <3>4, <3>5
    <2>2. ASSUME NEW a \in 0..(OfFile' - 1)
          PROVE  br'.buffer[a] = FileByte(FileStart + a + 1)'
      <3>1. a \in 0..((OfFile - d) - 1)
        BY <1>1, <1>3, <1>6, <2>2
      <3>2. br'.buffer[a] = FileByte(FileStart' + a + 1)
        BY <1>6, <2>1, <3>1
      <3> QED
        BY <1>4, <3>2 DEF FileByte
    <2>3. Good(br', Bytes') /\ beyond' \in 0..BufferBytes
      BY <1>2, <1>4 DEF BufferInv
    <2> QED
      BY <2>2, <2>3 DEF BufferInv
  <1>8. TellInv'
    <2>1. CASE /\ sramReadAddr \in 0..FileEnd /\ OfFile <= sramReadAddr + 1
               /\ beyond > 0 => sramReadAddr = FileEnd
      <3>1. OfFile - d <= sramReadAddr + 1
        BY <1>1, <1>3, <2>1
      <3> QED
        BY <1>4, <1>6, <2>1, <3>1 DEF TellInv
    <2>2. CASE /\ sramReadAddr \in BelowRegion /\ Available(br) = 0 /\ beyond = 0
               /\ pc \in {"sync", "returned"} /\ ~cached
      <3>1. Available(br') = 0
        BY <1>1, <1>2, <1>3, <2>2
      <3> QED
        BY <2>2, <3>1 DEF TellInv
    <2> QED
      BY <2>1, <2>2 DEF TellInv
  <1>9. Reader!Unconsumed(br') \div BitsPerByte = Available(br') - At(br')
    BY <1>2, GoodPlaces
  <1>10. Unread' = (Available(br) - d) - (At(br) - d) /\ Unread = Available(br) - At(br)
    BY <1>1, <1>2, <1>9, PlacesInFile DEF Unread
  <1>11. Unread' = Unread /\ Unread \in Int
    BY <1>1, <1>3, <1>10
  <1> QED
    BY <1>2, <1>5, <1>7, <1>8, <1>11 DEF Position, UnreadOfFile, InFile

LEMMA SomeRoom == Capacity \in Nat /\ Wrap \in Nat /\ Capacity + 1 < Wrap
  <1>1. BufferBytes = BytesPerWord * BufferWords /\ BufferBytes \in Nat \ {0}
    BY ReaderSizes
  <1> QED
    BY <1>1, DecoderAssumption

\* What a refill shifts out of the buffer, and what it forgets
LEMMA ShiftOfBuffer ==
    ASSUME BufferInv
    PROVE  LET b == Kept(Reader!BeforeRead(br)) IN
           ~Reader!FramesyncInBuffer(b) /\ \E d \in Nat : Shifted(b, d)
  <1> DEFINE b == Kept(Reader!BeforeRead(br))
  <1>1. Good(br, Bytes)
    BY DEF BufferInv
  <1>2. /\ Good(b, Bytes) /\ ~Reader!FramesyncInBuffer(b)
        /\ \E d \in Nat : Without(b, br, d)
    BY <1>1, ShiftBytes
  <1> HIDE DEF b
  <1>3. PICK d \in Nat : Without(b, br, d)
    BY <1>2
  <1>4. Shifted(b, d)
    BY <1>2, <1>3 DEF Shifted, Without
  <1> QED
    BY <1>2, <1>4 DEF b

LEMMA RefillKeeps ==
    ASSUME input \in Inputs, ReaderInv, Refill
    PROVE  ReaderInv'
  <1> DEFINE b == Kept(Reader!BeforeRead(br))
             n == Reader!SpaceLeft(b)
  <1>1. ControlInv /\ RegionInv /\ BufferInv /\ TellInv /\ LookInv /\ SyncInv
    BY DEF ReaderInv
  <1>2. /\ ~Ready
        /\ UNCHANGED <<sram, lengthWord, input, raw, skip, cached, lookahead, last_seen_framesync>>
        /\ Fs!ReadBuf(n)
        /\ IF Fs!Eof
           THEN br' = Reader!NotFilled(b, <<>>) /\ EndOfStream /\ UNCHANGED beyond
           ELSE /\ br' = Reader!Filled(b, Stored(b, Reader!Available(b), n))
                /\ beyond' = beyond + n - Len(Copied(n))
                /\ UNCHANGED <<state, pc>>
    BY DEF Refill, syncVars
  <1>3. PICK d \in Nat : ~Reader!FramesyncInBuffer(b) /\ Shifted(b, d)
    BY <1>1, ShiftOfBuffer
  <1> HIDE DEF b
  <1>4. Shifted(b, d) /\ Good(b, Bytes)
    BY <1>3 DEF Shifted
  <1>5. pc \notin {"returned", "bad", "gap"} /\ ~cached
    <2>1. /\ At(br) \in Nat /\ Available(br) \in Nat /\ At(br) <= Available(br)
          /\ Ready <=> Reads * BitsPerByte <= (Available(br) - At(br)) * BitsPerByte
      BY <1>1, PlacesInFile
    <2>2. Reads # 0
      BY <1>2, <2>1 DEF BitsPerByte
    <2> QED
      BY <1>1, <2>2 DEF Reads, ControlInv
  <1>6. CASE Fs!Eof
    <2>1. /\ br' = Reader!NotFilled(b, <<>>)
          /\ UNCHANGED <<input, beyond, sram, lengthWord, sramReadAddr, filesize, cached>>
          /\ state' = "END_OF_STREAM"
          /\ pc' = IF pc \in {"body", "crc16"} THEN "bad" ELSE "returned"
      BY <1>2, <1>6 DEF EndOfStream, Fs!ReadBuf, Fs!readerVars
    <2>2. pc \in {"sync", "returned"} /\ ~cached => pc' \in {"sync", "returned"} /\ ~cached'
      BY <2>1
    <2>3. /\ RegionInv' /\ BufferInv' /\ TellInv' /\ Lsf(br') = Lsf(b)
      BY <1>1, <1>4, <2>1, <2>2, RefillAtEnd
    <2>4. LookInv'
      BY <1>5, <2>1 DEF LookInv
    <2>5. ~SyncSeen'
      BY <1>3, <2>3 DEF SyncSeen, Reader!FramesyncInBuffer, Lsf
    <2>6. SyncInv'
      BY <1>1, <1>2, <2>1, <2>5, FileStays DEF SyncInv, InFrame, Early
    <2>7. ControlInv'
      BY <1>1, <1>2, <1>5, <2>1, FileStays DEF ControlInv, States, Points
    <2> QED
      BY <2>3, <2>4, <2>6, <2>7 DEF ReaderInv
  <1>7. CASE ~Fs!Eof
    <2>1. /\ br' = Reader!Filled(b, Stored(b, Available(b), n))
          /\ beyond' = beyond + n - Len(Copied(n))
          /\ UNCHANGED <<state, pc>>
      BY <1>2, <1>7 DEF Available
    <2>2. n \in Nat /\ n = BufferBytes - Available(b)
      BY <1>4, GoodPlaces
    <2> HIDE DEF n
    <2>3. Refilled(b, n)
      BY <1>2, <2>1, <2>2 DEF Refilled
    <2>4. /\ RegionInv' /\ BufferInv' /\ TellInv' /\ Lsf(br') = Lsf(b) /\ beyond = 0
          /\ sramReadAddr = From => Position' = Position
      BY <1>1, <1>4, <1>7, <2>3, RefillFromFile
    <2>5. LookInv'
      <3>1. ASSUME pc' = "sync2", InFile'
            PROVE  FileByte(Position)' = FF
        <4>1. pc = "sync2"
          BY <2>1, <3>1
        <4>2. /\ sramReadAddr \in 0..FileEnd /\ FileEnd \in Nat /\ FileEnd <= Capacity
              /\ Capacity \in Nat /\ Capacity + 1 < Wrap /\ Wrap \in Nat
          BY <1>1, <4>1, FileIsBytes, SomeRoom DEF TellInv
        <4>3. sramReadAddr = From
          BY <4>2 DEF From
        <4>4. InFile
          BY <1>1, <2>4, PlacesInFile DEF OfFile
        <4>5. FileByte(Position) = FF
          BY <1>1, <4>1, <4>4 DEF LookInv
        <4> QED
          BY <1>2, <2>4, <4>3, <4>5 DEF FileByte
      <3> QED
        BY <1>2, <1>5, <3>1 DEF LookInv
    <2>6. ~SyncSeen'
      BY <1>3, <2>4 DEF SyncSeen, Reader!FramesyncInBuffer, Lsf
    <2>7. SyncInv'
      <3>1. FileEnd' = FileEnd /\ \A p : FileByte(p)' = FileByte(p)
        BY <1>2, FileStays
      <3> QED
        BY <1>1, <1>2, <2>1, <2>4, <2>6, <3>1 DEF SyncInv, InFrame
    <2>8. ControlInv'
      BY <1>1, <1>2, <2>1, FileStays DEF ControlInv
    <2> QED
      BY <2>4, <2>5, <2>7, <2>8 DEF ReaderInv
  <1> QED
    BY <1>6, <1>7

-------------------------------------------------------------------------------
(* The decoder's run *)

LEMMA ReaderInit ==
    ASSUME Init
    PROVE  input \in Inputs /\ ReaderInv
  <1>1. /\ input \in Inputs /\ lengthWord = FileEnd /\ filesize = lengthWord /\ sramReadAddr = 0
        /\ sram = [a \in Fs!Addr |-> IF a < lengthWord THEN input.file[a + 1] ELSE Other]
        /\ br = [Reader!NewReader EXCEPT !.buffer = [a \in Reader!Addr |-> Other]]
        /\ state = "SEARCH_FOR_METADATA" /\ pc = "marker" /\ raw = <<>> /\ skip = 0
        /\ cached = FALSE /\ lookahead = Other /\ last_seen_framesync = 0 /\ beyond = 0
    BY DEF Init, FileEnd
  <1>2. /\ FileEnd \in Nat /\ FileEnd <= Capacity /\ Other \in Bytes
    BY <1>1, FileIsBytes
  <1>3. Wrap \in Nat \ {0, 1} /\ BytesPerWord \in Nat \ {0} /\ BufferWords \in Nat \ {0}
    BY ReaderSizes
  <1>4. ControlInv
    <2>1. <<>> \in Seq(RawBytes)
      OBVIOUS
    <2> QED
      BY <1>1, <1>2, <2>1 DEF ControlInv, States, Points
  <1>5. RegionInv
    <2>1. \A a \in Fs!Addr : a < FileEnd <=> a + 1 \in 1..FileEnd
      BY <1>2, SomeRoom DEF Fs!Addr
    <2>2. \A a \in Fs!Addr : (IF a < lengthWord THEN input.file[a + 1] ELSE Other) = FileByte(a + 1)
      BY <1>1, <2>1 DEF FileByte, FileEnd
    <2> QED
      BY <1>1, <2>2 DEF RegionInv
  <1>6. /\ br.buffer = [a \in Reader!Addr |-> Other] /\ br.words = 0 /\ br.bytes = 0
        /\ br.consumed_words = 0 /\ br.consumed_bits = 0 /\ br.last_seen_framesync = Reader!None
    BY <1>1 DEF Reader!NewReader
  <1>7. br \in RL!Readers(Bytes)
    <2>1. <<>> \in Seq(Bytes)
      OBVIOUS
    <2>2. Reader!None \in Nat
      BY <1>3 DEF Reader!None
    <2>3. [a \in Reader!Addr |-> Other] \in [RL!Addr -> Bytes]
      BY <1>2, SameOperators
    <2>4. br = [buffer |-> [a \in Reader!Addr |-> Other],
                words |-> 0, bytes |-> 0, consumed_words |-> 0, consumed_bits |-> 0,
                read_crc16 |-> <<>>, crc16_offset |-> 0, crc16_align |-> 0,
                read_limit_set |-> FALSE, read_limit |-> Reader!None,
                last_seen_framesync |-> Reader!None]
      BY <1>1 DEF Reader!NewReader
    <2>5. ASSUME NEW buffer \in [RL!Addr -> Bytes], NEW crc \in Seq(Bytes), NEW none \in Nat
          PROVE  [buffer |-> buffer,
                  words |-> 0, bytes |-> 0, consumed_words |-> 0, consumed_bits |-> 0,
                  read_crc16 |-> crc, crc16_offset |-> 0, crc16_align |-> 0,
                  read_limit_set |-> FALSE, read_limit |-> none,
                  last_seen_framesync |-> none] \in RL!Readers(Bytes)
      BY DEF RL!Readers
    <2> QED
      BY <2>1, <2>2, <2>3, <2>4, <2>5
  <1>8. RL!Available(br) = 0 /\ RL!Consumed(br) = 0 /\ RL!BufferBytes \in Nat
        /\ RL!BitsPerWord > 0
    <2>1. 0 * BytesPerWord = 0 /\ 0 * RL!BitsPerWord = 0 /\ RL!BufferBytes \in Nat
          /\ RL!BitsPerWord \in Nat \ {0}
      <3>1. RL!BitsPerWord = BytesPerWord * 8
        BY DEF RL!BitsPerWord, BitsPerByte
      <3> QED
        BY <1>3, <3>1, ReaderSizes, SameOperators
    <2> QED
      BY <1>6, <2>1 DEF RL!Available, RL!Consumed
  <1>9. Good(br, Bytes)
    BY <1>3, <1>6, <1>7, <1>8 DEF Good, RL!Sane, BitsPerByte
  <1>10. Available(br) = 0 /\ OfFile = 0
    BY <1>1, <1>8, SameOperators DEF Available, OfFile
  <1>11. BufferInv
    BY <1>1, <1>9, <1>10, ReaderSizes DEF BufferInv
  <1>12. TellInv
    BY <1>1, <1>2, <1>10 DEF TellInv
  <1>13. LookInv
    BY <1>1 DEF LookInv
  <1>14. SyncInv
    <2>1. ~SyncSeen
      BY <1>6 DEF SyncSeen, Reader!FramesyncInBuffer
    <2> QED
      BY <1>1, <1>2, <2>1 DEF SyncInv, InFrame
  <1> QED
    BY <1>1, <1>4, <1>5, <1>11, <1>12, <1>13, <1>14 DEF ReaderInv

LEMMA ReaderStays ==
    ASSUME ReaderInv, UNCHANGED vars
    PROVE  ReaderInv'
  BY DEF ReaderInv, ControlInv, RegionInv, BufferInv, TellInv, LookInv, SyncInv, vars, fileVars,
     fsVars, syncVars, RawBytes, Bytes, FileByte, FileEnd, FileStart, OfFile, SyncSeen, InFrame,
     InFile, Position, UnreadOfFile, Unread

LEMMA WritingStep ==
    ASSUME input \in Inputs, ReaderInv, WriteSilence \/ WriteFrame
    PROVE  ReaderInv'
  <1>1. CASE WriteSilence
    BY <1>1, WritingKeeps DEF WriteSilence, Aborted
  <1>2. CASE WriteFrame
    BY <1>2, WritingKeeps DEF WriteFrame, Aborted
  <1> QED
    BY <1>1, <1>2

LEMMA ReaderStep ==
    ASSUME input \in Inputs, ReaderInv, [Next]_vars
    PROVE  ReaderInv'
  <1>1. CASE Refill
    BY <1>1, RefillKeeps
  <1>2. CASE FindMetadata
    BY <1>2, FindMetadataKeeps
  <1>3. CASE FindMetadata2
    BY <1>3, FindMetadata2Keeps
  <1>4. CASE ReadMetadata
    BY <1>4, ReadMetadataKeeps
  <1>5. CASE SkipBlock
    BY <1>5, SkipBlockKeeps
  <1>6. CASE SearchSync
    BY <1>6, SearchSyncKeeps
  <1>7. CASE SearchSync2
    BY <1>7, SearchSync2Keeps
  <1>8. CASE ReadParameters
    BY <1>8, ReadParametersKeeps
  <1>9. CASE ReadNumber
    BY <1>9, ReadNumberKeeps
  <1>10. CASE ReadBlockSize
    BY <1>10, ReadBlockSizeKeeps
  <1>11. CASE ReadCrc8
    BY <1>11, ReadCrc8Keeps
  <1>12. CASE ReadBody
    BY <1>12, ReadBodyKeeps
  <1>13. CASE ReadCrc16
    BY <1>13, ReadCrc16Keeps
  <1>14. CASE WriteSilence \/ WriteFrame
    BY <1>14, WritingStep
  <1>15. CASE Rewind
    BY <1>15, RewindKeeps
  <1>16. CASE Returned \/ UNCHANGED vars
    BY <1>16, ReaderStays DEF Returned
  <1> QED
    BY <1>1, <1>2, <1>3, <1>4, <1>5, <1>6, <1>7, <1>8, <1>9, <1>10, <1>11, <1>12, <1>13,
       <1>14, <1>15, <1>16 DEF Next, Go

LEMMA ReaderSuffices ==
    ASSUME PlacesInv, ReaderInv
    PROVE  TypeOK /\ ReaderKeepsItsPlace
  <1>1. /\ ControlInv /\ RegionInv /\ BufferInv /\ TellInv /\ LookInv /\ SyncInv
        /\ input \in Inputs
    BY DEF ReaderInv, PlacesInv
  <1>2. /\ FileEnd \in Nat /\ FileEnd <= Capacity /\ \A p \in Int : FileByte(p) \in Bytes
    BY <1>1, FileIsBytes
  <1>3. /\ At(br) \in Nat /\ Available(br) \in Nat
        /\ NextAt = At(br) /\ Unread = Available(br) - At(br)
        /\ sramReadAddr \in Nat /\ sramReadAddr < Wrap
        /\ OfFile \in Int /\ FileStart \in Int /\ beyond \in Nat
        /\ Position = FileStart + At(br) /\ Lsf(br) \in Nat
    BY <1>1, PlacesInFile
  <1>4. Wrap \in Nat \ {0, 1} /\ BytesPerWord \in Nat \ {0} /\ BufferWords \in Nat \ {0}
    BY ReaderSizes
  <1>5. TypeOK
    <2>1. sram \in [Fs!Addr -> Bytes]
      <3>1. \A a \in Fs!Addr : a + 1 \in Int
        BY SomeRoom DEF Fs!Addr
      <3> QED
        BY <1>1, <1>2, <3>1 DEF RegionInv
    <2>2. /\ br.words \in 0..BufferWords /\ br.bytes \in 0..(BytesPerWord - 1)
          /\ br.consumed_words \in 0..BufferWords
          /\ br.consumed_bits \in 0..(Reader!BitsPerWord - 1)
      <3>1. br \in RL!Readers(Bytes) /\ RL!Sane(br)
        BY <1>1 DEF BufferInv, Good
      <3>2. br.words <= BufferWords /\ br.consumed_words <= br.words
        BY <3>1, RL!SaneWords, ReaderSizes
      <3>3. /\ br.words \in Nat /\ br.bytes \in Nat
            /\ br.consumed_words \in Nat /\ br.consumed_bits \in Nat
        BY <3>1 DEF RL!Readers
      <3>4. br.bytes < BytesPerWord /\ br.consumed_bits < Reader!BitsPerWord
        BY <3>1, SameOperators DEF RL!Sane
      <3>5. Reader!BitsPerWord \in Nat
        BY <1>4 DEF Reader!BitsPerWord, BitsPerByte
      <3> QED
        BY <1>4, <3>2, <3>3, <3>4, <3>5
    <2>3. last_seen_framesync \in 0..(Wrap - 1)
      <3>1. last_seen_framesync \in 0..FileEnd \/ last_seen_framesync \in BelowRegion
        BY <1>1 DEF SyncInv
      <3>2. BufferBytes \in Nat /\ BufferBytes <= Wrap /\ Capacity < Wrap /\ Capacity \in Nat
        BY ReaderSizes, DecoderAssumption
      <3> QED
        BY <1>2, <1>4, <3>1, <3>2 DEF BelowRegion
    <2>4. raw \in Seq(Bytes \cup {Block(n, last) : n \in 0..MaxExtraBody, last \in 0..1})
      BY <1>1 DEF ControlInv, RawBytes
    <2>5. frame \in FrameRead
      BY DEF PlacesInv, Placed
    <2>6. beyond \in 0..(BufferWords * BytesPerWord)
      BY <1>1 DEF BufferInv, BufferBytes
    <2>7. sramReadAddr \in 0..(Wrap - 1) /\ filesize = lengthWord /\ lengthWord = Len(input.file)
      BY <1>1, <1>3, <1>4 DEF RegionInv, FileEnd
    <2> QED
      BY <1>1, <2>1, <2>2, <2>3, <2>4, <2>5, <2>6, <2>7
      DEF TypeOK, ControlInv, States, Points, PlacesInv
  <1>6. ReaderKeepsItsPlace
    <2>1. ASSUME NEW i \in 0..(UnreadOfFile - 1)
          PROVE  br.buffer[NextAt + i] = FileByte(Position + i + 1)
      <3>1. UnreadOfFile = OfFile - At(br)
        BY <1>3 DEF UnreadOfFile, OfFile
      <3>2. At(br) + i \in 0..(OfFile - 1)
        BY <1>3, <2>1, <3>1
      <3>3. FileStart + (At(br) + i) + 1 = Position + i + 1
        BY <1>3, <2>1
      <3> QED
        BY <1>1, <1>3, <3>2, <3>3 DEF BufferInv
    <2>2. InFile /\ cached => lookahead = FileByte(Position)
      BY <1>1 DEF LookInv
    <2> QED
      BY <1>1, <2>1, <2>2 DEF ReaderKeepsItsPlace, SyncInv, SyncSeen, Lsf
  <1> QED
    BY <1>5, <1>6

\* The decoder's variables have their types; the reader's place stays in its buffer and
\* the pointer in the region, whatever bytes a damaged file makes it take for a header.
THEOREM TypeCorrect == Spec => []TypeOK
  <1>1. Init => PlacesInv /\ ReaderInv
    BY PlacesInit, ReaderInit
  <1>2. PlacesInv /\ ReaderInv /\ [Next]_vars => PlacesInv' /\ ReaderInv'
    BY PlacesStep, ReaderStep DEF PlacesInv
  <1>3. PlacesInv /\ ReaderInv => TypeOK
    BY ReaderSuffices
  <1> QED
    BY <1>1, <1>2, <1>3, PTL DEF Spec

\* Refills, shifts, rewinds and seeks neither lose nor repeat nor reorder a byte of the
\* file, and the place remembered for a frame is behind its sync
\* (FLAC__bitreader, frame_sync_, read_callback_, file_read_callback_).
THEOREM ReaderAlwaysKeepsItsPlace == Spec => []ReaderKeepsItsPlace
  <1>1. Init => PlacesInv /\ ReaderInv
    BY PlacesInit, ReaderInit
  <1>2. PlacesInv /\ ReaderInv /\ [Next]_vars => PlacesInv' /\ ReaderInv'
    BY PlacesStep, ReaderStep DEF PlacesInv
  <1>3. PlacesInv /\ ReaderInv => ReaderKeepsItsPlace
    BY ReaderSuffices
  <1> QED
    BY <1>1, <1>2, <1>3, PTL DEF Spec

\* Only a rewind leaves a bad frame for a search.
LEMMA SearchGoesOnStep ==
    ASSUME PlacesInv, ReaderInv, [Next]_vars
    PROVE  pc = "bad" /\ pc' = "sync" /\ beyond = 0 /\ last_seen_framesync # 0 =>
               Position' >= last_seen_framesync
  <1> SUFFICES ASSUME pc = "bad", pc' = "sync", beyond = 0, last_seen_framesync # 0
               PROVE  Position' >= last_seen_framesync
    OBVIOUS
  <1>1. ~(Ready /\ pc = "bad") => FALSE
    <2>1. BufferInv /\ TellInv /\ input \in Inputs
      BY DEF ReaderInv, PlacesInv
    <2>2. /\ At(br) \in Nat /\ Available(br) \in Nat /\ At(br) <= Available(br)
          /\ Ready <=> Reads * BitsPerByte <= (Available(br) - At(br)) * BitsPerByte
      BY <2>1, PlacesInFile
    <2>3. Reads = 0
      BY DEF Reads
    <2> QED
      BY <2>2, <2>3 DEF BitsPerByte
  <1>2. Rewind
    BY <1>1 DEF Next, Go, Refill, FindMetadata, FindMetadata2, ReadMetadata, SkipBlock,
       SearchSync, SearchSync2, ReadParameters, ReadNumber, ReadBlockSize, ReadCrc8, ReadBody,
       ReadCrc16, WriteSilence, WriteFrame, Returned, vars
  <1> QED
    BY <1>2, RewindKeeps DEF PlacesInv

\* After a bad frame the search goes on behind its sync, in the buffer or by a seek: a
\* damaged frame cannot keep the decoder where it is (read_frame_, frame_sync_).
THEOREM SearchAlwaysGoesOn == Spec => SearchGoesOn
  <1>1. Init => PlacesInv /\ ReaderInv
    BY PlacesInit, ReaderInit
  <1>2. PlacesInv /\ ReaderInv /\ [Next]_vars => PlacesInv' /\ ReaderInv'
    BY PlacesStep, ReaderStep DEF PlacesInv
  <1>3. PlacesInv /\ ReaderInv /\ [Next]_vars =>
            [pc = "bad" /\ pc' = "sync" /\ beyond = 0 /\ last_seen_framesync # 0 =>
                 Position' >= last_seen_framesync]_vars
    BY SearchGoesOnStep
  <1> QED
    BY <1>1, <1>2, <1>3, PTL DEF Spec, SearchGoesOn

-------------------------------------------------------------------------------
(* The CRC of a frame *)

\* The running CRC of b, with what it has left out so far, is over s.
CrcOver(b, s) ==
    RL!CrcBehind(b) /\ s = b.read_crc16 \o RL!BytesOf(b, RL!CrcPlace(b), At(b))

\* The assumptions of RL hold here.
LEMMA CrcSizes ==
    ASSUME NEW S, NEW b, Good(b, S), RL!CrcBehind(b)
    PROVE  /\ RL!CrcPlace(b) \in Nat /\ RL!CrcPlace(b) <= At(b) /\ At(b) <= RL!BufferBytes
           /\ At(b) \in Nat /\ At(b) * BitsPerByte = RL!Consumed(b)
  <1>1. b \in RL!Readers(S) /\ b.crc16_align < RL!BitsPerWord
    BY DEF Good, RL!CrcBehind
  <1>2. RL!CrcPlace(b) \in Nat
    BY <1>1, RL!PlaceOfCrc, ReaderSizes
  <1>3. /\ At(b) \in Nat /\ At(b) * BitsPerByte = RL!Consumed(b)
        /\ At(b) <= Available(b) /\ Available(b) \in Nat /\ Available(b) <= BufferBytes
        /\ BufferBytes \in Nat /\ BufferBytes = RL!BufferBytes
    BY GoodPlaces, SameOperators
  <1>4. RL!CrcPlace(b) * BitsPerByte <= At(b) * BitsPerByte
    BY <1>3 DEF RL!CrcBehind
  <1>5. RL!CrcPlace(b) <= At(b)
    BY <1>2, <1>3, <1>4 DEF BitsPerByte
  <1> QED
    BY <1>2, <1>3, <1>5

LEMMA CrcStarts ==
    ASSUME NEW S, NEW b, Good(b, S), NEW seed \in Seq(S)
    PROVE  CrcOver(Reader!ResetReadCrc16(b, seed), seed)
  <1> DEFINE c == Reader!ResetReadCrc16(b, seed)
  <1>1. /\ b \in RL!Readers(S) /\ RL!Sane(b) /\ b.consumed_bits % BitsPerByte = 0
        /\ b.consumed_bits < RL!BitsPerWord
    BY DEF Good, RL!Sane
  <1>2. /\ c.read_crc16 = seed /\ c.crc16_offset = b.consumed_words
        /\ c.crc16_align = b.consumed_bits
        /\ c.consumed_words = b.consumed_words /\ c.consumed_bits = b.consumed_bits
    BY <1>1 DEF Reader!ResetReadCrc16, RL!Readers
  <1>3. Good(c, S) /\ At(c) = At(b)
    BY ResetCrc
  <1> HIDE DEF c
  <1>4. RL!CrcPlace(c) = At(c)
    <2>1. /\ b.consumed_words \in Nat /\ b.consumed_bits \in Nat
          /\ BytesPerWord \in Nat /\ RL!BitsPerWord = BytesPerWord * 8
      BY <1>1, ReaderSizes DEF RL!Readers, RL!BitsPerWord
    <2> DEFINE w == b.consumed_words * BytesPerWord
               k == b.consumed_bits
    <2>2. w \in Nat /\ b.consumed_words * RL!BitsPerWord = w * 8
      BY <2>1
    <2>3. k \in Nat /\ k % 8 = 0
      BY <1>1, <2>1 DEF BitsPerByte
    <2>4. RL!CrcPlace(c) = w + (k \div 8) /\ At(c) = (w * 8 + k) \div 8
      BY <1>2, <2>2, SameOperators DEF RL!CrcPlace, At, RL!Consumed, BitsPerByte
    <2> HIDE DEF w, k
    <2>5. (w * 8 + k) \div 8 = w + (k \div 8)
      BY <2>2, <2>3
    <2> QED
      BY <2>4, <2>5
  <1>5. RL!CrcBehind(c)
    <2>1. /\ At(c) \in Nat /\ At(c) * BitsPerByte = RL!Consumed(c)
      BY <1>3, GoodPlaces, SameOperators
    <2> QED
      BY <1>1, <1>2, <1>4, <2>1 DEF RL!CrcBehind, BitsPerByte
  <1>6. RL!BytesOf(c, RL!CrcPlace(c), At(c)) = <<>>
    BY <1>3, <1>4, GoodPlaces, RL!NoBytes, ReaderSizes
  <1>7. seed \o <<>> = seed
    OBVIOUS
  <1> QED
    BY <1>2, <1>5, <1>6, <1>7 DEF CrcOver, c

\* What is consumed is added.
LEMMA CrcGoesOn ==
    ASSUME NEW S, NEW b, Good(b, S), NEW s, CrcOver(b, s), At(b) < Available(b)
    PROVE  CrcOver(Reader!Consume(b, BitsPerByte), Append(s, b.buffer[At(b)]))
  <1> DEFINE c == Reader!Consume(b, BitsPerByte)
             place == RL!CrcPlace(b)
             x == RL!BytesOf(b, place, At(b))
             y == RL!BytesOf(b, At(b), At(b) + 1)
             z == b.read_crc16
  <1>1. /\ RL!CrcBehind(b) /\ s = z \o x
    BY DEF CrcOver
  <1>2. /\ place \in Nat /\ place <= At(b) /\ At(b) \in Nat
    BY <1>1, CrcSizes
  <1>3. /\ Available(b) \in Nat /\ Available(b) <= BufferBytes
        /\ BufferBytes \in Nat /\ BufferBytes = RL!BufferBytes
        /\ b.buffer \in [0..(BufferBytes - 1) -> S] /\ z \in Seq(S)
    BY GoodPlaces, SameOperators
  <1>4. b \in RL!Readers(S)
    BY DEF Good
  <1>5. /\ Good(c, S) /\ SameBytes(c, b) /\ At(c) = At(b) + 1
    <2>1. PICK k \in Nat : k = 1
      OBVIOUS
    <2>2. k <= Available(b) - At(b) /\ k * BitsPerByte = BitsPerByte
      BY <1>2, <1>3, <2>1 DEF BitsPerByte
    <2>3. /\ Good(Reader!Consume(b, k * BitsPerByte), S)
          /\ SameBytes(Reader!Consume(b, k * BitsPerByte), b)
          /\ At(Reader!Consume(b, k * BitsPerByte)) = At(b) + k
      BY <2>2, ConsumeBytes
    <2> QED
      BY <2>1, <2>2, <2>3
  <1>6. /\ c.read_crc16 = b.read_crc16 /\ c.crc16_offset = b.crc16_offset
        /\ c.crc16_align = b.crc16_align
    BY <1>4 DEF Reader!Consume, RL!Readers
  <1> HIDE DEF c
  <1>7. c.buffer = b.buffer
    BY <1>5 DEF SameBytes
  <1>8. RL!CrcPlace(c) = place
    BY <1>6 DEF RL!CrcPlace
  <1>9. RL!CrcBehind(c)
    <2>1. /\ At(c) \in Nat /\ At(c) * BitsPerByte = RL!Consumed(c)
      BY <1>5, GoodPlaces, SameOperators
    <2>2. place * BitsPerByte <= At(c) * BitsPerByte
      BY <1>2, <1>5 DEF BitsPerByte
    <2> QED
      BY <1>1, <1>6, <1>8, <2>1, <2>2 DEF RL!CrcBehind
  <1>10. RL!BytesOf(c, RL!CrcPlace(c), At(c)) = x \o y
    <2>1. At(b) + 1 \in Nat /\ At(b) + 1 <= RL!BufferBytes /\ At(b) <= At(b) + 1
      BY <1>2, <1>3
    <2> HIDE DEF place
    <2>2. RL!BytesOf(b, place, At(b)) \o RL!BytesOf(b, At(b), At(b) + 1)
              = RL!BytesOf(b, place, At(b) + 1)
      BY <1>2, <1>4, <2>1, RL!BytesJoin, ReaderSizes
    <2>3. RL!BytesOf(c, place, At(b) + 1) = RL!BytesOf(b, place, At(b) + 1)
      BY <1>7 DEF RL!BytesOf
    <2> QED
      BY <1>5, <1>8, <2>2, <2>3
  <1>11. y = <<b.buffer[At(b)]>> /\ b.buffer[At(b)] \in S
    <2> DEFINE a == At(b)
    <2>1. a \in 0..(BufferBytes - 1)
      BY <1>2, <1>3
    <2>2. y = [i \in 1..((a + 1) - a) |-> b.buffer[a + i - 1]]
      BY DEF RL!BytesOf
    <2>3. a \in Nat
      BY <1>2
    <2> HIDE DEF a
    <2>4. 1..((a + 1) - a) = {1} /\ a + 1 - 1 = a
      BY <2>3
    <2>5. y = [i \in {1} |-> b.buffer[a]]
      BY <2>2, <2>4
    <2>6. <<b.buffer[a]>> = [i \in {1} |-> b.buffer[a]]
      OBVIOUS
    <2> QED
      BY <1>3, <2>1, <2>5, <2>6 DEF a
  <1>12. x \in Seq(S)
    <2>1. At(b) <= RL!BufferBytes
      BY <1>2, <1>3
    <2> QED
      BY <1>2, <1>4, <2>1, RL!BytesAreThere, ReaderSizes
  <1> HIDE DEF x, y, z
  <1>13. z \o (x \o <<b.buffer[At(b)]>>) = Append(z \o x, b.buffer[At(b)])
    BY <1>3, <1>11, <1>12
  <1> QED
    BY <1>1, <1>6, <1>9, <1>10, <1>11, <1>13 DEF CrcOver, c, z

\* What is asked for is all of it.
LEMMA CrcIsTaken ==
    ASSUME NEW S, NEW b, Good(b, S), NEW s, CrcOver(b, s)
    PROVE  Reader!GetReadCrc16(b).read_crc16 = s
  <1>1. /\ At(b) \in Nat /\ At(b) * BitsPerByte = RL!Consumed(b)
    BY CrcSizes DEF CrcOver
  <1>2. b \in RL!Readers(S) /\ RL!Sane(b) /\ RL!ByteAligned(b) /\ RL!CrcBehind(b)
    BY DEF Good, RL!ByteAligned, CrcOver
  <1>3. RL!GetReadCrc16(b).read_crc16 = b.read_crc16 \o RL!BytesOf(b, RL!CrcPlace(b), At(b))
    BY <1>1, <1>2, RL!CrcTakesBytes, ReaderSizes
  <1> QED
    BY <1>3, SameCrc DEF CrcOver

\* The words that leave the buffer are in it,
LEMMA CrcIsKept ==
    ASSUME NEW S, NEW b, Good(b, S), NEW s, CrcOver(b, s)
    PROVE  CrcOver(Reader!BeforeRead(b), s)
  <1> DEFINE c == Reader!BeforeRead(b)
             d == b.consumed_words * BytesPerWord
             p == RL!CrcPlace(b)
             q == RL!CrcPlace(c)
             n == d + q
             x == RL!BytesOf(b, p, n)
             y == RL!BytesOf(b, n, At(b))
             z == b.read_crc16
  <1>1. /\ b \in RL!Readers(S) /\ RL!Sane(b) /\ RL!CrcBehind(b)
        /\ b.consumed_bits % BitsPerByte = 0 /\ c = RL!BeforeRead(b)
    BY SameFunctions2 DEF Good, CrcOver
  <1>2. /\ c \in RL!Readers(S) /\ RL!Sane(c) /\ d \in Nat
        /\ RL!Available(c) = RL!Available(b) - d
        /\ RL!Consumed(c) = RL!Consumed(b) - d * BitsPerByte
        /\ c.consumed_bits = b.consumed_bits
        /\ \A a \in 0..(RL!Available(c) - 1) : c.buffer[a] = b.buffer[a + d]
    BY <1>1, RL!Shifting, ReaderSizes
  <1>3. /\ c.read_crc16 = z \o x
        /\ q \in Nat /\ p <= n /\ n * BitsPerByte <= RL!Consumed(b)
        /\ RL!CrcBehind(c)
    BY <1>1, RL!CrcIsShifted, ReaderSizes
  <1> HIDE DEF c, d, q
  <1>4. Good(c, S)
    BY <1>1, <1>2 DEF Good
  <1>5. /\ p \in Nat /\ p <= At(b) /\ At(b) <= RL!BufferBytes
        /\ At(b) \in Nat /\ At(b) * BitsPerByte = RL!Consumed(b)
    BY <1>1, CrcSizes
  <1>6. /\ At(c) \in Nat /\ At(c) * BitsPerByte = RL!Consumed(c)
        /\ At(c) <= RL!Available(c) /\ RL!Available(c) \in Nat /\ z \in Seq(S)
    BY <1>4, GoodPlaces, SameOperators DEF Available
  <1>7. At(c) = At(b) - d
    BY <1>2, <1>5, <1>6 DEF BitsPerByte
  <1>8. n \in Nat /\ n <= At(b)
    BY <1>2, <1>3, <1>5 DEF BitsPerByte
  <1>9. RL!BytesOf(c, q, At(c)) = y
    <2>1. At(c) - q = At(b) - n
      BY <1>2, <1>3, <1>5, <1>7
    <2>2. \A i \in 1..(At(b) - n) : c.buffer[q + i - 1] = b.buffer[n + i - 1]
      <3> SUFFICES ASSUME NEW i \in 1..(At(b) - n)
                   PROVE  c.buffer[q + i - 1] = b.buffer[n + i - 1]
        OBVIOUS
      <3>1. q + i - 1 \in 0..(RL!Available(c) - 1)
        <4>1. i \in 1..(At(c) - q)
          BY <2>1
        <4> QED
          BY <1>3, <1>6, <4>1
      <3>2. (q + i - 1) + d = n + i - 1
        BY <1>2, <1>3, <1>5, <1>8
      <3> QED
        BY <1>2, <3>1, <3>2
    <2> QED
      BY <2>1, <2>2 DEF RL!BytesOf
  <1> HIDE DEF n, p
  <1>10. x \o y = RL!BytesOf(b, p, At(b))
    <2>1. /\ b \in RL!Readers(S) /\ p \in Nat /\ n \in Nat /\ At(b) \in Nat
          /\ p <= n /\ n <= At(b) /\ At(b) <= RL!BufferBytes
      BY <1>1, <1>3, <1>5, <1>8
    <2>2. PICK k \in Nat : k = At(b)
      BY <2>1
    <2>3. RL!BytesOf(b, p, n) \o RL!BytesOf(b, n, k) = RL!BytesOf(b, p, k)
      BY <2>1, <2>2, RL!BytesJoin, ReaderSizes
    <2> QED
      BY <2>2, <2>3
  <1>11. x \in Seq(S) /\ y \in Seq(S)
    <2>1. n <= RL!BufferBytes
      <3>1. RL!BufferBytes \in Nat
        BY ReaderSizes, SameOperators
      <3> QED
        BY <1>5, <1>8, <3>1
    <2> QED
      BY <1>1, <1>5, <1>8, <2>1, RL!BytesAreThere, ReaderSizes
  <1> HIDE DEF x, y, z
  <1>12. (z \o x) \o y = z \o (x \o y)
    BY <1>6, <1>11
  <1>13. s = z \o (x \o y)
    BY <1>10 DEF CrcOver, z, p
  <1> QED
    BY <1>3, <1>9, <1>12, <1>13 DEF CrcOver, c, q

\* and what is read from the file is behind it.
LEMMA CrcOverFill ==
    ASSUME NEW S, NEW b, Good(b, S), NEW s, CrcOver(b, s), NEW data, NEW c,
           c = Reader!Filled(b, data), Good(c, S), At(c) = At(b),
           \A a \in 0..(Available(b) - 1) : c.buffer[a] = b.buffer[a]
    PROVE  CrcOver(c, s)
  <1>1. RL!CrcBehind(b) /\ b \in RL!Readers(S) /\ c = RL!Filled(b, data)
    BY SameFunctions2 DEF CrcOver, Good
  <1>2. /\ c.read_crc16 = b.read_crc16
        /\ c.crc16_offset = b.crc16_offset /\ c.crc16_align = b.crc16_align
    BY <1>1, RL!RefillingKeepsCrc, ReaderSizes
  <1>3. RL!CrcPlace(c) = RL!CrcPlace(b)
    BY <1>2 DEF RL!CrcPlace
  <1>4. /\ RL!CrcPlace(b) \in Nat /\ At(b) \in Nat /\ At(b) * BitsPerByte = RL!Consumed(b)
        /\ RL!CrcPlace(b) <= At(b)
    BY <1>1, CrcSizes
  <1>5. At(c) * BitsPerByte = RL!Consumed(c)
    BY GoodPlaces, SameOperators
  <1>6. RL!CrcBehind(c)
    BY <1>1, <1>2, <1>3, <1>4, <1>5 DEF RL!CrcBehind
  <1>7. RL!BytesOf(c, RL!CrcPlace(b), At(b)) = RL!BytesOf(b, RL!CrcPlace(b), At(b))
    <2> DEFINE p == RL!CrcPlace(b)
    <2>1. At(b) <= Available(b) /\ Available(b) \in Nat
      BY GoodPlaces
    <2>2. \A i \in 1..(At(b) - p) : p + i - 1 \in 0..(Available(b) - 1)
      BY <1>4, <2>1
    <2> QED
      BY <2>2 DEF RL!BytesOf
  <1> QED
    BY <1>2, <1>3, <1>6, <1>7 DEF CrcOver

-------------------------------------------------------------------------------
(* Frames, byte by byte *)

AnyByte == [is : STRING, of : Nat, at : Nat]
FrameByte ==
    AnyByte \cup {FF, Sync2}
            \cup {Byte(is, of, at) : is \in {"parameters", "number", "blocksize", "crc8", "crc16"},
                                     of \in Nat, at \in Nat}

\* A prefix, element by element
LEMMA PrefixBytes ==
    ASSUME NEW S, NEW s \in Seq(S), NEW t \in Seq(S)
    PROVE  IsPrefix(s, t) <=> Len(s) <= Len(t) /\ \A i \in 1..Len(s) : s[i] = t[i]
  <1>1. SubSeq(s, 1, Len(s)) = s
    <2>1. Len(SubSeq(s, 1, Len(s))) = Len(s) /\ \A i \in 1..Len(s) : SubSeq(s, 1, Len(s))[i] = s[i]
      OBVIOUS
    <2>2. SubSeq(s, 1, Len(s)) \in Seq(S)
      OBVIOUS
    <2> QED
      BY <2>1, <2>2, SeqEqual
  <1>2. CASE Len(s) <= Len(t)
    <2> DEFINE u == SubSeq(t, 1, Len(s))
    <2>1. u \in Seq(S) /\ Len(u) = Len(s) /\ \A i \in 1..Len(s) : u[i] = t[i]
      BY <1>2
    <2> HIDE DEF u
    <2>2. s = u <=> \A i \in 1..Len(s) : s[i] = t[i]
      <3>1. s = u => \A i \in 1..Len(s) : s[i] = t[i]
        BY <2>1
      <3>2. (\A i \in 1..Len(s) : s[i] = t[i]) => s = u
        BY <2>1, SeqEqual
      <3> QED
        BY <3>1, <3>2
    <2> QED
      BY <1>1, <1>2, <2>2 DEF IsPrefix, u
  <1>3. CASE ~(Len(s) <= Len(t))
    BY <1>3 DEF IsPrefix
  <1> QED
    BY <1>2, <1>3

\* What the streams are
LEMMA FramesOfInput ==
    ASSUME input \in Inputs
    PROVE  /\ input.file \in Seq(AnyByte) /\ Len(Frames) \in Nat
           /\ \A f \in 1..Len(Frames) :
                 /\ Frames[f].hints \in 0..MaxExtraBody /\ Frames[f].hints \in Nat
                 /\ Frames[f].body \in Seq(AnyByte) /\ Len(Frames[f].body) \in Nat \ {0}
                 /\ \A i \in 1..Len(Frames[f].body) : Frames[f].body[i].is # "parameters"
  <1> DEFINE Some == [size : Nat \ {0}, body : Seq(AnyByte) \ {<<>>}, hints : 0..MaxExtraBody,
                      verbatim : BOOLEAN, future : BOOLEAN]
  <1>1. /\ input.file \in Seq(AnyByte) /\ Frames \in Seq(Some)
        /\ \A f \in 1..Len(Frames) : \A i \in 1..Len(Frames[f].body) :
              Frames[f].body[i].is # "parameters"
    BY InputsAssumption DEF Frames, AnyByte
  <1>2. \A f \in Some : f.hints \in 0..MaxExtraBody /\ f.body \in Seq(AnyByte) \ {<<>>}
    OBVIOUS
  <1>3. \A s \in Seq(AnyByte) \ {<<>>} : Len(s) \in Nat \ {0}
    OBVIOUS
  <1> HIDE DEF Some
  <1>4. Len(Frames) \in Nat /\ \A f \in 1..Len(Frames) : Frames[f] \in Some
    BY <1>1
  <1>5. 0..MaxExtraBody \subseteq Nat
    BY DecoderAssumption
  <1> QED
    BY <1>1, <1>2, <1>3, <1>4, <1>5

\* u is s, of length m, and behind it t, of length n.
AreJoined(u, s, m, t, n) ==
    /\ Len(u) = m + n
    /\ \A i \in 1..m : u[i] = s[i]
    /\ \A i \in 1..n : u[m + i] = t[i]

\* What a concatenation has at a place
LEMMA Joined ==
    ASSUME NEW S, NEW s \in Seq(S), NEW t \in Seq(S)
    PROVE  s \o t \in Seq(S) /\ AreJoined(s \o t, s, Len(s), t, Len(t))
  BY DEF AreJoined

\* The bytes of a header
LEMMA HeaderBytes ==
    ASSUME input \in Inputs, NEW f \in 1..Len(Frames)
    PROVE  LET x == Header(Frames, f)
               h == Frames[f].hints
           IN /\ x \in Seq(FrameByte) /\ Len(x) = 6 + h /\ h \in Nat
              /\ x[1] = FF /\ x[2] = Sync2
              /\ x[3] = Byte("parameters", f, 1) /\ x[4] = Byte("parameters", f, 2)
              /\ x[5] = Byte("number", f, 1)
              /\ \A i \in 1..h : x[5 + i] = Byte("blocksize", f, i)
              /\ x[6 + h] = Byte("crc8", f, 1)
  <1> DEFINE h == Frames[f].hints
             a == <<FF, Sync2, Byte("parameters", f, 1), Byte("parameters", f, 2),
                    Byte("number", f, 1)>>
             b == [i \in 1..h |-> Byte("blocksize", f, i)]
             c == <<Byte("crc8", f, 1)>>
             ab == a \o b
             x == ab \o c
  <1>1. h \in Nat /\ f \in Nat
    BY FramesOfInput
  <1>2. /\ FF \in FrameByte /\ Sync2 \in FrameByte
        /\ \A i, j \in Nat :
              /\ Byte("parameters", i, j) \in FrameByte /\ Byte("number", i, j) \in FrameByte
              /\ Byte("blocksize", i, j) \in FrameByte /\ Byte("crc8", i, j) \in FrameByte
    BY DEF FrameByte
  <1>3. /\ a \in Seq(FrameByte) /\ Len(a) = 5
        /\ a[1] = FF /\ a[2] = Sync2 /\ a[3] = Byte("parameters", f, 1)
        /\ a[4] = Byte("parameters", f, 2) /\ a[5] = Byte("number", f, 1)
    <2>1. /\ Byte("parameters", f, 1) \in FrameByte /\ Byte("parameters", f, 2) \in FrameByte
          /\ Byte("number", f, 1) \in FrameByte
      BY <1>1, <1>2
    <2> QED
      BY <1>2, <2>1
  <1> HIDE DEF h
  <1>4. /\ b \in Seq(FrameByte) /\ Len(b) = h
        /\ \A i \in 1..h : b[i] = Byte("blocksize", f, i)
    BY <1>1, <1>2
  <1>5. c \in Seq(FrameByte) /\ Len(c) = 1 /\ c[1] = Byte("crc8", f, 1)
    BY <1>1, <1>2
  <1>6. Header(Frames, f) = x
    BY DEF Header, h
  <1> HIDE DEF a, b, c, ab, x
  <1>7. PICK m \in Nat : m = 5
    OBVIOUS
  <1>8. PICK k \in Nat : k = 1
    OBVIOUS
  <1>9. /\ ab \in Seq(FrameByte) /\ Len(ab) = m + h
        /\ \A i \in 1..m : ab[i] = a[i]
        /\ \A i \in 1..h : ab[m + i] = b[i]
    <2>1. m = Len(a) /\ h = Len(b)
      BY <1>3, <1>4, <1>7
    <2>2. ab \in Seq(FrameByte) /\ AreJoined(ab, a, Len(a), b, Len(b))
      BY <1>3, <1>4, Joined DEF ab
    <2> QED
      BY <2>1, <2>2 DEF AreJoined
  <1>10. PICK n \in Nat : n = m + h
    BY <1>1
  <1>11. /\ x \in Seq(FrameByte) /\ Len(x) = n + k
         /\ \A i \in 1..n : x[i] = ab[i]
         /\ \A i \in 1..k : x[n + i] = c[i]
    <2>1. n = Len(ab) /\ k = Len(c)
      BY <1>5, <1>8, <1>9, <1>10
    <2>2. x \in Seq(FrameByte) /\ AreJoined(x, ab, Len(ab), c, Len(c))
      BY <1>5, <1>9, Joined DEF x
    <2> QED
      BY <2>1, <2>2 DEF AreJoined
  <1>12. \A i \in 1..m : i \in 1..n /\ x[i] = a[i]
    BY <1>1, <1>9, <1>10, <1>11
  <1>13. \A i \in 1..h : x[m + i] = Byte("blocksize", f, i)
    BY <1>1, <1>4, <1>9, <1>10, <1>11
  <1>14. x[n + 1] = Byte("crc8", f, 1)
    BY <1>5, <1>8, <1>11
  <1>15. Len(x) = 6 + h /\ n + 1 = 6 + h
    BY <1>1, <1>7, <1>8, <1>10, <1>11
  <1>16. /\ x[1] = FF /\ x[2] = Sync2 /\ x[3] = Byte("parameters", f, 1)
         /\ x[4] = Byte("parameters", f, 2) /\ x[5] = Byte("number", f, 1)
    <2>1. 1 \in 1..m /\ 2 \in 1..m /\ 3 \in 1..m /\ 4 \in 1..m /\ 5 \in 1..m
      BY <1>7
    <2> QED
      BY <1>3, <1>12, <2>1
  <1>17. \A i \in 1..h : x[5 + i] = Byte("blocksize", f, i)
    BY <1>7, <1>13
  <1>18. x[6 + h] = Byte("crc8", f, 1)
    BY <1>14, <1>15
  <1> QED
    BY <1>1, <1>6, <1>11, <1>15, <1>16, <1>17, <1>18 DEF h

\* How long a frame is
Length(f) == 8 + Frames[f].hints + Len(Frames[f].body)

\* The bytes of a frame, and of it without its CRC-16
LEMMA WholeBytes ==
    ASSUME input \in Inputs, NEW f \in 1..Len(Frames)
    PROVE  LET x == Header(Frames, f)
               y == UpToCrc(Frames, f)
               z == Whole(Frames, f)
               h == Frames[f].hints
               n == Length(f)
           IN /\ y \in Seq(FrameByte) /\ Len(y) = n - 2
              /\ z \in Seq(FrameByte) /\ Len(z) = n
              /\ h \in Nat /\ n \in Nat /\ 9 + h <= n
              /\ \A i \in 1..(6 + h) : z[i] = x[i] /\ y[i] = x[i]
              /\ \A i \in 1..(n - 2) : z[i] = y[i]
              /\ \A i \in (7 + h)..(n - 2) : z[i].is # "parameters"
              /\ <<z[n - 1], z[n]>> = Crc16(f)
              /\ z[n - 1] = Byte("crc16", f, 1) /\ z[n] = Byte("crc16", f, 2)
  <1> DEFINE h == Frames[f].hints
             body == Frames[f].body
             x == Header(Frames, f)
             y == UpToCrc(Frames, f)
             z == Whole(Frames, f)
             c == Crc16(f)
             n == Length(f)
  <1>1. /\ h \in Nat /\ body \in Seq(FrameByte) /\ Len(body) \in Nat \ {0} /\ f \in Nat
        /\ \A i \in 1..Len(body) : body[i].is # "parameters"
    <2>1. AnyByte \subseteq FrameByte
      BY DEF FrameByte
    <2>2. \A s \in Seq(AnyByte) : s \in Seq(FrameByte)
      BY <2>1
    <2> QED
      BY <2>2, FramesOfInput
  <1>2. x \in Seq(FrameByte) /\ Len(x) = 6 + h
    BY HeaderBytes
  <1>3. n = 8 + h + Len(body)
    BY DEF Length
  <1>4. /\ c \in Seq(FrameByte) /\ Len(c) = 2
        /\ c[1] = Byte("crc16", f, 1) /\ c[2] = Byte("crc16", f, 2) /\ c = <<c[1], c[2]>>
    <2>1. \A i, j \in Nat : Byte("crc16", i, j) \in FrameByte
      BY DEF FrameByte
    <2>2. Byte("crc16", f, 1) \in FrameByte /\ Byte("crc16", f, 2) \in FrameByte
      BY <1>1, <2>1
    <2> QED
      BY <2>2 DEF Crc16
  <1>5. y = x \o body /\ z = y \o c
    BY DEF UpToCrc, Whole
  <1> HIDE DEF h, body, x, y, z, c, n
  <1>6. PICK m \in Nat : m = 6 + h
    BY <1>1
  <1>7. PICK k \in Nat : k = Len(body)
    BY <1>1
  <1>8. /\ y \in Seq(FrameByte) /\ Len(y) = m + k
        /\ \A i \in 1..m : y[i] = x[i]
        /\ \A i \in 1..k : y[m + i] = body[i]
    <2>1. m = Len(x)
      BY <1>2, <1>6
    <2>2. y \in Seq(FrameByte) /\ AreJoined(y, x, Len(x), body, Len(body))
      BY <1>1, <1>2, <1>5, Joined
    <2> QED
      BY <1>7, <2>1, <2>2 DEF AreJoined
  <1>9. PICK q \in Nat : q = m + k
    OBVIOUS
  <1>10. PICK l \in Nat : l = 2
    OBVIOUS
  <1>11. /\ z \in Seq(FrameByte) /\ Len(z) = q + l
         /\ \A i \in 1..q : z[i] = y[i]
         /\ \A i \in 1..l : z[q + i] = c[i]
    <2>1. q = Len(y) /\ l = Len(c)
      BY <1>4, <1>8, <1>9, <1>10
    <2>2. z \in Seq(FrameByte) /\ AreJoined(z, y, Len(y), c, Len(c))
      BY <1>4, <1>5, <1>8, Joined
    <2> QED
      BY <2>1, <2>2 DEF AreJoined
  <1>12. /\ q = n - 2 /\ q + l = n /\ q + 1 = n - 1 /\ q + 2 = n /\ n \in Nat /\ 9 + h <= n
         /\ m = 6 + h /\ m <= q
    BY <1>1, <1>3, <1>6, <1>7, <1>9, <1>10
  <1>13. \A i \in 1..m : z[i] = x[i] /\ y[i] = x[i]
    BY <1>8, <1>11, <1>12
  <1>14. ASSUME NEW i \in (m + 1)..q
         PROVE  z[i].is # "parameters"
    <2>1. i - m \in 1..k /\ m + (i - m) = i /\ i \in 1..q
      BY <1>9
    <2>2. z[i] = body[i - m]
      BY <1>8, <1>11, <2>1
    <2> QED
      BY <1>1, <1>7, <2>1, <2>2
  <1>15. z[n - 1] = c[1] /\ z[n] = c[2]
    <2>1. 1 \in 1..l /\ 2 \in 1..l
      BY <1>10
    <2> QED
      BY <1>11, <1>12, <2>1
  <1>16. (7 + h)..(n - 2) = (m + 1)..q
    BY <1>1, <1>12
  <1> QED
    BY <1>1, <1>4, <1>8, <1>9, <1>11, <1>12, <1>13, <1>14, <1>15, <1>16 DEF h, x, y, z, c, n

\* The parameters of a frame are in no other place of one, and it ends with its CRC.
LEMMA OneHeader ==
    ASSUME input \in Inputs, NEW f \in 1..Len(Frames), NEW i \in 5..Length(f)
    PROVE  /\ Whole(Frames, f)[i].is # "parameters"
           /\ i >= Length(f) - 1 => Whole(Frames, f)[i].is = "crc16"
  <1> DEFINE x == Header(Frames, f)
             z == Whole(Frames, f)
             h == Frames[f].hints
             n == Length(f)
  <1>1. /\ h \in Nat /\ n \in Nat /\ 9 + h <= n
        /\ \A j \in 1..(6 + h) : z[j] = x[j]
        /\ \A j \in (7 + h)..(n - 2) : z[j].is # "parameters"
        /\ z[n - 1] = Byte("crc16", f, 1) /\ z[n] = Byte("crc16", f, 2)
    BY WholeBytes
  <1>2. /\ x[5] = Byte("number", f, 1)
        /\ \A j \in 1..h : x[5 + j] = Byte("blocksize", f, j)
        /\ x[6 + h] = Byte("crc8", f, 1)
    BY HeaderBytes
  <1> HIDE DEF x, z, h, n
  <1>3. CASE i \in 5..(6 + h)
    <2>1. z[i] = x[i] /\ ~(i >= n - 1)
      BY <1>1, <1>3
    <2>2. x[i].is \in {"number", "blocksize", "crc8"}
      <3>1. CASE i = 5
        BY <1>2, <3>1 DEF Byte
      <3>2. CASE i = 6 + h
        BY <1>2, <3>2 DEF Byte
      <3>3. CASE i # 5 /\ i # 6 + h
        <4>1. i - 5 \in 1..h /\ 5 + (i - 5) = i
          BY <1>1, <1>3, <3>3
        <4>2. x[i] = Byte("blocksize", f, i - 5)
          BY <1>2, <4>1
        <4> QED
          BY <4>2 DEF Byte
      <3> QED
        BY <3>1, <3>2, <3>3
    <2> QED
      BY <2>1, <2>2 DEF z, n
  <1>4. CASE i \in (7 + h)..(n - 2)
    BY <1>1, <1>4 DEF z, n
  <1>5. CASE i \in {n - 1, n}
    <2>1. z[i].is = "crc16"
      BY <1>1, <1>5 DEF Byte
    <2> QED
      BY <2>1 DEF z, n
  <1>6. i \in 5..(6 + h) \/ i \in (7 + h)..(n - 2) \/ i \in {n - 1, n}
    BY <1>1 DEF n
  <1> QED
    BY <1>3, <1>4, <1>5, <1>6

-------------------------------------------------------------------------------
(* Every frame that is whole is found *)

\* Files that begin as streams do and are no shorter than the buffer
Scope == input \in Inputs /\ IsPrefix(Metadata, input.file) /\ BufferBytes <= FileEnd

HeaderPoints == {"parameters", "number", "number2", "blocksize", "crc8"}
FramePoints == HeaderPoints \cup {"body", "crc16"}
RunningPoints == HeaderPoints \cup {"body"}

\* The place of the sync of the frame that is read
SyncAt == Position - Len(raw) + 1

CrcInv == pc \in RunningPoints => InFrame /\ CrcOver(br, raw)

HeaderInv ==
    /\ pc = "number" => Len(raw) = 4
    /\ pc = "number2" => Len(raw) = 5
    /\ pc = "blocksize" => Len(raw) + skip <= 6 + MaxExtraBody
    /\ pc = "crc8" => Len(raw) <= 6 + MaxExtraBody

\* What was read of a frame is what the file has there.
RawInv ==
    pc \in FramePoints =>
        /\ Len(raw) >= 2 /\ raw[1] = FF /\ raw[2] = Sync2
        /\ \A i \in 1..Len(raw) : SyncAt + i - 1 <= FileEnd => raw[i] = FileByte(SyncAt + i - 1)

PlaceInv == sramReadAddr \in 0..FileEnd /\ FileStart >= 0

MetadataInv ==
    /\ pc = "marker" => Position = 0 /\ ~cached
    /\ pc # "marker2"
    /\ pc = "metadata" => Position \in {1, 2}
    /\ pc = "skip" => raw[1].of = 1 /\ Position + skip = 4

\* A seek never goes farther than the place behind the sync of the frame.
SeekInv ==
    /\ pc \in FramePoints \cup {"bad"} => last_seen_framesync \in 1..FileEnd
    /\ pc \in FramePoints => /\ last_seen_framesync <= SyncAt + 1
                             /\ SyncSeen => Lsf(br) = At(br) - Len(raw) + 2

\* A frame that is whole in the file, and that is to be found
Pending(f, p) ==
    /\ f \in 1..Len(Frames) /\ p \in Starts(f)
    /\ ~SyncBefore(p) /\ ~Frames[f].future
    /\ p + Length(f) - 1 # FileEnd

Found(f) == Len(written) >= MaxWritten \/ \E i \in 1..Len(written) : written[i].of = f

\* From where on the search will look for syncs
GoesOn ==
    CASE pc \in Early -> 5
      [] pc = "sync" -> IF cached THEN Position ELSE Position + 1
      [] pc = "sync2" -> Position
      [] pc \in FramePoints -> SyncAt + 3
      [] pc = "bad" -> IF SyncSeen THEN FileStart + Lsf(br) + 2 ELSE last_seen_framesync + 1
      [] pc = "gap" -> Position + 1
      [] OTHER -> IF state = "END_OF_STREAM" THEN FileEnd + 1 ELSE 0

\* It is the frame that is read, and nothing that was read of it speaks against it; or
\* it is the one that will be written.
IsRead(f, p) ==
    /\ pc \in FramePoints \ {"number2"} /\ SyncAt = p
    /\ pc = "blocksize" => Len(raw) + skip = 5 + Frames[f].hints
    /\ pc = "crc8" => Len(raw) = 5 + Frames[f].hints
    /\ pc \in {"body", "crc16"} => frame.of = f
    /\ pc = "body" => 6 + Frames[f].hints <= Len(raw) /\ Len(raw) < Length(f) - 2
    /\ pc = "crc16" => Len(raw) = Length(f) - 2
IsWhole(f) == pc = "gap" /\ frame.of = f

Ahead(f, p) == p >= GoesOn \/ IsRead(f, p) \/ IsWhole(f)
KeptInv ==
    \A f \in 1..Len(Frames) : \A p \in Starts(f) : Pending(f, p) => Found(f) \/ Ahead(f, p)

PathInv == HeaderInv /\ RawInv /\ PlaceInv /\ MetadataInv /\ SeekInv /\ KeptInv
LocalInv == CrcInv /\ PathInv

-------------------------------------------------------------------------------

\* The bytes of a frame that is whole in the file
LEMMA PendingBytes ==
    ASSUME input \in Inputs, NEW f, NEW p, Pending(f, p)
    PROVE  /\ f \in 1..Len(Frames) /\ p \in Nat \ {0} /\ FileEnd \in Nat /\ Length(f) \in Nat
           /\ Frames[f].hints \in Nat /\ 9 + Frames[f].hints <= Length(f)
           /\ p + Length(f) - 1 < FileEnd
           /\ \A i \in 1..Length(f) : FileByte(p + i - 1) = Whole(Frames, f)[i]
  <1> DEFINE n == Length(f)
             z == Whole(Frames, f)
             file == input.file
             tail == SubSeq(file, p, Len(file))
  <1>1. f \in 1..Len(Frames) /\ p \in 1..Len(file) /\ IsPrefix(z, tail)
    BY DEF Pending, Starts
  <1>2. file \in Seq(FrameByte)
    <2>1. AnyByte \subseteq FrameByte
      BY DEF FrameByte
    <2>2. \A s \in Seq(AnyByte) : s \in Seq(FrameByte)
      BY <2>1
    <2> QED
      BY <2>2, FramesOfInput
  <1>3. /\ z \in Seq(FrameByte) /\ Len(z) = n /\ n \in Nat
        /\ Frames[f].hints \in Nat /\ 9 + Frames[f].hints <= n
    BY <1>1, WholeBytes
  <1>4. Len(file) \in Nat /\ FileEnd = Len(file) /\ p \in Nat \ {0}
    BY <1>1, <1>2 DEF FileEnd
  <1> HIDE DEF file, n, z
  <1>5. /\ tail \in Seq(FrameByte) /\ Len(tail) = Len(file) - p + 1
        /\ \A i \in 1..Len(tail) : tail[i] = file[p + i - 1]
    BY <1>1, <1>2, <1>4
  <1> HIDE DEF tail
  <1>6. n <= Len(tail) /\ \A i \in 1..n : z[i] = tail[i]
    <2>1. IsPrefix(z, tail) <=>
              Len(z) <= Len(tail) /\ \A i \in 1..Len(z) : z[i] = tail[i]
      <3>1. z \in Seq(FrameByte) /\ tail \in Seq(FrameByte)
        BY <1>3, <1>5
      <3> QED
        BY <3>1, PrefixBytes
    <2> QED
      BY <1>1, <1>3, <2>1
  <1>7. p + n - 1 # FileEnd
    BY DEF Pending, n
  <1>8. p + n - 1 < FileEnd
    <2>1. /\ n \in Nat /\ n <= Len(tail) /\ Len(tail) = FileEnd - p + 1
          /\ p \in Nat /\ FileEnd \in Nat
      BY <1>3, <1>4, <1>5, <1>6
    <2> QED
      BY <1>7, <2>1
  <1>9. ASSUME NEW i \in 1..n
        PROVE  FileByte(p + i - 1) = z[i]
    <2>1. i \in 1..Len(tail) /\ p + i - 1 \in 1..Len(file)
      BY <1>3, <1>4, <1>5, <1>6
    <2> QED
      BY <1>5, <1>6, <2>1 DEF FileByte, file
  <1> QED
    BY <1>1, <1>3, <1>4, <1>8, <1>9 DEF n, z

\* A frame with a header, a body and a CRC-16
LEMMA LongEnough ==
    ASSUME NEW p \in Nat, NEW m \in Nat, NEW h \in Nat, NEW e \in Nat,
           9 + h <= m, p + m - 1 < e
    PROVE  p + 8 < e
  OBVIOUS

\* It ends in the file.
LEMMA PendingEnds ==
    ASSUME input \in Inputs, NEW f, NEW p, Pending(f, p)
    PROVE  p \in Nat /\ FileEnd \in Nat /\ p + 8 < FileEnd
  <1>1. /\ p \in Nat /\ FileEnd \in Nat /\ Length(f) \in Nat /\ Frames[f].hints \in Nat
        /\ 9 + Frames[f].hints <= Length(f) /\ p + Length(f) - 1 < FileEnd
    BY PendingBytes
  <1>2. PICK m \in Nat, h \in Nat : m = Length(f) /\ h = Frames[f].hints
    BY <1>1
  <1>3. 9 + h <= m /\ p + m - 1 < FileEnd
    BY <1>1, <1>2
  <1> QED
    BY <1>1, <1>2, <1>3, LongEnough

\* It begins with a sync and with its parameters, and there is no other before it.
LEMMA PendingStart ==
    ASSUME input \in Inputs, NEW f, NEW p, Pending(f, p)
    PROVE  /\ FileByte(p) = FF /\ FileByte(p + 1) = Sync2
           /\ FileByte(p + 2) = Byte("parameters", f, 1)
           /\ \A q \in Int : p - LongestHeader <= q /\ q < p =>
                 ~(FileByte(q) = FF /\ FileByte(q + 1) = Sync2)
  <1>1. /\ f \in 1..Len(Frames) /\ p \in Nat /\ Length(f) \in Nat
        /\ Frames[f].hints \in Nat /\ 9 + Frames[f].hints <= Length(f)
        /\ \A i \in 1..Length(f) : FileByte(p + i - 1) = Whole(Frames, f)[i]
    BY PendingBytes
  <1>2. /\ Whole(Frames, f)[1] = FF /\ Whole(Frames, f)[2] = Sync2
        /\ Whole(Frames, f)[3] = Byte("parameters", f, 1)
    <2>1. 1 \in 1..(6 + Frames[f].hints) /\ 2 \in 1..(6 + Frames[f].hints)
          /\ 3 \in 1..(6 + Frames[f].hints)
      BY <1>1
    <2>2. \A i \in 1..(6 + Frames[f].hints) : Whole(Frames, f)[i] = Header(Frames, f)[i]
      BY <1>1, WholeBytes
    <2>3. /\ Header(Frames, f)[1] = FF /\ Header(Frames, f)[2] = Sync2
          /\ Header(Frames, f)[3] = Byte("parameters", f, 1)
      BY <1>1, HeaderBytes
    <2> QED
      BY <2>1, <2>2, <2>3
  <1>3. /\ 1 \in 1..Length(f) /\ 2 \in 1..Length(f) /\ 3 \in 1..Length(f)
        /\ p + 1 - 1 = p /\ p + 2 - 1 = p + 1 /\ p + 3 - 1 = p + 2
    BY <1>1
  <1>4. ASSUME NEW q \in Int, p - LongestHeader <= q, q < p
        PROVE  ~(FileByte(q) = FF /\ FileByte(q + 1) = Sync2)
    <2>1. q \in (p - LongestHeader)..(p - 1)
      BY <1>1, <1>4, DecoderAssumption DEF LongestHeader
    <2> QED
      BY <2>1 DEF Pending, SyncBefore
  <1> QED
    BY <1>1, <1>2, <1>3, <1>4

\* What a reader takes is what the file has there, as long as there is more of it.
LEMMA StillInFile ==
    ASSUME input \in Inputs, ReaderInv, PlaceInv, NEW k \in Nat, k <= Available(br) - At(br),
           Position + k <= FileEnd
    PROVE  /\ At(br) + k <= OfFile
           /\ \A i \in 1..k : Next1(i) = FileByte(Position + i)
  <1>1. BufferInv /\ TellInv
    BY DEF ReaderInv
  <1>2. /\ At(br) \in Nat /\ Available(br) \in Nat /\ At(br) <= Available(br)
        /\ OfFile \in Int /\ FileStart \in Int /\ Position = FileStart + At(br)
        /\ beyond \in Nat /\ sramReadAddr \in Nat
    BY <1>1, PlacesInFile
  <1>3. FileEnd \in Nat
    BY FileIsBytes
  <1>4. At(br) + k <= OfFile
    <2>1. OfFile = Available(br) - beyond /\ FileStart = sramReadAddr - OfFile
      BY DEF OfFile, FileStart
    <2>2. beyond > 0 => sramReadAddr = FileEnd
      BY <1>1, <1>2 DEF TellInv
    <2>3. CASE beyond = 0
      BY <1>2, <2>1, <2>3
    <2>4. CASE beyond > 0
      BY <1>2, <1>3, <2>1, <2>2, <2>4
    <2> QED
      BY <1>2, <2>3, <2>4
  <1>5. ASSUME NEW i \in 1..k
        PROVE  Next1(i) = FileByte(Position + i)
    <2>1. At(br) + i - 1 \in 0..(OfFile - 1)
      BY <1>2, <1>4
    <2>2. Next1(i) = br.buffer[At(br) + i - 1]
      BY DEF Next1, At
    <2>3. FileStart + (At(br) + i - 1) + 1 = Position + i
      BY <1>2
    <2> QED
      BY <1>1, <2>1, <2>2, <2>3 DEF BufferInv
  <1> QED
    BY <1>4, <1>5

\* Where the reader is, in a form that holds after a step as well
LEMMA WhereItIs ==
    input \in Inputs /\ ReaderInv =>
        /\ At(br) \in Nat /\ Available(br) \in Nat /\ At(br) <= Available(br)
        /\ Available(br) <= BufferBytes /\ BufferBytes \in Nat \ {0}
        /\ OfFile \in Int /\ FileStart \in Int /\ Position \in Int /\ FileEnd \in Nat
        /\ Position = FileStart + At(br) /\ Lsf(br) \in Nat /\ beyond \in Nat
        /\ sramReadAddr \in Nat /\ raw \in Seq(RawBytes) /\ Len(raw) \in Nat /\ skip \in Nat
  <1> SUFFICES ASSUME input \in Inputs, ReaderInv
               PROVE  /\ At(br) \in Nat /\ Available(br) \in Nat /\ At(br) <= Available(br)
                      /\ Available(br) <= BufferBytes /\ BufferBytes \in Nat \ {0}
                      /\ OfFile \in Int /\ FileStart \in Int /\ Position \in Int
                      /\ FileEnd \in Nat
                      /\ Position = FileStart + At(br) /\ Lsf(br) \in Nat /\ beyond \in Nat
                      /\ sramReadAddr \in Nat /\ raw \in Seq(RawBytes) /\ Len(raw) \in Nat
                      /\ skip \in Nat
    OBVIOUS
  <1>1. BufferInv /\ TellInv /\ ControlInv
    BY DEF ReaderInv
  <1>2. /\ At(br) \in Nat /\ Available(br) \in Nat /\ At(br) <= Available(br)
        /\ Available(br) <= BufferBytes /\ BufferBytes \in Nat \ {0}
        /\ OfFile \in Int /\ FileStart \in Int /\ Position = FileStart + At(br)
        /\ Lsf(br) \in Nat /\ beyond \in Nat /\ sramReadAddr \in Nat
    BY <1>1, PlacesInFile
  <1>3. Position \in Int
    BY <1>2
  <1>4. FileEnd \in Nat
    BY FileIsBytes
  <1>5. raw \in Seq(RawBytes) /\ Len(raw) \in Nat /\ skip \in Nat
    BY <1>1 DEF ControlInv
  <1> QED
    BY <1>2, <1>3, <1>4, <1>5

\* Where the search goes on, point by point
LEMMA WhereItGoesOn ==
    /\ pc \in Early => GoesOn = 5
    /\ pc = "sync" => GoesOn = IF cached THEN Position ELSE Position + 1
    /\ pc = "sync2" => GoesOn = Position
    /\ pc \in FramePoints => GoesOn = SyncAt + 3
    /\ pc = "bad" => GoesOn = IF SyncSeen THEN FileStart + Lsf(br) + 2
                              ELSE last_seen_framesync + 1
    /\ pc = "gap" => GoesOn = Position + 1
    /\ pc = "returned" => GoesOn = IF state = "END_OF_STREAM" THEN FileEnd + 1 ELSE 0
  BY DEF GoesOn, Early, FramePoints, HeaderPoints

\* A step in the buffer
LEMMA Moving ==
    ASSUME input \in Inputs, ReaderInv, ReaderInv', UNCHANGED fileVars, SameBytes(br', br)
    PROVE  /\ FileStart' = FileStart /\ FileEnd' = FileEnd /\ Frames' = Frames
           /\ Position' = FileStart + At(br') /\ At(br') \in Nat
           /\ PlaceInv => PlaceInv'
           /\ \A p : FileByte(p)' = FileByte(p)
  <1>1. UNCHANGED <<input, beyond, sram, lengthWord, sramReadAddr, filesize>>
    BY DEF fileVars, fsVars
  <1>2. FileEnd' = FileEnd /\ Frames' = Frames /\ \A p : FileByte(p)' = FileByte(p)
    BY <1>1, FileStays
  <1>3. FileStart' = FileStart
    BY <1>1 DEF OfFile, FileStart, SameBytes
  <1>4. input' \in Inputs
    BY <1>1
  <1>5. Position' = FileStart' + At(br') /\ At(br') \in Nat
    <2>1. (input \in Inputs /\ ReaderInv)'
      BY <1>4
    <2>2. (Position = FileStart + At(br) /\ At(br) \in Nat)'
      BY <2>1, WhereItIs, PTL
    <2> QED
      BY <2>2
  <1>6. PlaceInv => PlaceInv'
    BY <1>1, <1>2, <1>3 DEF PlaceInv
  <1> QED
    BY <1>2, <1>3, <1>5, <1>6

\* Which frames are to be found does not change.
LEMMA PendingStays ==
    ASSUME UNCHANGED input
    PROVE  /\ \A f, p : Pending(f, p)' <=> Pending(f, p)
           /\ \A f : Length(f)' = Length(f) /\ Starts(f)' = Starts(f)
           /\ Frames' = Frames
  BY DEF Pending, Starts, SyncBefore, FileByte, FileEnd, Length, Frames

\* What was found stays found, and what is ahead stays ahead.
LEMMA KeptStep ==
    ASSUME KeptInv, UNCHANGED <<input, written>>,
           \A f, p : Pending(f, p) /\ Ahead(f, p) => Ahead(f, p)'
    PROVE  KeptInv'
  <1> SUFFICES ASSUME NEW f \in 1..Len(Frames'), NEW p \in Starts(f)', Pending(f, p)'
               PROVE  Found(f)' \/ Ahead(f, p)'
    BY DEF KeptInv
  <1>1. Pending(f, p)
    BY PendingStays
  <1>2. f \in 1..Len(Frames) /\ p \in Starts(f)
    BY <1>1 DEF Pending
  <1>3. Found(f) => Found(f)'
    BY DEF Found
  <1> QED
    BY <1>1, <1>2, <1>3 DEF KeptInv

-------------------------------------------------------------------------------

\* What a header at the reader's place may hide is exempt.
LEMMA BehindHeader ==
    ASSUME input \in Inputs, ReaderInv, RawInv, HeaderInv, pc \in HeaderPoints,
           NEW f, NEW p, Pending(f, p), p >= SyncAt + 3
    PROVE  p > Position + 1
  <1>1. /\ Position \in Int /\ Len(raw) \in Nat /\ skip \in Nat /\ FileEnd \in Nat
    BY WhereItIs
  <1>2. /\ p \in Nat /\ FileEnd \in Nat /\ Length(f) \in Nat /\ 9 <= Length(f)
        /\ p + Length(f) - 1 < FileEnd
    BY PendingBytes
  <1>3. \A q \in Int : p - LongestHeader <= q /\ q < p =>
             ~(FileByte(q) = FF /\ FileByte(q + 1) = Sync2)
    BY PendingStart
  <1>4. /\ Len(raw) >= 2 /\ raw[1] = FF /\ raw[2] = Sync2
        /\ \A i \in 1..Len(raw) : SyncAt + i - 1 <= FileEnd => raw[i] = FileByte(SyncAt + i - 1)
    BY DEF RawInv, FramePoints
  <1>5. Len(raw) <= 6 + MaxExtraBody /\ MaxExtraBody \in Nat
    <2>1. MaxExtraBody \in Nat
      BY DecoderAssumption
    <2>2. pc = "parameters" => Len(raw) \in {2, 3}
      BY DEF ReaderInv, ControlInv
    <2>3. /\ pc = "number" => Len(raw) = 4
          /\ pc = "number2" => Len(raw) = 5
          /\ pc = "blocksize" => Len(raw) + skip <= 6 + MaxExtraBody
          /\ pc = "crc8" => Len(raw) <= 6 + MaxExtraBody
      BY DEF HeaderInv
    <2>4. PICK n \in Nat : n = Len(raw)
      BY <1>1
    <2>5. PICK m \in Nat : m = 6 + MaxExtraBody
      BY <2>1
    <2>6. skip \in Nat /\ m >= 6
      BY <1>1, <2>1, <2>5
    <2>7. pc = "parameters" => n <= m
      BY <2>2, <2>4, <2>5, <2>6
    <2>8. pc \in {"number", "number2"} => n <= m
      BY <2>3, <2>4, <2>5, <2>6
    <2>9. pc = "blocksize" => n <= m
      BY <2>3, <2>4, <2>5, <2>6
    <2>10. pc = "crc8" => n <= m
      BY <2>3, <2>4, <2>5
    <2> QED
      BY <2>1, <2>4, <2>5, <2>7, <2>8, <2>9, <2>10 DEF HeaderPoints
  <1>6. SyncAt = Position - Len(raw) + 1 /\ SyncAt \in Int
    BY <1>1 DEF SyncAt
  <1>7. FileByte(SyncAt) = FF /\ FileByte(SyncAt + 1) = Sync2
    <2>1. 1 \in 1..Len(raw) /\ 2 \in 1..Len(raw)
      BY <1>1, <1>4
    <2>2. SyncAt + 1 - 1 = SyncAt /\ SyncAt + 2 - 1 = SyncAt + 1
      BY <1>6
    <2>3. SyncAt <= FileEnd /\ SyncAt + 1 <= FileEnd
      BY <1>2, <1>6
    <2> QED
      BY <1>4, <2>1, <2>2, <2>3
  <1>8. ASSUME p <= Position + 1
        PROVE  FALSE
    <2>1. p - LongestHeader <= SyncAt /\ SyncAt < p
      BY <1>1, <1>2, <1>5, <1>6, <1>8 DEF LongestHeader
    <2> QED
      BY <1>3, <1>6, <1>7, <2>1
  <1> QED
    BY <1>1, <1>2, <1>8

\* The bytes of the frame that is read, those that were read and those that come
LEMMA BytesOfRead ==
    ASSUME input \in Inputs, ReaderInv, PlaceInv, RawInv,
           NEW f, NEW p, Pending(f, p), IsRead(f, p), Len(raw) <= Length(f)
    PROVE  /\ \A i \in 1..Len(raw) : raw[i] = Whole(Frames, f)[i]
           /\ Position = p + Len(raw) - 1 /\ Len(raw) >= 2
           /\ \A k \in Nat : k <= Available(br) - At(br) /\ Len(raw) + k <= Length(f) =>
                 \A i \in 1..k : Next1(i) = Whole(Frames, f)[Len(raw) + i]
  <1>1. /\ Position \in Int /\ Len(raw) \in Nat /\ FileEnd \in Nat
    BY WhereItIs
  <1>2. /\ p \in Nat /\ Length(f) \in Nat /\ p + Length(f) - 1 < FileEnd
        /\ \A i \in 1..Length(f) : FileByte(p + i - 1) = Whole(Frames, f)[i]
    BY PendingBytes
  <1>3. SyncAt = p /\ pc \in FramePoints /\ Position = p + Len(raw) - 1
    BY <1>1, <1>2 DEF IsRead, SyncAt
  <1>4. /\ Len(raw) >= 2
        /\ \A i \in 1..Len(raw) : p + i - 1 <= FileEnd => raw[i] = FileByte(p + i - 1)
    BY <1>3 DEF RawInv
  <1>5. ASSUME NEW i \in 1..Len(raw)
        PROVE  raw[i] = Whole(Frames, f)[i]
    <2>1. i \in 1..Length(f) /\ p + i - 1 <= FileEnd
      BY <1>1, <1>2
    <2> QED
      BY <1>2, <1>4, <2>1
  <1>6. ASSUME NEW k \in Nat, k <= Available(br) - At(br), Len(raw) + k <= Length(f),
               NEW i \in 1..k
        PROVE  Next1(i) = Whole(Frames, f)[Len(raw) + i]
    <2>1. Position + k <= FileEnd
      BY <1>1, <1>2, <1>3, <1>6
    <2>2. Next1(i) = FileByte(Position + i)
      BY <1>6, <2>1, StillInFile
    <2>3. Position + i = p + (Len(raw) + i) - 1 /\ Len(raw) + i \in 1..Length(f)
      BY <1>1, <1>2, <1>3, <1>6
    <2> QED
      BY <1>2, <2>2, <2>3
  <1> QED
    BY <1>3, <1>4, <1>5, <1>6

-------------------------------------------------------------------------------
(* The CRC of the frame that is read is over what was read of it. *)

\* The CRC starts with the sync.
LEMMA CrcOfStart ==
    ASSUME NEW b, Good(b, Bytes), StartFrame(b), input \in Inputs
    PROVE  CrcInv'
  <1>1. /\ state' = "READ_FRAME" /\ raw' = <<FF, Sync2>>
        /\ br' = Reader!ResetReadCrc16(b, <<FF, Sync2>>)
    BY DEF StartFrame
  <1>2. <<FF, Sync2>> \in Seq(Bytes)
    BY FileIsBytes
  <1>3. CrcOver(br', raw')
    BY <1>1, <1>2, CrcStarts
  <1> QED
    BY <1>1, <1>3 DEF CrcInv, InFrame

\* A byte of the header goes into the CRC.
LEMMA CrcOfByte ==
    ASSUME input \in Inputs, ReaderInv, CrcInv, pc \in RunningPoints, Ready
    PROVE  LET b == Reader!Consume(br, BitsPerByte) IN
           /\ InFrame /\ Good(b, Bytes) /\ CrcOver(b, Append(raw, Next1(1)))
           /\ Read => br' = b
  <1>1. InFrame /\ CrcOver(br, raw)
    BY DEF CrcInv
  <1>2. Reads = 1
    BY DEF Reads, RunningPoints, HeaderPoints
  <1>3. /\ Good(br, Bytes) /\ BufferInv /\ TellInv
    BY DEF ReaderInv, BufferInv
  <1>4. /\ 1 <= Available(br) - At(br)
        /\ Good(Reader!Consume(br, BitsPerByte), Bytes)
        /\ Read => br' = Reader!Consume(br, BitsPerByte)
    BY <1>2, ReadingOne
  <1>5. At(br) < Available(br)
    BY <1>3, <1>4, GoodPlaces
  <1>6. Next1(1) = br.buffer[At(br)]
    BY <1>3, NextByte
  <1>7. CrcOver(Reader!Consume(br, BitsPerByte), Append(raw, br.buffer[At(br)]))
    BY <1>1, <1>3, <1>5, CrcGoesOn
  <1> QED
    BY <1>1, <1>4, <1>6, <1>7

\* What read_frame_ compares with the CRC-16 is over all that was read.
LEMMA CrcOfBody ==
    ASSUME input \in Inputs, ReaderInv, CrcInv, ReadBody
    PROVE  /\ pc' \in {"body", "crc16"} =>
                  raw' = Append(raw, Next1(1))
           /\ pc' = "body" => CrcInv'
  <1> DEFINE b == Reader!Consume(br, BitsPerByte)
  <1>1. /\ pc = "body" /\ Ready
        /\ \/ br' = b /\ raw' = Append(raw, Next1(1)) /\ UNCHANGED <<state, pc>>
           \/ br' = Reader!GetReadCrc16(b) /\ raw' = br'.read_crc16 /\ pc' = "crc16"
           \/ pc' \in {"bad", "returned"}
    BY DEF ReadBody, BadFrame
  <1>2. InFrame /\ Good(b, Bytes) /\ CrcOver(b, Append(raw, Next1(1)))
    BY <1>1, CrcOfByte DEF RunningPoints
  <1> HIDE DEF b
  <1>3. Reader!GetReadCrc16(b).read_crc16 = Append(raw, Next1(1))
    BY <1>2, CrcIsTaken
  <1> QED
    BY <1>1, <1>2, <1>3 DEF CrcInv, InFrame

\* A refill does not lose what was not taken into the CRC yet.
LEMMA CrcOfRefill ==
    ASSUME input \in Inputs, ReaderInv, CrcInv, Refill
    PROVE  CrcInv'
  <1> DEFINE b == Kept(Reader!BeforeRead(br))
             n == Reader!SpaceLeft(b)
             data == Stored(b, Reader!Available(b), n)
  <1> SUFFICES ASSUME pc' \in RunningPoints
               PROVE  InFrame' /\ CrcOver(br', raw')
    BY DEF CrcInv
  <1>1. RegionInv /\ BufferInv /\ TellInv /\ Good(br, Bytes)
    BY DEF ReaderInv, BufferInv
  <1>2. /\ ~Fs!Eof /\ br' = Reader!Filled(b, data)
        /\ beyond' = beyond + n - Len(Copied(n)) /\ Fs!ReadBuf(n)
        /\ UNCHANGED <<state, pc, raw, input, sram, lengthWord>>
    BY DEF Refill, EndOfStream, RunningPoints, HeaderPoints
  <1>3. InFrame /\ CrcOver(br, raw)
    BY <1>2 DEF CrcInv
  <1>4. b = Reader!BeforeRead(br)
    BY <1>3 DEF Kept
  <1>5. PICK d \in Nat : Shifted(b, d)
    BY <1>1, ShiftOfBuffer
  <1>6. CrcOver(b, raw)
    BY <1>1, <1>3, <1>4, CrcIsKept
  <1> HIDE DEF b
  <1>7. Good(b, Bytes)
    BY <1>5 DEF Shifted
  <1>8. n \in Nat /\ n = BufferBytes - Available(b)
    BY <1>7, GoodPlaces
  <1>9. data = Stored(b, Available(b), n)
    BY DEF Available
  <1> HIDE DEF n, data
  <1>10. Refilled(b, n)
    BY <1>2, <1>8, <1>9 DEF Refilled
  <1>11. /\ At(br') = At(b) /\ BufferInv'
         /\ \A a \in 0..(Available(b) - 1) : br'.buffer[a] = b.buffer[a]
    BY <1>1, <1>2, <1>5, <1>10, RefillFromFile
  <1>12. Good(br', Bytes)
    <2>1. Bytes' = Bytes
      BY <1>2, FileStays
    <2> QED
      BY <1>11, <2>1 DEF BufferInv
  <1>13. CrcOver(br', raw)
    BY <1>2, <1>6, <1>7, <1>11, <1>12, CrcOverFill
  <1> QED
    BY <1>2, <1>3, <1>13 DEF InFrame

\* Stuttering keeps it.
LEMMA CrcStays ==
    ASSUME CrcInv, UNCHANGED vars
    PROVE  CrcInv'
  BY DEF CrcInv, vars, InFrame

\* Every step keeps the CRC.
LEMMA CrcInvStep ==
    ASSUME input \in Inputs, ReaderInv, CrcInv, [Next]_vars
    PROVE  CrcInv'
  <1> DEFINE b == Reader!Consume(br, BitsPerByte)
  <1>1. CASE pc' \notin RunningPoints
    BY <1>1 DEF CrcInv
  <1>2. CASE Refill
    BY <1>2, CrcOfRefill
  <1>3. CASE FindMetadata2 /\ pc' \in RunningPoints
    <2>1. pc = "marker2" /\ Ready /\ StartFrame(b)
      BY <1>3 DEF FindMetadata2, RunningPoints, HeaderPoints
    <2>2. Good(b, Bytes)
      BY <2>1, ReadingOne DEF Reads
    <2> HIDE DEF b
    <2> QED
      BY <2>1, <2>2, CrcOfStart
  <1>4. CASE SearchSync2 /\ pc' \in RunningPoints
    <2>1. pc = "sync2" /\ Ready /\ StartFrame(Reader!SetFramesyncLocation(b))
      BY <1>4 DEF SearchSync2, RunningPoints, HeaderPoints
    <2>2. Good(b, Bytes)
      BY <2>1, ReadingOne DEF Reads
    <2> HIDE DEF b
    <2>3. Good(Reader!SetFramesyncLocation(b), Bytes)
      BY <2>2, RememberSync
    <2> QED
      BY <2>1, <2>3, CrcOfStart
  <1>5. CASE (ReadParameters \/ ReadNumber \/ ReadBlockSize \/ ReadCrc8) /\ pc' \in RunningPoints
    <2>1. /\ pc \in RunningPoints /\ Ready /\ Read
          /\ raw' = Append(raw, Next1(1)) /\ UNCHANGED state
      BY <1>5 DEF ReadParameters, ReadNumber, ReadBlockSize, ReadCrc8, BadHeader, RunningPoints,
         HeaderPoints
    <2>2. InFrame /\ CrcOver(br', raw')
      BY <2>1, CrcOfByte
    <2> QED
      BY <2>1, <2>2 DEF CrcInv, InFrame
  <1>6. CASE ReadBody /\ pc' \in RunningPoints
    <2>1. pc' = "body"
      BY <1>6 DEF ReadBody, BadFrame, RunningPoints, HeaderPoints
    <2> QED
      BY <1>6, <2>1, CrcOfBody
  <1>7. CASE UNCHANGED vars
    BY <1>7, CrcStays
  <1>8. ASSUME pc' \in RunningPoints, Next
        PROVE  \/ Refill \/ FindMetadata2 \/ SearchSync2 \/ ReadParameters \/ ReadNumber
               \/ ReadBlockSize \/ ReadCrc8 \/ ReadBody \/ UNCHANGED vars
    BY <1>8 DEF Next, Go, Returned, FindMetadata, ReadMetadata, AfterBlock, SkipBlock, SearchSync,
       ReadCrc16, BadFrame, WriteSilence, WriteFrame, Aborted, Rewind, RunningPoints, HeaderPoints
  <1> QED
    BY <1>1, <1>2, <1>3, <1>4, <1>5, <1>6, <1>7, <1>8

-------------------------------------------------------------------------------
(* Steps that take bytes from the buffer *)

\* The one byte of a step that takes one
LEMMA OneByte ==
    ASSUME input \in Inputs, ReaderInv, Ready, Reads = 1, Read
    PROVE  /\ 1 <= Available(br) - At(br) /\ Next1(1) \in Bytes
           /\ SameBytes(br', br) /\ At(br') = At(br) + 1 /\ Lsf(br') = Lsf(br)
  BY ReadingOne

\* Where a step leads that takes k bytes from the buffer
LEMMA Onward ==
    ASSUME input \in Inputs, ReaderInv, ReaderInv', PlaceInv, UNCHANGED fileVars,
           SameBytes(br', br), NEW k \in Nat, At(br') = At(br) + k
    PROVE  /\ Position' = Position + k /\ Position \in Int /\ PlaceInv'
           /\ FileStart' = FileStart /\ FileEnd' = FileEnd /\ Frames' = Frames
           /\ \A p : FileByte(p)' = FileByte(p)
           /\ Lsf(br') = Lsf(br) => (SyncSeen' <=> SyncSeen)
  <1>1. /\ FileStart' = FileStart /\ FileEnd' = FileEnd /\ Frames' = Frames
        /\ Position' = FileStart + At(br') /\ PlaceInv'
        /\ \A p : FileByte(p)' = FileByte(p)
    BY Moving
  <1>2. /\ Position = FileStart + At(br) /\ FileStart \in Int /\ At(br) \in Nat
        /\ Position \in Int
    BY WhereItIs
  <1>3. Position' = Position + k
    BY <1>1, <1>2
  <1>4. Lsf(br') = Lsf(br) => (SyncSeen' <=> SyncSeen)
    BY DEF Lsf, SyncSeen, Reader!FramesyncInBuffer
  <1> QED
    BY <1>1, <1>2, <1>3, <1>4

\* Where the search goes on after the step
LEMMA WhereItWillGoOn ==
    /\ (pc \in Early)' => GoesOn' = 5
    /\ pc' = "sync" => GoesOn' = IF cached' THEN Position' ELSE Position' + 1
    /\ pc' = "sync2" => GoesOn' = Position'
    /\ pc' \in FramePoints => GoesOn' = SyncAt' + 3
    /\ pc' = "bad" => GoesOn' = IF SyncSeen' THEN FileStart' + Lsf(br') + 2
                                ELSE last_seen_framesync' + 1
    /\ pc' = "gap" => GoesOn' = Position' + 1
    /\ pc' = "returned" => GoesOn' = IF state' = "END_OF_STREAM" THEN FileEnd' + 1 ELSE 0
  BY DEF GoesOn, Early, FramePoints, HeaderPoints

\* One more byte of the frame is read.
LEMMA Growing ==
    ASSUME input \in Inputs, ReaderInv, ReaderInv', PlaceInv, RawInv, SeekInv,
           UNCHANGED fileVars, SameBytes(br', br), 1 <= Available(br) - At(br),
           At(br') = At(br) + 1, Lsf(br') = Lsf(br), UNCHANGED last_seen_framesync,
           pc \in FramePoints, pc' \in FramePoints, raw' = Append(raw, Next1(1))
    PROVE  /\ RawInv' /\ SeekInv' /\ PlaceInv' /\ MetadataInv'
           /\ SyncAt' = SyncAt /\ GoesOn' = GoesOn /\ Len(raw') = Len(raw) + 1
  <1>1. /\ Position' = Position + 1 /\ Position \in Int /\ PlaceInv'
        /\ FileStart' = FileStart /\ FileEnd' = FileEnd
        /\ \A p : FileByte(p)' = FileByte(p)
        /\ SyncSeen' <=> SyncSeen
    BY Onward
  <1>2. /\ raw \in Seq(RawBytes) /\ Len(raw) \in Nat /\ At(br) \in Nat /\ FileEnd \in Nat
        /\ Lsf(br) \in Nat /\ Available(br) \in Nat
    BY WhereItIs
  <1>3. /\ Len(raw') = Len(raw) + 1 /\ raw'[Len(raw) + 1] = Next1(1)
        /\ \A i \in 1..Len(raw) : raw'[i] = raw[i]
    <2>1. Next1(1) \in RawBytes
      <3>1. At(br) < Available(br)
        BY <1>2
      <3>2. BufferInv /\ TellInv
        BY DEF ReaderInv
      <3> QED
        BY <3>1, <3>2, NextByte, FileIsBytes
    <2> QED
      BY <1>2, <2>1
  <1>4. SyncAt = Position - Len(raw) + 1 /\ SyncAt' = Position' - Len(raw') + 1
    BY DEF SyncAt
  <1>5. SyncAt' = SyncAt /\ SyncAt \in Int
    BY <1>1, <1>2, <1>3, <1>4
  <1>6. GoesOn = SyncAt + 3 /\ GoesOn' = SyncAt' + 3
    BY WhereItGoesOn, WhereItWillGoOn
  <1>7. RawInv'
    <2>1. /\ Len(raw) >= 2 /\ raw[1] = FF /\ raw[2] = Sync2
          /\ \A i \in 1..Len(raw) : SyncAt + i - 1 <= FileEnd =>
                raw[i] = FileByte(SyncAt + i - 1)
      BY DEF RawInv
    <2>2. Len(raw') >= 2 /\ raw'[1] = FF /\ raw'[2] = Sync2
      BY <1>2, <1>3, <2>1
    <2>3. ASSUME NEW i \in 1..Len(raw'), SyncAt + i - 1 <= FileEnd
          PROVE  raw'[i] = FileByte(SyncAt + i - 1)
      <3>1. CASE i \in 1..Len(raw)
        BY <1>3, <2>1, <2>3, <3>1
      <3>2. CASE i = Len(raw) + 1
        <4>1. SyncAt + i - 1 = Position + 1
          BY <1>1, <1>2, <1>4, <3>2
        <4>2. Position + 1 <= FileEnd
          BY <2>3, <4>1
        <4>3. 1 \in Nat /\ 1 \in 1..1
          OBVIOUS
        <4>4. Next1(1) = FileByte(Position + 1)
          BY <4>2, <4>3, StillInFile
        <4> QED
          BY <1>3, <3>2, <4>1, <4>4
      <3> QED
        BY <1>2, <1>3, <3>1, <3>2
    <2> QED
      BY <1>1, <1>5, <2>2, <2>3 DEF RawInv
  <1>8. SeekInv'
    <2>1. /\ last_seen_framesync \in 1..FileEnd /\ last_seen_framesync <= SyncAt + 1
          /\ SyncSeen => Lsf(br) = At(br) - Len(raw) + 2
      BY DEF SeekInv
    <2>2. SyncSeen' => Lsf(br') = At(br') - Len(raw') + 2
      BY <1>1, <1>2, <1>3, <2>1
    <2> QED
      BY <1>1, <1>5, <2>1, <2>2 DEF SeekInv
  <1>9. MetadataInv'
    BY DEF MetadataInv, FramePoints, HeaderPoints
  <1> QED
    BY <1>1, <1>3, <1>5, <1>6, <1>7, <1>8, <1>9

\* A bad header hides no frame.
LEMMA HeaderIsLeft ==
    ASSUME input \in Inputs, ReaderInv, ReaderInv', HeaderInv, RawInv, PlaceInv, KeptInv,
           UNCHANGED <<fileVars, written>>, SameBytes(br', br), At(br') = At(br) + 1,
           pc \in HeaderPoints, BadHeader,
           \A f, p : Pending(f, p) => ~IsRead(f, p)
    PROVE  PathInv'
  <1>1. Position' = Position + 1 /\ Position \in Int /\ PlaceInv'
    BY Onward
  <1>2. pc' = "sync"
    BY DEF BadHeader
  <1>3. GoesOn' = IF cached' THEN Position' ELSE Position' + 1
    BY <1>2, WhereItWillGoOn
  <1>4. pc \in FramePoints /\ GoesOn = SyncAt + 3
    BY WhereItGoesOn DEF FramePoints
  <1>5. ASSUME NEW f, NEW p, Pending(f, p), Ahead(f, p)
        PROVE  Ahead(f, p)'
    <2>1. p >= SyncAt + 3
      BY <1>4, <1>5 DEF Ahead, IsWhole, HeaderPoints
    <2>2. p > Position + 1
      BY <1>5, <2>1, BehindHeader
    <2>3. p \in Nat
      BY <1>5, PendingBytes
    <2>4. p >= GoesOn'
      BY <1>1, <1>3, <2>2, <2>3
    <2> QED
      BY <2>4 DEF Ahead
  <1>6. KeptInv'
    BY <1>5, KeptStep DEF fileVars
  <1>7. HeaderInv' /\ RawInv' /\ MetadataInv' /\ SeekInv'
    BY <1>2 DEF HeaderInv, RawInv, MetadataInv, SeekInv, FramePoints, HeaderPoints
  <1> QED
    BY <1>1, <1>6, <1>7 DEF PathInv

-------------------------------------------------------------------------------
(* In front of the frames *)

\* What a file begins with
LEMMA MetadataBytes ==
    ASSUME Scope
    PROVE  /\ FileByte(1) = Marker /\ FileByte(2) = StreamInfo(0)
           /\ FileByte(3) = Block(1, 1) /\ FileByte(4) = Other
           /\ FileEnd \in Nat /\ 4 <= FileEnd
  <1>1. input \in Inputs /\ IsPrefix(Metadata, input.file)
    BY DEF Scope
  <1>2. input.file \in Seq(FrameByte)
    <2>1. AnyByte \subseteq FrameByte
      BY DEF FrameByte
    <2>2. \A s \in Seq(AnyByte) : s \in Seq(FrameByte)
      BY <2>1
    <2> QED
      BY <1>1, <2>2, FramesOfInput
  <1> DEFINE S == FrameByte \cup {Marker, StreamInfo(0), Block(1, 1), Other}
  <1>3. input.file \in Seq(S)
    BY <1>2
  <1>4. /\ Metadata \in Seq(S) /\ Len(Metadata) = 4
        /\ Metadata[1] = Marker /\ Metadata[2] = StreamInfo(0)
        /\ Metadata[3] = Block(1, 1) /\ Metadata[4] = Other
    BY DEF Metadata
  <1> HIDE DEF S
  <1>5. /\ Len(Metadata) <= Len(input.file)
        /\ \A i \in 1..Len(Metadata) : Metadata[i] = input.file[i]
    BY <1>1, <1>3, <1>4, PrefixBytes
  <1>6. Len(input.file) \in Nat
    BY <1>3
  <1>7. \A i \in 1..4 : i \in 1..Len(input.file) /\ FileByte(i) = Metadata[i]
    BY <1>4, <1>5, <1>6 DEF FileByte
  <1>8. 1 \in 1..4 /\ 2 \in 1..4 /\ 3 \in 1..4 /\ 4 \in 1..4
    OBVIOUS
  <1> QED
    BY <1>4, <1>5, <1>6, <1>7, <1>8 DEF FileEnd

\* The marker
LEMMA FindMetadataPath ==
    ASSUME Scope, ReaderInv, ReaderInv', PathInv, FindMetadata
    PROVE  PathInv'
  <1>1. input \in Inputs /\ PlaceInv /\ MetadataInv /\ KeptInv
    BY DEF Scope, PathInv
  <1>2. /\ pc = "marker" /\ Ready /\ Take /\ UNCHANGED <<fileVars, written>>
        /\ Taken = Marker => pc' = "metadata"
    BY DEF FindMetadata, frameVars, FF, Marker, Byte
  <1>3. Position = 0 /\ ~cached
    BY <1>1, <1>2 DEF MetadataInv
  <1>4. Read /\ Taken = Next1(1) /\ Reads = 1
    BY <1>2, <1>3 DEF Take, Taken, Reads
  <1>5. /\ 1 <= Available(br) - At(br) /\ SameBytes(br', br) /\ At(br') = At(br) + 1
    BY <1>1, <1>2, <1>4, OneByte
  <1>6. Position' = Position + 1 /\ PlaceInv'
    BY <1>1, <1>2, <1>5, Onward
  <1>7. Next1(1) = Marker
    <2>1. FileByte(1) = Marker /\ Position + 1 <= FileEnd /\ Position + 1 = 1
      BY <1>3, MetadataBytes
    <2>2. 1 \in Nat /\ 1 \in 1..1
      OBVIOUS
    <2>3. Next1(1) = FileByte(Position + 1)
      BY <1>1, <1>5, <2>1, <2>2, StillInFile
    <2> QED
      BY <2>1, <2>3
  <1>8. pc' = "metadata" /\ Position' \in {1, 2}
    BY <1>2, <1>3, <1>4, <1>6, <1>7
  <1>9. GoesOn = 5 /\ GoesOn' = 5
    BY <1>2, <1>8, WhereItGoesOn, WhereItWillGoOn DEF Early
  <1>10. KeptInv'
    <2>1. ASSUME NEW f, NEW p, Pending(f, p), Ahead(f, p)
          PROVE  Ahead(f, p)'
      BY <1>2, <1>9, <2>1 DEF Ahead, IsRead, IsWhole, FramePoints, HeaderPoints
    <2> QED
      BY <1>1, <1>2, <2>1, KeptStep DEF fileVars
  <1> QED
    BY <1>6, <1>8, <1>10
    DEF PathInv, HeaderInv, RawInv, MetadataInv, SeekInv, FramePoints, HeaderPoints

\* The head of a metadata block
LEMMA ReadMetadataPath ==
    ASSUME Scope, ReaderInv, ReaderInv', PathInv, ReadMetadata
    PROVE  PathInv'
  <1>1. input \in Inputs /\ PlaceInv /\ MetadataInv /\ KeptInv
    BY DEF Scope, PathInv
  <1>2. /\ pc = "metadata" /\ Ready /\ Read /\ UNCHANGED <<fileVars, written>>
        /\ Next1(1).is = "streaminfo" => AfterBlock(Next1(1).of)
        /\ Next1(1).is = "block" =>
              skip' = Next1(1).at /\ raw' = <<Next1(1)>> /\ pc' = "skip"
    BY DEF ReadMetadata, frameVars
  <1>3. Position \in {1, 2}
    BY <1>1, <1>2 DEF MetadataInv
  <1>4. Reads = 1
    BY <1>2 DEF Reads
  <1>5. /\ 1 <= Available(br) - At(br) /\ SameBytes(br', br) /\ At(br') = At(br) + 1
    BY <1>1, <1>2, <1>4, OneByte
  <1>6. Position' = Position + 1 /\ PlaceInv'
    BY <1>1, <1>2, <1>5, Onward
  <1>7. Next1(1) = FileByte(Position + 1)
    <2>1. Position + 1 <= FileEnd
      BY <1>3, MetadataBytes
    <2>2. 1 \in Nat /\ 1 \in 1..1
      OBVIOUS
    <2> QED
      BY <1>1, <1>5, <2>1, <2>2, StillInFile
  <1>8. /\ pc' \in {"metadata", "skip"}
        /\ pc' = "metadata" => Position' \in {1, 2}
        /\ pc' = "skip" => raw'[1].of = 1 /\ Position' + skip' = 4
    <2>1. CASE Position = 1
      <3>1. Next1(1) = StreamInfo(0)
        BY <1>7, <2>1, MetadataBytes
      <3>2. pc' = "metadata"
        BY <1>2, <3>1 DEF StreamInfo, Byte, AfterBlock
      <3> QED
        BY <1>6, <2>1, <3>2
    <2>2. CASE Position = 2
      <3>1. Next1(1) = Block(1, 1)
        BY <1>7, <2>2, MetadataBytes
      <3>2. skip' = 1 /\ raw' = <<Block(1, 1)>> /\ pc' = "skip"
        BY <1>2, <3>1 DEF Block, Byte
      <3>3. raw'[1].of = 1
        BY <3>2 DEF Block, Byte
      <3> QED
        BY <1>6, <2>2, <3>2, <3>3
    <2> QED
      BY <1>3, <2>1, <2>2
  <1>9. GoesOn = 5 /\ GoesOn' = 5
    BY <1>2, <1>8, WhereItGoesOn, WhereItWillGoOn DEF Early
  <1>10. KeptInv'
    <2>1. ASSUME NEW f, NEW p, Pending(f, p), Ahead(f, p)
          PROVE  Ahead(f, p)'
      BY <1>2, <1>9, <2>1 DEF Ahead, IsRead, IsWhole, FramePoints, HeaderPoints
    <2> QED
      BY <1>1, <1>2, <2>1, KeptStep DEF fileVars
  <1> QED
    BY <1>6, <1>8, <1>10
    DEF PathInv, HeaderInv, RawInv, MetadataInv, SeekInv, FramePoints, HeaderPoints

\* The rest of it
LEMMA SkipBlockPath ==
    ASSUME Scope, ReaderInv, ReaderInv', PathInv, SkipBlock
    PROVE  PathInv'
  <1>1. input \in Inputs /\ PlaceInv /\ MetadataInv /\ KeptInv /\ ControlInv
    BY DEF Scope, PathInv, ReaderInv
  <1>2. /\ pc = "skip" /\ Ready /\ Read /\ UNCHANGED <<fileVars, written, cached>>
        /\ IF skip > 0 THEN skip' = skip - 1 /\ UNCHANGED <<pc, raw>>
           ELSE AfterBlock(raw[1].of)
    BY DEF SkipBlock, frameVars, syncVars
  <1>3. raw[1].of = 1 /\ Position + skip = 4 /\ ~cached /\ skip \in Nat
    BY <1>1, <1>2 DEF MetadataInv, ControlInv
  <1>4. PICK k \in Nat : Reads = k /\ k = IF skip = 0 THEN 0 ELSE 1
    BY <1>2 DEF Reads
  <1>5. SameBytes(br', br) /\ At(br') = At(br) + k
    BY <1>1, <1>2, <1>4, Reading
  <1>6. Position' = Position + k /\ Position \in Int /\ PlaceInv'
    BY <1>1, <1>2, <1>4, <1>5, Onward
  <1>7. \/ /\ pc' = "skip" /\ raw' = raw /\ Position' + skip' = 4
        \/ pc' = "sync" /\ Position' = 4 /\ ~cached'
    <2>1. CASE skip > 0
      BY <1>2, <1>3, <1>4, <1>6, <2>1
    <2>2. CASE ~(skip > 0)
      BY <1>2, <1>3, <1>4, <1>6, <2>2 DEF AfterBlock
    <2> QED
      BY <2>1, <2>2
  <1>8. GoesOn = 5 /\ GoesOn' = 5
    BY <1>2, <1>7, WhereItGoesOn, WhereItWillGoOn DEF Early
  <1>9. KeptInv'
    <2>1. ASSUME NEW f, NEW p, Pending(f, p), Ahead(f, p)
          PROVE  Ahead(f, p)'
      BY <1>2, <1>8, <2>1 DEF Ahead, IsRead, IsWhole, FramePoints, HeaderPoints
    <2> QED
      BY <1>1, <1>2, <2>1, KeptStep DEF fileVars
  <1> QED
    BY <1>3, <1>6, <1>7, <1>9
    DEF PathInv, HeaderInv, RawInv, MetadataInv, SeekInv, FramePoints, HeaderPoints

-------------------------------------------------------------------------------
(* The search for a sync *)

\* The first byte of a sync
LEMMA SearchSyncPath ==
    ASSUME Scope, ReaderInv, ReaderInv', PathInv, SearchSync
    PROVE  PathInv'
  <1>1. input \in Inputs /\ PlaceInv /\ KeptInv
    BY DEF Scope, PathInv
  <1>2. /\ pc = "sync" /\ Ready /\ Take /\ UNCHANGED <<fileVars, written>>
        /\ pc' = IF Taken = FF THEN "sync2" ELSE "sync"
    BY DEF SearchSync, frameVars
  <1>3. PICK k \in 0..1 :
              /\ k <= Available(br) - At(br) /\ (cached <=> k = 0)
              /\ SameBytes(br', br) /\ At(br') = At(br) + k /\ cached' = FALSE
              /\ At(br) + k <= OfFile => Taken = FileByte(FileStart + At(br) + k)
    BY <1>1, <1>2, TakingStep
  <1>4. k \in Nat /\ (k = 0 \/ k = 1)
    BY <1>3
  <1>5. Position' = Position + k /\ Position \in Int /\ PlaceInv'
    BY <1>1, <1>2, <1>3, <1>4, Onward
  <1>6. GoesOn = Position'
    BY <1>2, <1>3, <1>4, <1>5, WhereItGoesOn
  <1>7. GoesOn' = IF Taken = FF THEN Position' ELSE Position' + 1
    BY <1>2, <1>3, WhereItWillGoOn
  <1>8. Position' <= FileEnd => Taken = FileByte(Position')
    <2>1. Position' <= FileEnd => At(br) + k <= OfFile
      BY <1>1, <1>3, <1>4, <1>5, StillInFile
    <2>2. FileStart + At(br) + k = Position'
      <3>1. Position = FileStart + At(br) /\ FileStart \in Int /\ At(br) \in Nat
        BY <1>1, WhereItIs
      <3> QED
        BY <1>4, <1>5, <3>1
    <2> QED
      BY <1>3, <2>1, <2>2
  <1>9. KeptInv'
    <2>1. ASSUME NEW f, NEW p, Pending(f, p), Ahead(f, p)
          PROVE  Ahead(f, p)'
      <3>1. p >= Position'
        BY <1>2, <1>6, <2>1 DEF Ahead, IsRead, IsWhole, FramePoints, HeaderPoints
      <3>2. /\ p \in Nat /\ Length(f) \in Nat /\ FileEnd \in Nat /\ 9 <= Length(f)
            /\ p + Length(f) - 1 < FileEnd
        BY <1>1, <2>1, PendingBytes
      <3>3. FileByte(p) = FF
        BY <1>1, <2>1, PendingStart
      <3>4. p = Position' => Taken = FF
        BY <1>8, <3>2, <3>3
      <3>5. p >= GoesOn'
        BY <1>4, <1>5, <1>7, <3>1, <3>2, <3>4
      <3> QED
        BY <3>5 DEF Ahead
    <2> QED
      BY <1>1, <1>2, <2>1, KeptStep DEF fileVars
  <1>10. pc' \in {"sync", "sync2"}
    BY <1>2
  <1> QED
    BY <1>5, <1>9, <1>10
    DEF PathInv, HeaderInv, RawInv, MetadataInv, SeekInv, FramePoints, HeaderPoints

\* The place behind a sync, as it is remembered
LEMMA PlaceOfSync ==
    ASSUME Scope, ReaderInv, PlaceInv, 1 <= Available(br) - At(br)
    PROVE  LET place == Fs!Minus(sramReadAddr, Available(br) - At(br) - 1) IN
           place \in 1..FileEnd /\ place <= Position + 1
  <1> DEFINE unread == Available(br) - At(br) - 1
             place == Fs!Minus(sramReadAddr, unread)
  <1>1. /\ At(br) \in Nat /\ Available(br) \in Nat /\ Available(br) <= BufferBytes
        /\ BufferBytes \in Nat /\ FileEnd \in Nat /\ BufferBytes <= FileEnd
        /\ Position = FileStart + At(br) /\ beyond \in Nat /\ OfFile \in Int
        /\ FileStart \in Int
    BY WhereItIs DEF Scope
  <1>2. sramReadAddr \in 0..FileEnd /\ FileStart >= 0
    BY DEF PlaceInv
  <1>3. OfFile = Available(br) - beyond /\ FileStart = sramReadAddr - OfFile
    BY DEF OfFile, FileStart
  <1>4. beyond > 0 => sramReadAddr = FileEnd
    <2>1. TellInv
      BY DEF ReaderInv
    <2> QED
      BY <1>1, <2>1 DEF TellInv
  <1>5. unread \in Nat /\ unread = Available(br) - At(br) - 1
    BY <1>1
  <1>6. place = IF unread <= sramReadAddr THEN sramReadAddr - unread
                ELSE Wrap + sramReadAddr - unread
    BY DEF Fs!Minus
  <1> HIDE DEF unread, place
  <1>7. unread < sramReadAddr
    <2>1. CASE beyond = 0
      BY <1>1, <1>2, <1>3, <1>5, <2>1
    <2>2. CASE beyond > 0
      BY <1>1, <1>4, <1>5, <2>2
    <2> QED
      BY <1>1, <2>1, <2>2
  <1>8. place = sramReadAddr - unread
    BY <1>1, <1>2, <1>5, <1>6, <1>7
  <1>9. place \in 1..FileEnd
    BY <1>1, <1>2, <1>5, <1>7, <1>8
  <1>10. place <= Position + 1
    BY <1>1, <1>2, <1>3, <1>5, <1>8
  <1> QED
    BY <1>9, <1>10 DEF place, unread

\* The byte that the search for the second byte of a sync is at
LEMMA AtSync ==
    ASSUME Scope, ReaderInv, PlaceInv, pc = "sync2", 1 <= Available(br) - At(br)
    PROVE  /\ Position <= FileEnd => FileByte(Position) = FF
           /\ Position + 1 <= FileEnd => Next1(1) = FileByte(Position + 1)
  <1>1. input \in Inputs /\ BufferInv /\ TellInv /\ LookInv
    BY DEF Scope, ReaderInv
  <1>2. ASSUME Position <= FileEnd
        PROVE  FileByte(Position) = FF
    <2>1. /\ At(br) \in Nat /\ Available(br) \in Nat /\ Position \in Int /\ OfFile \in Int
          /\ InFile <=> At(br) <= OfFile
      BY <1>1, WhereItIs, PlacesInFile
    <2>2. 0 \in Nat /\ 0 <= Available(br) - At(br) /\ Position + 0 <= FileEnd
      BY <1>2, <2>1
    <2>3. At(br) + 0 <= OfFile
      BY <1>1, <2>2, StillInFile
    <2> QED
      BY <1>1, <2>1, <2>3 DEF LookInv
  <1>3. ASSUME Position + 1 <= FileEnd
        PROVE  Next1(1) = FileByte(Position + 1)
    <2>1. 1 \in Nat /\ 1 \in 1..1
      OBVIOUS
    <2> QED
      BY <1>1, <1>3, <2>1, StillInFile
  <1> QED
    BY <1>2, <1>3

\* No frame begins between a sync and what comes behind it.
LEMMA SyncHidesNothing ==
    ASSUME Scope, ReaderInv, PlaceInv, pc = "sync2", 1 <= Available(br) - At(br),
           NEW f, NEW p, Pending(f, p), p >= Position
    PROVE  /\ p \in Nat /\ Position \in Int
           /\ Next1(1) = Sync2 => p = Position \/ p >= Position + 3
           /\ Next1(1) = FF => p >= Position + 1
           /\ Next1(1) \notin {FF, Sync2} => p >= Position + 2
  <1>1. /\ p \in Nat /\ Length(f) \in Nat /\ FileEnd \in Nat /\ 9 <= Length(f)
        /\ p + Length(f) - 1 < FileEnd
    BY PendingBytes DEF Scope
  <1>2. /\ FileByte(p) = FF /\ FileByte(p + 1) = Sync2
        /\ \A q \in Int : p - LongestHeader <= q /\ q < p =>
               ~(FileByte(q) = FF /\ FileByte(q + 1) = Sync2)
    BY PendingStart DEF Scope
  <1>3. Position \in Int
    BY WhereItIs DEF Scope
  <1>4. /\ Position <= FileEnd /\ FileByte(Position) = FF
        /\ Position + 1 <= FileEnd /\ Next1(1) = FileByte(Position + 1)
    <2>1. Position <= FileEnd /\ Position + 1 <= FileEnd
      BY <1>1, <1>3
    <2> QED
      BY <2>1, AtSync
  <1>5. FF # Sync2
    BY DEF FF, Sync2, Byte
  <1>6. p = Position => Next1(1) = Sync2
    BY <1>2, <1>4
  <1>7. p = Position + 1 => Next1(1) = FF
    BY <1>2, <1>4
  <1>8. p = Position + 2 => Next1(1) # Sync2
    <2>1. ASSUME p = Position + 2
          PROVE  Next1(1) # Sync2
      <3>1. p - LongestHeader <= Position /\ Position < p
        BY <1>1, <1>3, <2>1, DecoderAssumption DEF LongestHeader
      <3> QED
        BY <1>2, <1>3, <1>4, <3>1
    <2> QED
      BY <2>1
  <1>9. p = Position \/ p = Position + 1 \/ p = Position + 2 \/ p >= Position + 3
    BY <1>1, <1>3
  <1>10. p = Position => p >= Position /\ ~(p >= Position + 1) /\ p < Position + 2
    BY <1>1, <1>3
  <1>11. p # Position => p >= Position + 1
    BY <1>1, <1>3
  <1>12. p # Position /\ p # Position + 1 => p >= Position + 2
    BY <1>1, <1>3
  <1> QED
    BY <1>1, <1>3, <1>5, <1>6, <1>7, <1>8, <1>9, <1>11, <1>12

\* The second byte of a sync is there.
LEMMA SyncFoundPath ==
    ASSUME Scope, ReaderInv, ReaderInv', PathInv, SearchSync2, pc' = "parameters"
    PROVE  PathInv'
  <1> DEFINE b == Reader!Consume(br, BitsPerByte)
             c == Reader!SetFramesyncLocation(b)
  <1>1. input \in Inputs /\ PlaceInv /\ KeptInv
    BY DEF Scope, PathInv
  <1>2. /\ pc = "sync2" /\ Ready /\ UNCHANGED <<fileVars, written>>
        /\ Next1(1) = Sync2 /\ raw' = <<FF, Sync2>>
        /\ br' = Reader!ResetReadCrc16(c, <<FF, Sync2>>)
        /\ last_seen_framesync' = DecodePosition(b)
    BY DEF SearchSync2, StartFrame, frameVars
  <1>3. Reads = 1
    BY <1>2 DEF Reads
  <1>4. /\ 1 <= Available(br) - At(br)
        /\ Good(b, Bytes) /\ SameBytes(b, br) /\ At(b) = At(br) + 1
    BY <1>1, <1>2, <1>3, ReadingOne
  <1>5. Good(c, Bytes) /\ SameBytes(c, b) /\ At(c) = At(b) /\ Lsf(c) = At(b)
    BY <1>4, RememberSync
  <1>6. <<FF, Sync2>> \in Seq(Bytes)
    BY <1>1, FileIsBytes
  <1>7. At(br) \in Nat /\ Available(br) \in Nat
    BY <1>1, WhereItIs
  <1>8. last_seen_framesync' = Fs!Minus(sramReadAddr, Available(br) - At(br) - 1)
    <2>1. Reader!Unconsumed(b) \div BitsPerByte = Available(b) - At(b)
      BY <1>4, GoodPlaces
    <2>2. Reader!Unconsumed(b) \div BitsPerByte = Available(br) - At(br) - 1
      BY <1>4, <1>7, <2>1 DEF SameBytes
    <2> QED
      BY <1>2, <2>2 DEF DecodePosition, Fs!Tell
  <1> HIDE DEF b, c
  <1>9. SameBytes(br', br) /\ At(br') = At(br) + 1 /\ Lsf(br') = At(br')
    <2>1. SameBytes(br', c) /\ At(br') = At(c) /\ Lsf(br') = Lsf(c)
      BY <1>2, <1>5, <1>6, ResetCrc
    <2> QED
      BY <1>4, <1>5, <2>1 DEF SameBytes
  <1>10. /\ Position' = Position + 1 /\ Position \in Int /\ PlaceInv'
         /\ FileEnd' = FileEnd /\ \A p : FileByte(p)' = FileByte(p)
    BY <1>1, <1>2, <1>9, Onward
  <1>11. /\ Len(raw') = 2 /\ raw'[1] = FF /\ raw'[2] = Sync2
    BY <1>2
  <1>12. SyncAt' = Position
    <2>1. SyncAt' = Position' - Len(raw') + 1
      BY DEF SyncAt
    <2> QED
      BY <1>10, <1>11, <2>1
  <1>13. GoesOn = Position /\ GoesOn' = Position + 3
    BY <1>2, <1>12, WhereItGoesOn, WhereItWillGoOn DEF FramePoints, HeaderPoints
  <1>14. RawInv'
    <2>1. PICK q \in Int : q = Position
      BY <1>10
    <2>2. ASSUME NEW i \in 1..Len(raw'), q + i - 1 <= FileEnd
          PROVE  raw'[i] = FileByte(q + i - 1)
      <3>1. i = 1 \/ i = 2
        BY <1>11
      <3>2. CASE i = 1
        <4>1. q + i - 1 = q
          BY <3>2
        <4> QED
          BY <1>1, <1>2, <1>4, <1>11, <2>1, <2>2, <3>2, <4>1, AtSync
      <3>3. CASE i = 2
        <4>1. q + i - 1 = q + 1
          BY <3>3
        <4> QED
          BY <1>1, <1>2, <1>4, <1>11, <2>1, <2>2, <3>3, <4>1, AtSync
      <3> QED
        BY <3>1, <3>2, <3>3
    <2>3. SyncAt' = q /\ Len(raw') >= 2
      BY <1>11, <1>12, <2>1
    <2>4. \A i \in 1..Len(raw') : SyncAt' + i - 1 <= FileEnd' =>
              raw'[i] = FileByte(SyncAt + i - 1)'
      BY <1>10, <2>2, <2>3
    <2> QED
      BY <1>11, <2>3, <2>4 DEF RawInv
  <1>15. SeekInv'
    <2>1. last_seen_framesync' \in 1..FileEnd /\ last_seen_framesync' <= Position + 1
      BY <1>1, <1>4, <1>8, PlaceOfSync
    <2>2. At(br') = At(br') - Len(raw') + 2
      BY <1>7, <1>9, <1>11
    <2> QED
      BY <1>9, <1>10, <1>12, <2>1, <2>2 DEF SeekInv
  <1>16. KeptInv'
    <2>1. ASSUME NEW f, NEW p, Pending(f, p), Ahead(f, p)
          PROVE  Ahead(f, p)'
      <3>1. p >= Position
        BY <1>2, <1>13, <2>1 DEF Ahead, IsRead, IsWhole, FramePoints, HeaderPoints
      <3>2. p = Position \/ p >= Position + 3
        BY <1>1, <1>2, <1>4, <2>1, <3>1, SyncHidesNothing
      <3>3. p = Position => IsRead(f, p)'
        BY <1>12 DEF IsRead, FramePoints, HeaderPoints
      <3> QED
        BY <1>13, <3>2, <3>3 DEF Ahead
    <2> QED
      BY <1>1, <1>2, <2>1, KeptStep DEF fileVars
  <1> QED
    BY <1>10, <1>14, <1>15, <1>16 DEF PathInv, HeaderInv, MetadataInv

\* The second byte of a sync, or none
LEMMA SearchSync2Path ==
    ASSUME Scope, ReaderInv, ReaderInv', PathInv, SearchSync2
    PROVE  PathInv'
  <1>1. input \in Inputs /\ PlaceInv /\ KeptInv /\ ControlInv
    BY DEF Scope, PathInv, ReaderInv
  <1>2. CASE pc' = "parameters"
    BY <1>2, SyncFoundPath
  <1>3. CASE pc' # "parameters"
    <2>1. /\ pc = "sync2" /\ Ready /\ UNCHANGED <<fileVars, written>> /\ pc' = "sync"
          /\ br' = Reader!Consume(br, BitsPerByte)
          /\ \/ Next1(1) = FF /\ cached'
             \/ Next1(1) \notin {FF, Sync2} /\ UNCHANGED cached
      BY <1>3 DEF SearchSync2, StartFrame, frameVars, syncVars, LookAhead
    <2>2. Reads = 1 /\ ~cached
      BY <1>1, <2>1 DEF Reads, ControlInv
    <2>3. 1 <= Available(br) - At(br) /\ SameBytes(br', br) /\ At(br') = At(br) + 1
      BY <1>1, <2>1, <2>2, ReadingOne
    <2>4. Position' = Position + 1 /\ Position \in Int /\ PlaceInv'
      BY <1>1, <2>1, <2>3, Onward
    <2>5. GoesOn = Position /\ GoesOn' = IF cached' THEN Position + 1 ELSE Position + 2
      BY <2>1, <2>4, WhereItGoesOn, WhereItWillGoOn
    <2>6. KeptInv'
      <3>1. ASSUME NEW f, NEW p, Pending(f, p), Ahead(f, p)
            PROVE  Ahead(f, p)'
        <4>1. p >= Position
          BY <2>1, <2>5, <3>1 DEF Ahead, IsRead, IsWhole, FramePoints, HeaderPoints
        <4>2. /\ Next1(1) = FF => p >= Position + 1
              /\ Next1(1) \notin {FF, Sync2} => p >= Position + 2
          BY <1>1, <2>1, <2>3, <3>1, <4>1, SyncHidesNothing
        <4>3. p >= GoesOn'
          BY <2>1, <2>2, <2>5, <4>2
        <4> QED
          BY <4>3 DEF Ahead
      <3> QED
        BY <1>1, <2>1, <3>1, KeptStep DEF fileVars
    <2> QED
      BY <2>1, <2>4, <2>6
      DEF PathInv, HeaderInv, RawInv, MetadataInv, SeekInv, FramePoints, HeaderPoints
  <1> QED
    BY <1>2, <1>3

-------------------------------------------------------------------------------
(* The header of a frame *)

\* There is more of its header.
LEMMA HeaderIsLonger ==
    ASSUME input \in Inputs, ReaderInv, HeaderInv, pc \in HeaderPoints,
           NEW f, NEW p, Pending(f, p), IsRead(f, p)
    PROVE  Len(raw) + 1 <= 6 + Frames[f].hints
  <1>1. Frames[f].hints \in Nat
    BY PendingBytes
  <1>2. Len(raw) \in Nat /\ skip \in Nat
    BY WhereItIs
  <1>3. Len(raw) + 1 <= 6 + Frames[f].hints
    <2>1. /\ pc = "parameters" => Len(raw) \in {2, 3}
          /\ pc = "blocksize" => skip > 0
      BY DEF ReaderInv, ControlInv
    <2>2. pc = "number" => Len(raw) = 4
      BY DEF HeaderInv
    <2>3. /\ pc # "number2"
          /\ pc = "blocksize" => Len(raw) + skip = 5 + Frames[f].hints
          /\ pc = "crc8" => Len(raw) = 5 + Frames[f].hints
      BY DEF IsRead
    <2>4. PICK n \in Nat, h \in Nat : n = Len(raw) /\ h = Frames[f].hints
      BY <1>1, <1>2
    <2>5. pc \in {"parameters", "number"} => n <= 4
      <3>1. pc = "parameters" => n = 2 \/ n = 3
        BY <2>1, <2>4
      <3>2. pc = "number" => n = 4
        BY <2>2, <2>4
      <3>3. pc = "parameters" => n <= 4
        BY <3>1
      <3>4. pc = "number" => n <= 4
        BY <3>2
      <3> QED
        BY <3>3, <3>4
    <2>6. pc = "blocksize" => n + skip = 5 + h /\ skip > 0
      BY <2>1, <2>3, <2>4
    <2>7. pc = "crc8" => n = 5 + h
      BY <2>3, <2>4
    <2>8. n + 1 <= 6 + h
      <3>1. pc \in {"parameters", "number"} => n + 1 <= 6 + h
        BY <2>4, <2>5
      <3>2. pc = "blocksize" => n + 1 <= 6 + h
        BY <1>2, <2>4, <2>6
      <3>3. pc = "crc8" => n + 1 <= 6 + h
        BY <2>4, <2>7
      <3> QED
        BY <2>3, <3>1, <3>2, <3>3 DEF HeaderPoints
    <2> QED
      BY <2>4, <2>8
  <1> QED
    BY <1>3

\* The header of the frame that is read
LEMMA HeaderOfRead ==
    ASSUME input \in Inputs, ReaderInv, HeaderInv, RawInv, PlaceInv, pc \in HeaderPoints,
           1 <= Available(br) - At(br), NEW f, NEW p, Pending(f, p), IsRead(f, p)
    PROVE  /\ f \in 1..Len(Frames) /\ Frames[f].hints \in Nat
           /\ Len(raw) \in Nat /\ Len(raw) >= 2 /\ Len(raw) + 1 <= 6 + Frames[f].hints
           /\ \A i \in 1..Len(raw) : raw[i] = Header(Frames, f)[i]
           /\ Next1(1) = Header(Frames, f)[Len(raw) + 1]
  <1>1. /\ f \in 1..Len(Frames) /\ Length(f) \in Nat /\ Frames[f].hints \in Nat
        /\ 9 + Frames[f].hints <= Length(f)
    BY PendingBytes
  <1>2. Len(raw) \in Nat /\ skip \in Nat
    BY WhereItIs
  <1>3. Len(raw) + 1 <= 6 + Frames[f].hints
    BY HeaderIsLonger
  <1>4. /\ \A i \in 1..Len(raw) : raw[i] = Whole(Frames, f)[i]
        /\ Len(raw) >= 2
        /\ Next1(1) = Whole(Frames, f)[Len(raw) + 1]
    <2>1. Len(raw) <= Length(f) /\ Len(raw) + 1 <= Length(f)
      BY <1>1, <1>2, <1>3
    <2>2. 1 \in Nat /\ 1 \in 1..1
      OBVIOUS
    <2> QED
      BY <2>1, <2>2, BytesOfRead
  <1>5. \A i \in 1..(6 + Frames[f].hints) : Whole(Frames, f)[i] = Header(Frames, f)[i]
    BY <1>1, WholeBytes
  <1>6. \A i \in 1..Len(raw) : i \in 1..(6 + Frames[f].hints)
    BY <1>1, <1>2, <1>3
  <1>7. Len(raw) + 1 \in 1..(6 + Frames[f].hints)
    BY <1>1, <1>2, <1>3
  <1> QED
    BY <1>1, <1>2, <1>3, <1>4, <1>5, <1>6, <1>7

\* The bytes of a header, one after the other
LEMMA ReadParametersPath ==
    ASSUME Scope, ReaderInv, ReaderInv', PathInv, ReadParameters
    PROVE  PathInv'
  <1>1. /\ input \in Inputs /\ PlaceInv /\ KeptInv /\ HeaderInv /\ RawInv /\ SeekInv
        /\ ControlInv
    BY DEF Scope, PathInv, ReaderInv
  <1>2. /\ pc = "parameters" /\ Ready /\ Read
        /\ UNCHANGED <<fileVars, written, last_seen_framesync>>
        /\ \/ Next1(1) = FF /\ BadHeader
           \/ Len(raw) = 3 /\ raw[3].is # "parameters" /\ BadHeader
           \/ /\ raw' = Append(raw, Next1(1))
              /\ pc' = IF Len(raw) = 3 THEN "number" ELSE "parameters"
    BY DEF ReadParameters, frameVars
  <1>3. Reads = 1
    BY <1>2 DEF Reads
  <1>4. /\ 1 <= Available(br) - At(br) /\ SameBytes(br', br)
        /\ At(br') = At(br) + 1 /\ Lsf(br') = Lsf(br)
    BY <1>1, <1>2, <1>3, OneByte
  <1>5. pc \in HeaderPoints /\ pc \in FramePoints /\ Len(raw) \in {2, 3}
    BY <1>1, <1>2 DEF HeaderPoints, FramePoints, ControlInv
  <1>6. CASE BadHeader /\ (Next1(1) = FF \/ (Len(raw) = 3 /\ raw[3].is # "parameters"))
    <2>1. ASSUME NEW f, NEW p, Pending(f, p), IsRead(f, p)
          PROVE  FALSE
      <3>1. /\ f \in 1..Len(Frames)
            /\ \A i \in 1..Len(raw) : raw[i] = Header(Frames, f)[i]
            /\ Next1(1) = Header(Frames, f)[Len(raw) + 1]
        BY <1>1, <1>4, <1>5, <2>1, HeaderOfRead
      <3>2. /\ Header(Frames, f)[3] = Byte("parameters", f, 1)
            /\ Header(Frames, f)[4] = Byte("parameters", f, 2)
        BY <1>1, <3>1, HeaderBytes
      <3>3. Next1(1).is = "parameters"
        <4>1. Len(raw) = 2 \/ Len(raw) = 3
          BY <1>5
        <4>2. Len(raw) = 2 => Len(raw) + 1 = 3
          OBVIOUS
        <4>3. Len(raw) = 3 => Len(raw) + 1 = 4
          OBVIOUS
        <4> QED
          BY <3>1, <3>2, <4>1, <4>2, <4>3 DEF Byte
      <3>4. Len(raw) = 3 => raw[3].is = "parameters"
        <4>1. Len(raw) = 3 => 3 \in 1..Len(raw)
          OBVIOUS
        <4> QED
          BY <3>1, <3>2, <4>1 DEF Byte
      <3> QED
        BY <1>6, <3>3, <3>4 DEF FF, Byte
    <2>2. \A f, p : Pending(f, p) => ~IsRead(f, p)
      BY <2>1
    <2> QED
      BY <1>1, <1>2, <1>4, <1>5, <1>6, <2>2, HeaderIsLeft
  <1>7. CASE /\ raw' = Append(raw, Next1(1))
             /\ pc' = IF Len(raw) = 3 THEN "number" ELSE "parameters"
    <2>1. pc' \in FramePoints
      BY <1>7 DEF HeaderPoints, FramePoints
    <2>2. /\ RawInv' /\ SeekInv' /\ PlaceInv' /\ MetadataInv'
          /\ SyncAt' = SyncAt /\ GoesOn' = GoesOn /\ Len(raw') = Len(raw) + 1
      BY <1>1, <1>2, <1>4, <1>5, <1>7, <2>1, Growing
    <2>3. HeaderInv'
      <3>1. Len(raw) = 3 => Len(raw') = 4
        BY <2>2
      <3>2. pc' = "number" => Len(raw') = 4
        BY <1>7, <3>1
      <3> QED
        BY <1>7, <3>2 DEF HeaderInv
    <2>4. ASSUME NEW f, NEW p, Pending(f, p), Ahead(f, p)
          PROVE  Ahead(f, p)'
      BY <1>2, <1>7, <2>1, <2>2, <2>4 DEF Ahead, IsRead, IsWhole
    <2>5. KeptInv'
      BY <1>1, <1>2, <2>4, KeptStep DEF fileVars
    <2> QED
      BY <2>2, <2>3, <2>5 DEF PathInv
  <1> QED
    BY <1>2, <1>6, <1>7

\* How many bytes a header may ask for
LEMMA HintsAreBounded ==
    ASSUME input \in Inputs, ReaderInv, Len(raw) >= 3
    PROVE  \A n \in Hints : n \in Nat /\ n <= MaxExtraBody
  <1>1. raw[3] \in RawBytes
    <2>1. raw \in Seq(RawBytes) /\ Len(raw) \in Nat
      BY WhereItIs
    <2> QED
      BY <2>1
  <1>2. raw[3].is = "parameters" => raw[3].of \in 1..Len(Frames)
    BY <1>1, FileIsBytes
  <1>3. \A f \in 1..Len(Frames) : Frames[f].hints \in 0..MaxExtraBody
    BY FramesOfInput
  <1>4. MaxExtraBody \in Nat
    BY DecoderAssumption
  <1> QED
    BY <1>2, <1>3, <1>4 DEF Hints

\* The number, and what it says of how many more bytes there are
LEMMA ReadNumberPath ==
    ASSUME Scope, ReaderInv, ReaderInv', PathInv, ReadNumber
    PROVE  PathInv'
  <1>1. /\ input \in Inputs /\ PlaceInv /\ KeptInv /\ HeaderInv /\ RawInv /\ SeekInv
        /\ ControlInv
    BY DEF Scope, PathInv, ReaderInv
  <1>2. /\ pc \in {"number", "number2"} /\ Ready /\ Read
        /\ UNCHANGED <<fileVars, written, last_seen_framesync>>
        /\ \/ raw' = Append(raw, Next1(1)) /\ NumberDone
           \/ /\ pc = "number" /\ Next1(1).is # "number"
              /\ raw' = Append(raw, Next1(1)) /\ pc' = "number2"
           \/ (pc = "number" => Next1(1).is # "number") /\ BadHeader
    BY DEF ReadNumber, frameVars
  <1>3. Reads = 1
    BY <1>2 DEF Reads
  <1>4. /\ 1 <= Available(br) - At(br) /\ SameBytes(br', br)
        /\ At(br') = At(br) + 1 /\ Lsf(br') = Lsf(br)
    BY <1>1, <1>2, <1>3, OneByte
  <1>5. /\ pc \in HeaderPoints /\ pc \in FramePoints
        /\ pc = "number" => Len(raw) = 4
        /\ pc = "number2" => Len(raw) = 5
    BY <1>1, <1>2 DEF HeaderPoints, FramePoints, HeaderInv
  \* The frame that is read has a number here.
  <1>6. ASSUME NEW f, NEW p, Pending(f, p), IsRead(f, p)
        PROVE  /\ pc = "number" /\ Len(raw) = 4 /\ Next1(1).is = "number"
               /\ Hints = {Frames[f].hints} /\ Frames[f].hints \in Nat
    <2>1. /\ f \in 1..Len(Frames) /\ Frames[f].hints \in Nat
          /\ \A i \in 1..Len(raw) : raw[i] = Header(Frames, f)[i]
          /\ Next1(1) = Header(Frames, f)[Len(raw) + 1]
      BY <1>1, <1>4, <1>5, <1>6, HeaderOfRead
    <2>2. pc = "number" /\ Len(raw) = 4
      BY <1>2, <1>5, <1>6 DEF IsRead
    <2>3. /\ Header(Frames, f)[3] = Byte("parameters", f, 1)
          /\ Header(Frames, f)[5] = Byte("number", f, 1)
      BY <1>1, <2>1, HeaderBytes
    <2>4. Next1(1).is = "number"
      <3>1. Len(raw) + 1 = 5
        BY <2>2
      <3> QED
        BY <2>1, <2>3, <3>1 DEF Byte
    <2>5. raw[3] = Byte("parameters", f, 1)
      <3>1. 3 \in 1..Len(raw)
        BY <2>2
      <3> QED
        BY <2>1, <2>3, <3>1
    <2>6. raw[3].is = "parameters" /\ raw[3].at = 1 /\ raw[3].of = f
      BY <2>5 DEF Byte
    <2>7. Hints = {Frames[f].hints}
      BY <2>6 DEF Hints
    <2> QED
      BY <2>1, <2>2, <2>4, <2>7
  <1>7. CASE raw' = Append(raw, Next1(1)) /\ NumberDone
    <2>1. PICK n \in Hints : skip' = n /\ pc' = IF n = 0 THEN "crc8" ELSE "blocksize"
      BY <1>7 DEF NumberDone
    <2>2. n \in Nat /\ n <= MaxExtraBody /\ MaxExtraBody \in Nat
      <3>1. Len(raw) >= 3
        BY <1>2, <1>5
      <3>2. \A m \in Hints : m \in Nat /\ m <= MaxExtraBody
        BY <1>1, <3>1, HintsAreBounded
      <3> QED
        BY <2>1, <3>2, DecoderAssumption
    <2>3. pc' \in FramePoints
      BY <2>1 DEF HeaderPoints, FramePoints
    <2>4. /\ RawInv' /\ SeekInv' /\ PlaceInv' /\ MetadataInv'
          /\ SyncAt' = SyncAt /\ GoesOn' = GoesOn /\ Len(raw') = Len(raw) + 1
      BY <1>1, <1>2, <1>4, <1>5, <1>7, <2>3, Growing
    <2>5. Len(raw') = 5 \/ Len(raw') = 6
      <3>1. Len(raw) = 4 => Len(raw') = 5
        BY <2>4
      <3>2. Len(raw) = 5 => Len(raw') = 6
        BY <2>4
      <3> QED
        BY <1>2, <1>5, <3>1, <3>2
    <2>6. HeaderInv'
      <3>1. PICK m \in Nat : m = Len(raw') /\ m <= 6
        <4>1. Len(raw') = 5 => Len(raw') \in Nat /\ Len(raw') <= 6
          OBVIOUS
        <4>2. Len(raw') = 6 => Len(raw') \in Nat /\ Len(raw') <= 6
          OBVIOUS
        <4> QED
          BY <2>5, <4>1, <4>2
      <3>2. m + n <= 6 + MaxExtraBody /\ m <= 6 + MaxExtraBody
        BY <2>2, <3>1
      <3>3. pc' \notin {"number", "number2"}
        BY <2>1
      <3> QED
        BY <2>1, <3>1, <3>2, <3>3 DEF HeaderInv
    <2>7. ASSUME NEW f, NEW p, Pending(f, p), Ahead(f, p)
          PROVE  Ahead(f, p)'
      <3>1. CASE p >= GoesOn
        BY <2>4, <3>1 DEF Ahead
      <3>2. CASE IsRead(f, p)
        <4>0. /\ Len(raw) = 4 /\ Hints = {Frames[f].hints} /\ Frames[f].hints \in Nat
          BY <1>6, <2>7, <3>2
        <4>1. n = Frames[f].hints /\ Len(raw') = 5 /\ Frames[f].hints \in Nat
          <5>1. Len(raw) = 4 => Len(raw') = 5
            BY <2>4
          <5> QED
            BY <2>1, <4>0, <5>1
        <4>2. SyncAt' = p
          BY <2>4, <3>2 DEF IsRead
        <4>3. Frames' = Frames
          BY <1>2, FileStays DEF fileVars
        <4>4. /\ pc' = "blocksize" => Len(raw') + skip' = 5 + Frames[f].hints
              /\ pc' = "crc8" => Len(raw') = 5 + Frames[f].hints
              /\ pc' \in {"blocksize", "crc8"}
          BY <2>1, <4>1
        <4>5. IsRead(f, p)'
          BY <2>3, <4>2, <4>3, <4>4 DEF IsRead
        <4> QED
          BY <4>5 DEF Ahead
      <3>3. CASE IsWhole(f)
        BY <1>2, <3>3 DEF IsWhole
      <3> QED
        BY <2>7, <3>1, <3>2, <3>3 DEF Ahead
    <2>8. KeptInv'
      BY <1>1, <1>2, <2>7, KeptStep DEF fileVars
    <2> QED
      BY <2>4, <2>6, <2>8 DEF PathInv
  <1>8. CASE /\ pc = "number" /\ Next1(1).is # "number"
             /\ raw' = Append(raw, Next1(1)) /\ pc' = "number2"
    <2>1. pc' \in FramePoints
      BY <1>8 DEF HeaderPoints, FramePoints
    <2>2. /\ RawInv' /\ SeekInv' /\ PlaceInv' /\ MetadataInv'
          /\ SyncAt' = SyncAt /\ GoesOn' = GoesOn /\ Len(raw') = Len(raw) + 1
      BY <1>1, <1>2, <1>4, <1>5, <1>8, <2>1, Growing
    <2>3. HeaderInv'
      <3>1. Len(raw) = 4 => Len(raw') = 5
        BY <2>2
      <3> QED
        BY <1>5, <1>8, <3>1 DEF HeaderInv
    <2>4. ASSUME NEW f, NEW p, Pending(f, p), Ahead(f, p)
          PROVE  Ahead(f, p)'
      <3>1. p >= GoesOn
        BY <1>6, <1>8, <2>4 DEF Ahead, IsWhole
      <3> QED
        BY <2>2, <3>1 DEF Ahead
    <2>5. KeptInv'
      BY <1>1, <1>2, <2>4, KeptStep DEF fileVars
    <2> QED
      BY <2>2, <2>3, <2>5 DEF PathInv
  <1>9. CASE (pc = "number" => Next1(1).is # "number") /\ BadHeader
    <2>1. \A f, p : Pending(f, p) => ~IsRead(f, p)
      BY <1>6, <1>9
    <2> QED
      BY <1>1, <1>2, <1>4, <1>5, <1>9, <2>1, HeaderIsLeft
  <1> QED
    BY <1>2, <1>7, <1>8, <1>9

\* The bytes of the block size
LEMMA ReadBlockSizePath ==
    ASSUME Scope, ReaderInv, ReaderInv', PathInv, ReadBlockSize
    PROVE  PathInv'
  <1>1. /\ input \in Inputs /\ PlaceInv /\ KeptInv /\ HeaderInv /\ RawInv /\ SeekInv
        /\ ControlInv
    BY DEF Scope, PathInv, ReaderInv
  <1>2. /\ pc = "blocksize" /\ Ready /\ Read
        /\ UNCHANGED <<fileVars, written, last_seen_framesync>>
        /\ raw' = Append(raw, Next1(1)) /\ skip' = skip - 1
        /\ pc' = IF skip = 1 THEN "crc8" ELSE "blocksize"
    BY DEF ReadBlockSize, frameVars, syncVars
  <1>3. Reads = 1
    BY <1>2 DEF Reads
  <1>4. /\ 1 <= Available(br) - At(br) /\ SameBytes(br', br)
        /\ At(br') = At(br) + 1 /\ Lsf(br') = Lsf(br)
    BY <1>1, <1>2, <1>3, OneByte
  <1>5. /\ pc \in FramePoints /\ pc' \in FramePoints
        /\ Len(raw) \in Nat /\ skip \in Nat /\ skip > 0 /\ MaxExtraBody \in Nat
        /\ Len(raw) + skip <= 6 + MaxExtraBody
    <2>1. Len(raw) \in Nat
      BY <1>1, WhereItIs
    <2> QED
      BY <1>1, <1>2, <2>1, DecoderAssumption
      DEF HeaderPoints, FramePoints, HeaderInv, ControlInv
  <1>6. /\ RawInv' /\ SeekInv' /\ PlaceInv' /\ MetadataInv'
        /\ SyncAt' = SyncAt /\ GoesOn' = GoesOn /\ Len(raw') = Len(raw) + 1
    BY <1>1, <1>2, <1>4, <1>5, Growing
  <1>7. HeaderInv'
    <2>1. Len(raw') + skip' <= 6 + MaxExtraBody
      BY <1>2, <1>5, <1>6
    <2>2. skip = 1 => Len(raw') <= 6 + MaxExtraBody
      BY <1>5, <1>6
    <2> QED
      BY <1>2, <2>1, <2>2 DEF HeaderInv
  <1>8. ASSUME NEW f, NEW p, Pending(f, p), Ahead(f, p)
        PROVE  Ahead(f, p)'
    <2>1. CASE p >= GoesOn
      BY <1>6, <2>1 DEF Ahead
    <2>2. CASE IsRead(f, p)
      <3>1. SyncAt = p /\ Len(raw) + skip = 5 + Frames[f].hints
        BY <1>2, <2>2 DEF IsRead
      <3>2. Frames' = Frames /\ Frames[f].hints \in Nat
        BY <1>1, <1>2, <1>8, FileStays, PendingBytes DEF fileVars
      <3>3. /\ Len(raw') + skip' = 5 + Frames[f].hints
            /\ skip = 1 => Len(raw') = 5 + Frames[f].hints
        BY <1>2, <1>5, <1>6, <3>1, <3>2
      <3>4. IsRead(f, p)'
        BY <1>2, <1>5, <1>6, <3>1, <3>2, <3>3 DEF IsRead
      <3> QED
        BY <3>4 DEF Ahead
    <2>3. CASE IsWhole(f)
      BY <1>2, <2>3 DEF IsWhole
    <2> QED
      BY <1>8, <2>1, <2>2, <2>3 DEF Ahead
  <1>9. KeptInv'
    BY <1>1, <1>2, <1>8, KeptStep DEF fileVars
  <1> QED
    BY <1>6, <1>7, <1>9 DEF PathInv

\* Sequences with the same elements
LEMMA SameSequence ==
    ASSUME NEW S, NEW s \in Seq(S), NEW t \in Seq(S), Len(s) = Len(t),
           \A i \in 1..Len(s) : s[i] = t[i]
    PROVE  s = t
  OBVIOUS

\* What is read with one more byte
LEMMA OneMore ==
    ASSUME input \in Inputs, ReaderInv, 1 <= Available(br) - At(br)
    PROVE  LET s == Append(raw, Next1(1)) IN
           /\ s \in Seq(RawBytes) /\ Len(s) = Len(raw) + 1 /\ Len(raw) \in Nat
           /\ s[Len(raw) + 1] = Next1(1) /\ \A i \in 1..Len(raw) : s[i] = raw[i]
  <1>1. /\ raw \in Seq(RawBytes) /\ Len(raw) \in Nat /\ At(br) \in Nat /\ Available(br) \in Nat
    BY WhereItIs
  <1>2. Next1(1) \in RawBytes
    <2>1. At(br) < Available(br)
      BY <1>1
    <2>2. BufferInv /\ TellInv
      BY DEF ReaderInv
    <2> QED
      BY <2>1, <2>2, NextByte, FileIsBytes
  <1> QED
    BY <1>1, <1>2

\* The CRC-8 of the frame that is read is right,
LEMMA HeaderIsItsOwn ==
    ASSUME input \in Inputs, ReaderInv, HeaderInv, RawInv, PlaceInv, pc = "crc8",
           1 <= Available(br) - At(br), NEW f, NEW p, Pending(f, p), IsRead(f, p)
    PROVE  Append(raw, Next1(1)) = Header(Frames, f)
  <1> DEFINE s == Append(raw, Next1(1))
             x == Header(Frames, f)
             S == RawBytes \cup FrameByte
  <1>1. pc \in HeaderPoints
    BY DEF HeaderPoints
  <1>2. /\ f \in 1..Len(Frames) /\ Frames[f].hints \in Nat
        /\ \A i \in 1..Len(raw) : raw[i] = x[i]
        /\ Next1(1) = x[Len(raw) + 1]
    BY <1>1, HeaderOfRead
  <1>3. /\ s \in Seq(RawBytes) /\ Len(s) = Len(raw) + 1 /\ Len(raw) \in Nat
        /\ s[Len(raw) + 1] = Next1(1) /\ \A i \in 1..Len(raw) : s[i] = raw[i]
    BY OneMore
  <1>4. x \in Seq(FrameByte) /\ Len(x) = 6 + Frames[f].hints
    BY <1>2, HeaderBytes
  <1>5. Len(raw) = 5 + Frames[f].hints
    BY DEF IsRead
  <1> HIDE DEF s, x
  <1>6. Len(s) = Len(x)
    <2>1. PICK h \in Nat : h = Frames[f].hints
      BY <1>2
    <2>2. Len(s) = 5 + h + 1 /\ Len(x) = 6 + h
      BY <1>3, <1>4, <1>5, <2>1
    <2> QED
      BY <2>1, <2>2
  <1>7. \A i \in 1..Len(s) : s[i] = x[i]
    <2>1. \A i \in 1..Len(s) : i \in 1..Len(raw) \/ i = Len(raw) + 1
      BY <1>3
    <2> QED
      BY <1>2, <1>3, <2>1
  <1>8. s \in Seq(S) /\ x \in Seq(S)
    BY <1>3, <1>4
  <1> HIDE DEF S
  <1>9. s = x
    BY <1>6, <1>7, <1>8, SameSequence
  <1> QED
    BY <1>9 DEF s, x

\* and of no other frame.
LEMMA HeadersDiffer ==
    ASSUME input \in Inputs, NEW f \in 1..Len(Frames), NEW g \in 1..Len(Frames),
           Header(Frames, g) = Header(Frames, f)
    PROVE  g = f
  <1>1. /\ Header(Frames, f)[3] = Byte("parameters", f, 1)
        /\ Header(Frames, g)[3] = Byte("parameters", g, 1)
    BY HeaderBytes
  <1>2. Byte("parameters", f, 1).of = f /\ Byte("parameters", g, 1).of = g
    BY DEF Byte
  <1> QED
    BY <1>1, <1>2

\* The CRC-8: the header of a frame that is to be found is good.
LEMMA ReadCrc8Path ==
    ASSUME Scope, PlacesInv, ReaderInv, ReaderInv', PathInv, ReadCrc8
    PROVE  PathInv'
  <1>1. /\ input \in Inputs /\ PlaceInv /\ KeptInv /\ HeaderInv /\ RawInv /\ SeekInv
        /\ ControlInv
    BY DEF Scope, PathInv, ReaderInv
  <1>2. /\ pc = "crc8" /\ Ready /\ Read
        /\ UNCHANGED <<fileVars, written, last_seen_framesync>>
        /\ \/ HeadersEndingIn(Append(raw, Next1(1))) = {} /\ BadHeader
           \/ \E g \in HeadersEndingIn(Append(raw, Next1(1))) :
                 /\ frame' = Located(g)
                 /\ IF Frames[g].future THEN BadHeader
                    ELSE raw' = Append(raw, Next1(1)) /\ pc' = "body"
    BY DEF ReadCrc8, syncVars
  <1>3. Reads = 1
    BY <1>2 DEF Reads
  <1>4. /\ 1 <= Available(br) - At(br) /\ SameBytes(br', br)
        /\ At(br') = At(br) + 1 /\ Lsf(br') = Lsf(br)
    BY <1>1, <1>2, <1>3, OneByte
  <1>5. pc \in HeaderPoints /\ pc \in FramePoints
    BY <1>2 DEF HeaderPoints, FramePoints
  <1>6. ASSUME NEW f, NEW p, Pending(f, p), IsRead(f, p)
        PROVE  HeadersEndingIn(Append(raw, Next1(1))) = {f}
    <2>1. Append(raw, Next1(1)) = Header(Frames, f)
      BY <1>1, <1>2, <1>4, <1>6, HeaderIsItsOwn
    <2>2. f \in 1..Len(Frames)
      BY <1>6 DEF Pending
    <2>3. \A g \in 1..Len(Frames) : Header(Frames, f) = Header(Frames, g) => g = f
      BY <1>1, <2>2, HeadersDiffer
    <2> QED
      BY <2>1, <2>2, <2>3 DEF HeadersEndingIn
  <1>7. CASE HeadersEndingIn(Append(raw, Next1(1))) = {} /\ BadHeader
    <2>1. \A f, p : Pending(f, p) => ~IsRead(f, p)
      BY <1>6, <1>7
    <2> QED
      BY <1>1, <1>2, <1>4, <1>5, <1>7, <2>1, HeaderIsLeft
  <1>8. ASSUME NEW g \in HeadersEndingIn(Append(raw, Next1(1))), Frames[g].future, BadHeader
        PROVE  PathInv'
    <2>1. ASSUME NEW f, NEW p, Pending(f, p), IsRead(f, p)
          PROVE  FALSE
      <3>1. f = g
        BY <1>6, <1>8, <2>1
      <3> QED
        BY <1>8, <2>1, <3>1 DEF Pending
    <2>2. \A f, p : Pending(f, p) => ~IsRead(f, p)
      BY <2>1
    <2> QED
      BY <1>1, <1>2, <1>4, <1>5, <1>8, <2>2, HeaderIsLeft
  <1>9. ASSUME NEW g \in HeadersEndingIn(Append(raw, Next1(1))),
               frame' = Located(g), raw' = Append(raw, Next1(1)), pc' = "body"
        PROVE  PathInv'
    <2>1. pc' \in FramePoints
      BY <1>9 DEF FramePoints
    <2>2. /\ RawInv' /\ SeekInv' /\ PlaceInv' /\ MetadataInv'
          /\ SyncAt' = SyncAt /\ GoesOn' = GoesOn /\ Len(raw') = Len(raw) + 1
      BY <1>1, <1>2, <1>4, <1>5, <1>9, <2>1, Growing
    <2>3. HeaderInv'
      BY <1>9 DEF HeaderInv
    <2>4. frame'.of = g
      <3>1. g \in 1..Len(Frames)
        BY DEF HeadersEndingIn
      <3> QED
        BY <1>9, <3>1, LocatedIsPlaced
    <2>5. ASSUME NEW f, NEW p, Pending(f, p), Ahead(f, p)
          PROVE  Ahead(f, p)'
      <3>1. CASE p >= GoesOn
        BY <2>2, <3>1 DEF Ahead
      <3>2. CASE IsRead(f, p)
        <4>1. SyncAt = p /\ Len(raw) = 5 + Frames[f].hints
          BY <1>2, <3>2 DEF IsRead
        <4>2. /\ Frames[f].hints \in Nat /\ Length(f) \in Nat
              /\ 9 + Frames[f].hints <= Length(f)
          BY <1>1, <2>5, PendingBytes
        <4>3. Frames' = Frames /\ Length(f)' = Length(f)
          BY <1>2, PendingStays DEF fileVars
        <4>4. f = g
          BY <1>6, <2>5, <3>2
        <4>5. 6 + Frames[f].hints <= Len(raw') /\ Len(raw') < Length(f) - 2
          <5>1. PICK h \in Nat, n \in Nat : h = Frames[f].hints /\ n = Length(f)
            BY <4>2
          <5>2. Len(raw') = 6 + h
            BY <2>2, <4>1, <5>1
          <5> QED
            BY <4>2, <5>1, <5>2
        <4>6. IsRead(f, p)'
          BY <1>9, <2>1, <2>2, <2>4, <4>1, <4>3, <4>4, <4>5 DEF IsRead
        <4> QED
          BY <4>6 DEF Ahead
      <3>3. CASE IsWhole(f)
        BY <1>2, <3>3 DEF IsWhole
      <3> QED
        BY <2>5, <3>1, <3>2, <3>3 DEF Ahead
    <2>6. KeptInv'
      BY <1>1, <1>2, <2>5, KeptStep DEF fileVars
    <2> QED
      BY <2>2, <2>3, <2>6 DEF PathInv
  <1> QED
    BY <1>2, <1>7, <1>8, <1>9

-------------------------------------------------------------------------------
(* The frame behind its header *)

\* What is read of a whole frame in its body is what it has there, and no more.
LEMMA BodyOfRead ==
    ASSUME input \in Inputs, ReaderInv, RawInv, PlaceInv, pc = "body",
           1 <= Available(br) - At(br), NEW f, NEW p, Pending(f, p), IsRead(f, p)
    PROVE  /\ IsPrefix(Append(raw, Next1(1)), UpToCrc(Frames, f))
           /\ Len(UpToCrc(Frames, f)) = Length(f) - 2 /\ Length(f) \in Nat
           /\ Len(Append(raw, Next1(1))) = Len(raw) + 1 /\ Len(raw) \in Nat
  <1> DEFINE s == Append(raw, Next1(1))
             y == UpToCrc(Frames, f)
             S == RawBytes \cup FrameByte
  <1>1. f \in 1..Len(Frames) /\ Length(f) \in Nat
    BY PendingBytes
  <1>2. /\ y \in Seq(FrameByte) /\ Len(y) = Length(f) - 2
        /\ \A i \in 1..(Length(f) - 2) : Whole(Frames, f)[i] = y[i]
    BY <1>1, WholeBytes
  <1>3. /\ s \in Seq(RawBytes) /\ Len(s) = Len(raw) + 1 /\ Len(raw) \in Nat
        /\ s[Len(raw) + 1] = Next1(1) /\ \A i \in 1..Len(raw) : s[i] = raw[i]
    BY OneMore
  <1>4. Len(raw) < Length(f) - 2
    BY DEF IsRead
  <1>5. /\ \A i \in 1..Len(raw) : raw[i] = Whole(Frames, f)[i]
        /\ Next1(1) = Whole(Frames, f)[Len(raw) + 1]
    <2>1. Len(raw) <= Length(f) /\ Len(raw) + 1 <= Length(f)
      BY <1>1, <1>3, <1>4
    <2>2. 1 \in Nat /\ 1 \in 1..1
      OBVIOUS
    <2> QED
      BY <2>1, <2>2, BytesOfRead
  <1> HIDE DEF s, y
  <1>6. Len(s) <= Len(y)
    BY <1>1, <1>2, <1>3, <1>4
  <1>7. \A i \in 1..Len(s) : s[i] = y[i]
    <2>1. \A i \in 1..Len(s) : /\ i \in 1..(Length(f) - 2)
                               /\ i \in 1..Len(raw) \/ i = Len(raw) + 1
      BY <1>1, <1>3, <1>4
    <2> QED
      BY <1>2, <1>3, <1>5, <2>1
  <1>8. s \in Seq(S) /\ y \in Seq(S)
    BY <1>2, <1>3
  <1> HIDE DEF S
  <1>9. IsPrefix(s, y)
    BY <1>6, <1>7, <1>8, PrefixBytes
  <1> QED
    BY <1>1, <1>2, <1>3, <1>9 DEF s, y

\* The place behind the sync, in the file and in the buffer
LEMMA BehindTheSync ==
    ASSUME NEW a \in Nat, NEW n \in Nat, NEW s \in Int, NEW l, NEW q,
           l = a - n + 2, q = s + a - n + 1
    PROVE  s + l + 2 = q + 3
  OBVIOUS

\* The search will go on behind the sync of a frame that is given up.
LEMMA GivenUp ==
    ASSUME input \in Inputs, ReaderInv, ReaderInv', PlaceInv, SeekInv, KeptInv,
           UNCHANGED <<fileVars, written, last_seen_framesync>>, SameBytes(br', br),
           NEW k \in Nat, At(br') = At(br) + k, Lsf(br') = Lsf(br),
           pc \in {"body", "crc16"}, pc' = "bad",
           \A f, p : Pending(f, p) => ~IsRead(f, p)
    PROVE  PathInv'
  <1>1. /\ PlaceInv' /\ FileStart' = FileStart /\ FileEnd' = FileEnd
        /\ SyncSeen' <=> SyncSeen
    BY Onward DEF fileVars
  <1>2. /\ last_seen_framesync \in 1..FileEnd /\ last_seen_framesync <= SyncAt + 1
        /\ SyncSeen => Lsf(br) = At(br) - Len(raw) + 2
    BY DEF SeekInv, FramePoints
  <1>3. /\ Position = FileStart + At(br) /\ FileStart \in Int /\ At(br) \in Nat
        /\ Len(raw) \in Nat /\ Position \in Int /\ FileEnd \in Nat
    BY WhereItIs
  <1>4. SyncAt = Position - Len(raw) + 1 /\ SyncAt \in Int
    BY <1>3 DEF SyncAt
  <1>5. GoesOn = SyncAt + 3
    BY WhereItGoesOn DEF FramePoints
  <1>6. GoesOn' <= SyncAt + 3 /\ GoesOn' \in Int
    <2>1. GoesOn' = IF SyncSeen' THEN FileStart' + Lsf(br') + 2
                    ELSE last_seen_framesync' + 1
      BY WhereItWillGoOn
    <2>2. CASE SyncSeen
      <3>1. GoesOn' = FileStart + Lsf(br) + 2
        BY <1>1, <2>1, <2>2
      <3>2. FileStart + Lsf(br) + 2 = SyncAt + 3
        <4>1. Lsf(br) = At(br) - Len(raw) + 2
          BY <1>2, <2>2
        <4>2. SyncAt = FileStart + At(br) - Len(raw) + 1
          BY <1>3, <1>4
        <4> DEFINE n == Len(raw)
                   a == At(br)
        <4>3. /\ a \in Nat /\ n \in Nat /\ FileStart \in Int
              /\ Lsf(br) = a - n + 2 /\ SyncAt = FileStart + a - n + 1
          BY <1>3, <4>1, <4>2
        <4> HIDE DEF a, n
        <4> QED
          BY <4>3, BehindTheSync
      <3> QED
        BY <1>4, <3>1, <3>2
    <2>3. CASE ~SyncSeen
      BY <1>1, <1>2, <1>3, <1>4, <2>1, <2>3
    <2> QED
      BY <2>2, <2>3
  <1>7. ASSUME NEW f, NEW p, Pending(f, p), Ahead(f, p)
        PROVE  Ahead(f, p)'
    <2>1. p >= SyncAt + 3
      BY <1>5, <1>7 DEF Ahead, IsWhole
    <2>2. p \in Nat
      BY <1>7, PendingBytes
    <2>3. p >= GoesOn'
      BY <1>4, <1>6, <2>1, <2>2
    <2> QED
      BY <2>3 DEF Ahead
  <1>8. KeptInv'
    BY <1>7, KeptStep DEF fileVars
  <1>9. SeekInv'
    BY <1>1, <1>2 DEF SeekInv, FramePoints, HeaderPoints
  <1>10. HeaderInv' /\ RawInv' /\ MetadataInv'
    BY DEF HeaderInv, RawInv, MetadataInv, FramePoints, HeaderPoints
  <1> QED
    BY <1>1, <1>8, <1>9, <1>10 DEF PathInv

\* The bytes of a body are taken.
LEMMA BodyMoves ==
    ASSUME input \in Inputs, ReaderInv, ReadBody
    PROVE  /\ 1 <= Available(br) - At(br) /\ SameBytes(br', br)
           /\ At(br') = At(br) + 1 /\ Lsf(br') = Lsf(br)
  <1> DEFINE b == Reader!Consume(br, BitsPerByte)
  <1>1. /\ pc = "body" /\ Ready /\ (br' = b \/ br' = Reader!GetReadCrc16(b))
    BY DEF ReadBody
  <1>2. Reads = 1
    BY <1>1 DEF Reads
  <1>3. /\ 1 <= Available(br) - At(br)
        /\ Good(b, Bytes) /\ SameBytes(b, br) /\ At(b) = At(br) + 1 /\ Lsf(b) = Lsf(br)
    BY <1>1, <1>2, ReadingOne
  <1> HIDE DEF b
  <1>4. CASE br' = b
    BY <1>3, <1>4
  <1>5. CASE br' = Reader!GetReadCrc16(b)
    <2>1. SameBytes(br', b) /\ At(br') = At(b) /\ Lsf(br') = Lsf(b)
      BY <1>3, <1>5, TakeCrc
    <2> QED
      BY <1>3, <2>1 DEF SameBytes
  <1> QED
    BY <1>1, <1>4, <1>5

\* A body is whole as long as it is what the frame has there.
LEMMA BodySettled ==
    ASSUME ReadBody, IsPrefix(Append(raw, Next1(1)), UpToCrc(Frames, frame.of))
    PROVE  \/ /\ pc' = "body"
              /\ Len(Append(raw, Next1(1))) < Len(UpToCrc(Frames, frame.of)) + 0
           \/ /\ pc' = "crc16"
              /\ Len(Append(raw, Next1(1))) = Len(UpToCrc(Frames, frame.of))
  BY DEF ReadBody

\* The body of a frame that is to be found is as long as it should be.
LEMMA ReadBodyPath ==
    ASSUME Scope, ReaderInv, ReaderInv', CrcInv, PathInv, ReadBody
    PROVE  PathInv'
  <1>1. /\ input \in Inputs /\ PlaceInv /\ KeptInv /\ HeaderInv /\ RawInv /\ SeekInv
    BY DEF Scope, PathInv
  <1>2. /\ pc = "body"
        /\ UNCHANGED <<fileVars, written, last_seen_framesync, frame>>
        /\ pc' \in {"body", "crc16", "bad", "returned"}
        /\ pc' = "returned" => UNCHANGED state
    BY DEF ReadBody, BadFrame, syncVars, frameVars
  <1>3. /\ 1 <= Available(br) - At(br) /\ SameBytes(br', br)
        /\ At(br') = At(br) + 1 /\ Lsf(br') = Lsf(br)
    BY <1>1, BodyMoves
  <1>4. pc \in FramePoints /\ InFrame
    BY <1>2 DEF FramePoints, CrcInv, RunningPoints
  \* The frame that is read goes on.
  <1>5. ASSUME NEW f, NEW p, Pending(f, p), IsRead(f, p)
        PROVE  /\ frame.of = f /\ Len(raw) \in Nat /\ Length(f) \in Nat
               /\ \/ pc' = "body" /\ Len(raw) + 1 < Length(f) - 2
                  \/ pc' = "crc16" /\ Len(raw) + 1 = Length(f) - 2
    <2>1. frame.of = f
      BY <1>2, <1>5 DEF IsRead
    <2>2. /\ IsPrefix(Append(raw, Next1(1)), UpToCrc(Frames, f))
          /\ Len(UpToCrc(Frames, f)) = Length(f) - 2 /\ Length(f) \in Nat
          /\ Len(Append(raw, Next1(1))) = Len(raw) + 1 /\ Len(raw) \in Nat
      BY <1>1, <1>2, <1>3, <1>5, BodyOfRead
    <2>3. \/ /\ pc' = "body"
             /\ Len(Append(raw, Next1(1))) < Len(UpToCrc(Frames, f)) + 0
          \/ /\ pc' = "crc16"
             /\ Len(Append(raw, Next1(1))) = Len(UpToCrc(Frames, f))
      BY <2>1, <2>2, BodySettled
    <2>4. Length(f) - 2 + 0 = Length(f) - 2
      BY <2>2
    <2> QED
      BY <2>1, <2>2, <2>3, <2>4
  <1>6. CASE pc' \in {"body", "crc16"}
    <2>1. pc' \in FramePoints
      BY <1>6 DEF FramePoints
    <2>2. raw' = Append(raw, Next1(1))
      BY <1>1, <1>6, CrcOfBody
    <2>3. /\ RawInv' /\ SeekInv' /\ PlaceInv' /\ MetadataInv'
          /\ SyncAt' = SyncAt /\ GoesOn' = GoesOn /\ Len(raw') = Len(raw) + 1
      BY <1>1, <1>2, <1>3, <1>4, <2>1, <2>2, Growing
    <2>4. HeaderInv'
      BY <1>6 DEF HeaderInv
    <2>5. ASSUME NEW f, NEW p, Pending(f, p), Ahead(f, p)
          PROVE  Ahead(f, p)'
      <3>1. CASE p >= GoesOn
        BY <2>3, <3>1 DEF Ahead
      <3>2. CASE IsRead(f, p)
        <4>1. SyncAt = p /\ 6 + Frames[f].hints <= Len(raw)
          BY <1>2, <3>2 DEF IsRead
        <4>2. /\ Frames[f].hints \in Nat
          BY <1>1, <2>5, PendingBytes
        <4>3. Frames' = Frames /\ Length(f)' = Length(f)
          BY <1>2, PendingStays DEF fileVars
        <4>4. /\ frame.of = f /\ Len(raw) \in Nat
              /\ \/ pc' = "body" /\ Len(raw) + 1 < Length(f) - 2
                 \/ pc' = "crc16" /\ Len(raw) + 1 = Length(f) - 2
          BY <1>5, <2>5, <3>2
        <4>5. 6 + Frames[f].hints <= Len(raw')
          BY <2>3, <4>1, <4>2, <4>4
        <4>6. IsRead(f, p)'
          BY <1>2, <2>1, <2>3, <4>1, <4>3, <4>4, <4>5 DEF IsRead
        <4> QED
          BY <4>6 DEF Ahead
      <3>3. CASE IsWhole(f)
        BY <1>2, <3>3 DEF IsWhole
      <3> QED
        BY <2>5, <3>1, <3>2, <3>3 DEF Ahead
    <2>6. KeptInv'
      BY <1>1, <1>2, <2>5, KeptStep DEF fileVars
    <2> QED
      BY <2>3, <2>4, <2>6 DEF PathInv
  <1>7. CASE pc' = "bad"
    <2>1. \A f, p : Pending(f, p) => ~IsRead(f, p)
      BY <1>5, <1>7
    <2>2. 1 \in Nat /\ pc \in {"body", "crc16"}
      BY <1>2
    <2> QED
      BY <1>1, <1>2, <1>3, <1>7, <2>1, <2>2, GivenUp
  <1>8. CASE pc' = "returned"
    <2>1. GoesOn' = 0
      BY <1>2, <1>4, <1>8, WhereItWillGoOn DEF InFrame
    <2>2. ASSUME NEW f, NEW p, Pending(f, p)
          PROVE  Ahead(f, p)'
      <3>1. p \in Nat
        BY <1>1, <2>2, PendingBytes
      <3>2. p >= GoesOn'
        BY <2>1, <3>1
      <3> QED
        BY <3>2 DEF Ahead
    <2>3. KeptInv'
      BY <1>1, <1>2, <2>2, KeptStep DEF fileVars
    <2>4. PlaceInv'
      <3>1. 1 \in Nat
        OBVIOUS
      <3> QED
        BY <1>1, <1>2, <1>3, <3>1, Onward
    <2> QED
      BY <1>8, <2>3, <2>4
      DEF PathInv, HeaderInv, RawInv, MetadataInv, SeekInv, FramePoints, HeaderPoints
  <1> QED
    BY <1>2, <1>6, <1>7, <1>8

-------------------------------------------------------------------------------
(* The CRC-16 *)

\* The checksum of the frame that is read is right.
LEMMA ChecksumOfRead ==
    ASSUME input \in Inputs, ReaderInv, RawInv, PlaceInv, pc = "crc16",
           NEW k \in Nat, k = 2, k <= Available(br) - At(br),
           NEW f, NEW p, Pending(f, p), IsRead(f, p)
    PROVE  /\ frame.of = f /\ raw = UpToCrc(Frames, f)
           /\ <<Next1(1), Next1(2)>> = Crc16(f)
  <1> DEFINE y == UpToCrc(Frames, f)
             S == RawBytes \cup FrameByte
             z == Whole(Frames, f)
             n == Length(f)
  <1>1. f \in 1..Len(Frames) /\ n \in Nat
    BY PendingBytes
  <1>2. /\ y \in Seq(FrameByte) /\ Len(y) = n - 2
        /\ \A i \in 1..(n - 2) : z[i] = y[i]
        /\ <<z[n - 1], z[n]>> = Crc16(f)
    BY <1>1, WholeBytes
  <1>3. frame.of = f /\ Len(raw) = n - 2
    BY DEF IsRead
  <1>4. raw \in Seq(RawBytes) /\ Len(raw) \in Nat
    BY WhereItIs
  <1> HIDE DEF y, z
  <1>5. /\ \A i \in 1..Len(raw) : raw[i] = z[i]
        /\ \A i \in 1..k : Next1(i) = z[Len(raw) + i]
    <2>1. Len(raw) <= Length(f) /\ Len(raw) + k <= Length(f)
      BY <1>1, <1>3, <1>4
    <2> QED
      BY <2>1, BytesOfRead DEF z
  <1> HIDE DEF n
  <1>6. raw = y
    <2>1. raw \in Seq(S) /\ y \in Seq(S)
      BY <1>2, <1>4
    <2> HIDE DEF S
    <2>2. Len(raw) = Len(y) /\ \A i \in 1..Len(raw) : raw[i] = y[i]
      BY <1>2, <1>3, <1>5
    <2> QED
      BY <2>1, <2>2, SameSequence
  <1>7. Next1(1) = z[n - 1] /\ Next1(2) = z[n]
    <2>1. 1 \in 1..k /\ 2 \in 1..k
      OBVIOUS
    <2>2. Len(raw) + 1 = n - 1 /\ Len(raw) + 2 = n
      BY <1>1, <1>3, <1>4
    <2> QED
      BY <1>5, <2>1, <2>2
  <1> QED
    BY <1>2, <1>3, <1>6, <1>7 DEF y

\* What the file has where a good frame was read
LEMMA GoodFrameBytes ==
    ASSUME input \in Inputs, ReaderInv, RawInv, PlaceInv, pc = "crc16",
           NEW k \in Nat, k = 2, k <= Available(br) - At(br),
           NEW g \in 1..Len(Frames), raw = UpToCrc(Frames, g),
           <<Next1(1), Next1(2)>> = Crc16(g)
    PROVE  /\ SyncAt \in Int /\ Position + 2 = SyncAt + Length(g) - 1 /\ Length(g) \in Nat
           /\ \A j \in 1..Length(g) : SyncAt + j - 1 <= FileEnd =>
                 FileByte(SyncAt + j - 1) = Whole(Frames, g)[j]
  <1> DEFINE n == Length(g)
             z == Whole(Frames, g)
  <1>1. /\ Len(raw) = n - 2 /\ n \in Nat /\ 9 <= n
        /\ \A i \in 1..(n - 2) : z[i] = raw[i]
        /\ z[n - 1] = Next1(1) /\ z[n] = Next1(2)
    <2>1. /\ Len(raw) = n - 2 /\ n \in Nat /\ 9 + Frames[g].hints <= n /\ Frames[g].hints \in Nat
          /\ \A i \in 1..(n - 2) : z[i] = raw[i]
          /\ <<z[n - 1], z[n]>> = <<Next1(1), Next1(2)>>
      BY WholeBytes
    <2> HIDE DEF n, z
    <2> QED
      BY <2>1
  <1> HIDE DEF n, z
  <1>2. Len(raw) \in Nat /\ Position \in Int /\ FileEnd \in Nat
    BY WhereItIs
  <1>3. SyncAt = Position - Len(raw) + 1
    BY DEF SyncAt
  <1>4. SyncAt \in Int /\ Position = SyncAt + n - 3
    BY <1>1, <1>2, <1>3
  <1>5. ASSUME NEW j \in 1..n, SyncAt + j - 1 <= FileEnd
        PROVE  FileByte(SyncAt + j - 1) = z[j]
    <2>1. CASE j \in 1..(n - 2)
      <3>1. j \in 1..Len(raw)
        BY <1>1, <2>1
      <3>2. raw[j] = FileByte(SyncAt + j - 1)
        BY <1>5, <3>1 DEF RawInv, FramePoints
      <3> QED
        BY <1>1, <2>1, <3>2
    <2>2. CASE j = n - 1
      <3>1. SyncAt + j - 1 = Position + 1
        BY <1>1, <1>4, <2>2
      <3>2. 1 \in Nat /\ 1 \in 1..1 /\ 1 <= Available(br) - At(br) /\ Position + 1 <= FileEnd
        <4>1. Available(br) \in Nat /\ At(br) \in Nat
          BY WhereItIs
        <4> QED
          BY <1>5, <3>1, <4>1
      <3>3. Next1(1) = FileByte(Position + 1)
        BY <3>2, StillInFile
      <3> QED
        BY <1>1, <2>2, <3>1, <3>3
    <2>3. CASE j = n
      <3>1. SyncAt + j - 1 = Position + 2
        BY <1>1, <1>4, <2>3
      <3>2. k \in Nat /\ 2 \in 1..k /\ Position + k <= FileEnd
        BY <1>5, <3>1
      <3>3. Next1(2) = FileByte(Position + 2)
        BY <3>2, StillInFile
      <3> QED
        BY <1>1, <2>3, <3>1, <3>3
    <2> QED
      BY <1>1, <2>1, <2>2, <2>3
  <1>6. Position + 2 = SyncAt + n - 1
    BY <1>1, <1>2, <1>4
  <1> QED
    BY <1>1, <1>4, <1>5, <1>6 DEF n, z

\* There is no frame in a good frame.
LEMMA NoFrameInside ==
    ASSUME input \in Inputs, ReaderInv, RawInv, PlaceInv, pc = "crc16",
           NEW k \in Nat, k = 2, k <= Available(br) - At(br),
           NEW g \in 1..Len(Frames), raw = UpToCrc(Frames, g),
           <<Next1(1), Next1(2)>> = Crc16(g),
           NEW f, NEW p, Pending(f, p), p >= SyncAt + 3
    PROVE  p > Position + 2
  <1> DEFINE n == Length(g)
             z == Whole(Frames, g)
             i == p - SyncAt + 1
  <1>1. /\ SyncAt \in Int /\ Position + 2 = SyncAt + n - 1 /\ n \in Nat
        /\ \A j \in 1..n : SyncAt + j - 1 <= FileEnd => FileByte(SyncAt + j - 1) = z[j]
    BY GoodFrameBytes
  <1>2. p \in Nat /\ FileEnd \in Nat /\ p + 2 <= FileEnd
    BY PendingEnds
  <1>3. FileByte(p).is = "ff" /\ FileByte(p + 2).is = "parameters"
    <2>1. FileByte(p) = FF /\ FileByte(p + 2) = Byte("parameters", f, 1)
      BY PendingStart
    <2> QED
      BY <2>1 DEF FF, Byte
  <1>4. \A j \in 5..n : /\ z[j].is # "parameters"
                        /\ j >= n - 1 => z[j].is = "crc16"
    BY OneHeader
  <1> HIDE DEF n, z, i
  <1>5. i \in Int /\ i >= 4 /\ SyncAt + i - 1 = p /\ SyncAt + (i + 2) - 1 = p + 2
    BY <1>1, <1>2 DEF i
  <1>6. ASSUME p <= Position + 2
        PROVE  FALSE
    <2>1. i <= n
      BY <1>1, <1>2, <1>5, <1>6
    <2>2. CASE i + 2 <= n
      <3>1. i + 2 \in 1..n /\ i + 2 \in 5..n
        BY <1>1, <1>5, <2>2
      <3>2. FileByte(p + 2) = z[i + 2]
        BY <1>1, <1>2, <1>5, <3>1
      <3> QED
        BY <1>3, <1>4, <3>1, <3>2
    <2>3. CASE ~(i + 2 <= n)
      <3>1. i \in 1..n /\ i \in 5..n /\ i >= n - 1
        <4>1. 9 <= n
          <5>1. 9 + Frames[g].hints <= n /\ Frames[g].hints \in Nat
            BY WholeBytes DEF n
          <5> QED
            BY <1>1, <5>1
        <4> QED
          BY <1>1, <1>5, <2>1, <2>3, <4>1
      <3>2. FileByte(p) = z[i]
        <4>1. SyncAt + i - 1 <= FileEnd
          BY <1>2, <1>5
        <4> QED
          BY <1>1, <1>5, <3>1, <4>1
      <3> QED
        BY <1>3, <1>4, <3>1, <3>2
    <2> QED
      BY <2>2, <2>3
  <1>7. Position \in Int
    BY WhereItIs
  <1> QED
    BY <1>2, <1>6, <1>7

\* The CRC-16: a frame that is to be found is good, and none is in a good one.
LEMMA ReadCrc16Path ==
    ASSUME Scope, PlacesInv, ReaderInv, ReaderInv', PathInv, ReadCrc16
    PROVE  PathInv'
  <1>1. /\ input \in Inputs /\ PlaceInv /\ KeptInv /\ HeaderInv /\ RawInv /\ SeekInv
    BY DEF Scope, PathInv
  <1>2. /\ pc = "crc16" /\ Ready /\ Read
        /\ UNCHANGED <<fileVars, written, last_seen_framesync, frame>>
        /\ \/ /\ raw = UpToCrc(Frames, frame.of)
              /\ <<Next1(1), Next1(2)>> = Crc16(frame.of) /\ pc' = "gap"
           \/ /\ \/ raw # UpToCrc(Frames, frame.of)
                 \/ <<Next1(1), Next1(2)>> # Crc16(frame.of)
              /\ pc' = "bad"
    BY DEF ReadCrc16, BadFrame, syncVars
  <1>3. PICK k \in Nat : k = 2 /\ Reads = k
    BY <1>2 DEF Reads
  <1>4. /\ k <= Available(br) - At(br) /\ SameBytes(br', br)
        /\ At(br') = At(br) + k /\ Lsf(br') = Lsf(br)
    BY <1>1, <1>2, <1>3, Reading
  <1>5. CASE /\ raw = UpToCrc(Frames, frame.of)
             /\ <<Next1(1), Next1(2)>> = Crc16(frame.of) /\ pc' = "gap"
    <2>1. Position' = Position + k /\ Position \in Int /\ PlaceInv'
      BY <1>1, <1>2, <1>4, Onward
    <2>2. GoesOn = SyncAt + 3 /\ GoesOn' = Position' + 1
      BY <1>2, <1>5, WhereItGoesOn, WhereItWillGoOn DEF FramePoints
    <2>3. frame.of \in 1..Len(Frames)
      BY <1>2 DEF PlacesInv, Placed
    <2>4. ASSUME NEW f, NEW p, Pending(f, p), Ahead(f, p)
          PROVE  Ahead(f, p)'
      <3>1. CASE p >= GoesOn
        <4>1. p > Position + 2 /\ p \in Nat
          BY <1>1, <1>2, <1>3, <1>4, <1>5, <2>2, <2>3, <2>4, <3>1, NoFrameInside, PendingBytes
        <4>2. p >= Position' + 1
          BY <1>3, <2>1, <4>1
        <4> QED
          BY <2>2, <4>2 DEF Ahead
      <3>2. CASE IsRead(f, p)
        <4>1. frame.of = f
          BY <1>2, <3>2 DEF IsRead
        <4> QED
          BY <1>2, <1>5, <4>1 DEF Ahead, IsWhole
      <3>3. CASE IsWhole(f)
        BY <1>2, <3>3 DEF IsWhole
      <3> QED
        BY <2>4, <3>1, <3>2, <3>3 DEF Ahead
    <2>5. KeptInv'
      BY <1>1, <1>2, <2>4, KeptStep DEF fileVars
    <2> QED
      BY <1>5, <2>1, <2>5
      DEF PathInv, HeaderInv, RawInv, MetadataInv, SeekInv, FramePoints, HeaderPoints
  <1>6. CASE /\ \/ raw # UpToCrc(Frames, frame.of)
                \/ <<Next1(1), Next1(2)>> # Crc16(frame.of)
             /\ pc' = "bad"
    <2>1. ASSUME NEW f, NEW p, Pending(f, p), IsRead(f, p)
          PROVE  FALSE
      BY <1>1, <1>2, <1>3, <1>4, <1>6, <2>1, ChecksumOfRead
    <2>2. \A f, p : Pending(f, p) => ~IsRead(f, p)
      BY <2>1
    <2>3. pc \in {"body", "crc16"}
      BY <1>2
    <2> QED
      BY <1>1, <1>2, <1>4, <1>6, <2>2, <2>3, GivenUp
  <1> QED
    BY <1>2, <1>5, <1>6

-------------------------------------------------------------------------------
(* Writing and going back *)

\* A step that writes
LEMMA KeptWriting ==
    ASSUME KeptInv, UNCHANGED input, \A f : Found(f) => Found(f)',
           \A f, p : Pending(f, p) /\ Ahead(f, p) => Found(f)' \/ Ahead(f, p)'
    PROVE  KeptInv'
  <1> SUFFICES ASSUME NEW f \in 1..Len(Frames'), NEW p \in Starts(f)', Pending(f, p)'
               PROVE  Found(f)' \/ Ahead(f, p)'
    BY DEF KeptInv
  <1>1. Pending(f, p)
    BY PendingStays
  <1>2. f \in 1..Len(Frames) /\ p \in Starts(f)
    BY <1>1 DEF Pending
  <1> QED
    BY <1>1, <1>2 DEF KeptInv

\* What was written stays written.
LEMMA WrittenStays ==
    ASSUME PlacesInv, NEW e,
           written' = IF Len(written) < MaxWritten THEN Append(written, e) ELSE written
    PROVE  /\ \A f : Found(f) => Found(f)'
           /\ Found(e.of)'
  <1> DEFINE S == WrittenFrame \cup {e}
  <1>1. written \in Seq(S) /\ e \in S /\ Len(written) \in Nat /\ MaxWritten \in Nat
    <2>1. written \in Seq(WrittenFrame)
      BY DEF PlacesInv
    <2> QED
      BY <2>1, DecoderAssumption
  <1> HIDE DEF S
  <1>2. CASE Len(written) < MaxWritten
    <2>1. written' = Append(written, e)
      BY <1>2
    <2>2. /\ Len(written') = Len(written) + 1 /\ written'[Len(written) + 1] = e
          /\ \A i \in 1..Len(written) : written'[i] = written[i]
      BY <1>1, <2>1
    <2>3. Len(written) + 1 \in 1..Len(written')
      BY <1>1, <2>2
    <2>4. Found(e.of)'
      BY <2>2, <2>3 DEF Found
    <2>5. ASSUME NEW f, Found(f)
          PROVE  Found(f)'
      <3>1. PICK i \in 1..Len(written) : written[i].of = f
        BY <1>1, <1>2, <2>5 DEF Found
      <3>2. i \in 1..Len(written') /\ written'[i] = written[i]
        BY <1>1, <2>2, <3>1
      <3> QED
        BY <3>1, <3>2 DEF Found
    <2> QED
      BY <2>4, <2>5
  <1>3. CASE ~(Len(written) < MaxWritten)
    <2>1. written' = written /\ Len(written) >= MaxWritten
      BY <1>1, <1>3
    <2> QED
      BY <2>1 DEF Found
  <1> QED
    BY <1>2, <1>3

\* The frame that waits is written.
LEMMA WritingPath ==
    ASSUME Scope, PlacesInv, ReaderInv, ReaderInv', PathInv, WriteSilence \/ WriteFrame
    PROVE  PathInv'
  <1>1. input \in Inputs /\ PlaceInv /\ KeptInv /\ ControlInv
    BY DEF Scope, PathInv, ReaderInv
  <1>2. /\ pc = "gap" /\ UNCHANGED <<fileVars, br, syncVars, frame>>
        /\ pc' \in {"gap", "sync", "returned"}
        /\ pc' = "returned" => state' = "ABORTED"
        /\ pc' = "sync" => WriteFrame
    BY DEF WriteSilence, WriteFrame, Aborted
  <1>3. PICK e :
           /\ written' = IF Len(written) < MaxWritten THEN Append(written, e) ELSE written
           /\ WriteFrame => e.of = frame.of
    <2>1. CASE WriteSilence
      <3>1. ~WriteFrame
        <4>1. gap > 0
          BY <2>1 DEF WriteSilence
        <4> QED
          BY <4>1 DEF WriteFrame
      <3> QED
        BY <2>1, <3>1 DEF WriteSilence, Write
    <2>2. CASE WriteFrame
      <3>1. written' = IF Len(written) < MaxWritten
                       THEN Append(written, [of |-> frame.of, at |-> frame.at, size |-> frame.size,
                                             zeroed |-> Min({zeroed, frame.size})])
                       ELSE written
        BY <2>2 DEF WriteFrame, Write
      <3> QED
        BY <3>1
    <2> QED
      BY <2>1, <2>2
  <1>4. (\A f : Found(f) => Found(f)') /\ Found(e.of)'
    BY <1>3, WrittenStays
  <1>5. Position' = Position /\ PlaceInv'
    <2>1. At(br) \in Nat
      BY <1>1, WhereItIs
    <2>2. 0 \in Nat /\ SameBytes(br', br) /\ At(br') = At(br) + 0
      BY <1>2, <2>1 DEF SameBytes
    <2>3. Position' = Position + 0 /\ Position \in Int /\ PlaceInv'
      BY <1>1, <1>2, <2>2, Onward
    <2> QED
      BY <2>3
  <1>6. /\ GoesOn = Position + 1
        /\ pc' \in {"gap", "sync"} => GoesOn' = GoesOn
        /\ pc' = "returned" => GoesOn' = 0
    <2>1. ~cached'
      BY <1>1, <1>2 DEF ControlInv, syncVars
    <2> QED
      BY <1>2, <1>5, <2>1, WhereItGoesOn, WhereItWillGoOn
  <1>7. ASSUME NEW f, NEW p, Pending(f, p), Ahead(f, p)
        PROVE  Found(f)' \/ Ahead(f, p)'
    <2>1. p \in Nat
      BY <1>1, <1>7, PendingBytes
    <2>2. CASE pc' = "returned"
      BY <1>6, <2>1, <2>2 DEF Ahead
    <2>3. CASE p >= GoesOn /\ pc' # "returned"
      BY <1>2, <1>6, <2>3 DEF Ahead
    <2>4. CASE IsRead(f, p)
      BY <1>2, <2>4 DEF IsRead, FramePoints, HeaderPoints
    <2>5. CASE IsWhole(f) /\ pc' = "gap"
      BY <1>2, <2>5 DEF Ahead, IsWhole
    <2>6. CASE IsWhole(f) /\ pc' = "sync"
      BY <1>2, <1>3, <1>4, <2>6 DEF IsWhole
    <2> QED
      BY <1>2, <1>7, <2>2, <2>3, <2>4, <2>5, <2>6 DEF Ahead
  <1>8. KeptInv'
    BY <1>1, <1>2, <1>4, <1>7, KeptWriting DEF fileVars
  <1> QED
    BY <1>2, <1>5, <1>8
    DEF PathInv, HeaderInv, RawInv, MetadataInv, SeekInv, FramePoints, HeaderPoints

\* The search goes on behind the sync of the bad frame.
LEMMA RewindPath ==
    ASSUME Scope, ReaderInv, ReaderInv', PathInv, Rewind
    PROVE  PathInv'
  <1>1. input \in Inputs /\ PlaceInv /\ KeptInv /\ SeekInv
    BY DEF Scope, PathInv
  <1>2. pc = "bad" /\ UNCHANGED <<input, written>>
    BY DEF Rewind, frameVars
  <1>3. /\ pc' = "sync" /\ ~cached'
        /\ SyncSeen => /\ Position' = FileStart + Lsf(br) + 1
                       /\ FileStart' = FileStart /\ sramReadAddr' = sramReadAddr
        /\ ~SyncSeen /\ last_seen_framesync # 0 =>
              /\ Position' = last_seen_framesync
              /\ FileStart' = Position' /\ sramReadAddr' = Position'
    BY <1>1, RewindKeeps
  <1>4. last_seen_framesync \in 1..FileEnd /\ FileEnd \in Nat /\ FileEnd' = FileEnd
    <2>1. FileEnd' = FileEnd
      BY <1>2, FileStays
    <2>2. FileEnd \in Nat
      BY <1>1, FileIsBytes
    <2> QED
      BY <1>1, <1>2, <2>1, <2>2 DEF SeekInv
  <1>5. GoesOn' = GoesOn /\ PlaceInv'
    <2>1. GoesOn' = Position' + 1
      BY <1>3, WhereItWillGoOn
    <2>2. CASE SyncSeen
      <3>1. GoesOn = FileStart + Lsf(br) + 2
        BY <1>2, <2>2, WhereItGoesOn
      <3>2. FileStart \in Int /\ Lsf(br) \in Nat
        BY <1>1, WhereItIs
      <3>3. GoesOn' = GoesOn
        BY <1>3, <2>1, <2>2, <3>1, <3>2
      <3>4. PlaceInv'
        BY <1>1, <1>3, <1>4, <2>2 DEF PlaceInv
      <3> QED
        BY <3>3, <3>4
    <2>3. CASE ~SyncSeen
      <3>1. GoesOn = last_seen_framesync + 1
        BY <1>2, <2>3, WhereItGoesOn
      <3>2. last_seen_framesync # 0 /\ last_seen_framesync \in 0..FileEnd
        BY <1>4
      <3>3. /\ Position' = last_seen_framesync
            /\ FileStart' = Position' /\ sramReadAddr' = Position'
        BY <1>3, <2>3, <3>2
      <3>4. PlaceInv'
        BY <1>4, <3>2, <3>3 DEF PlaceInv
      <3> QED
        BY <2>1, <3>1, <3>3, <3>4
    <2> QED
      BY <2>2, <2>3
  <1>6. ASSUME NEW f, NEW p, Pending(f, p), Ahead(f, p)
        PROVE  Ahead(f, p)'
    BY <1>2, <1>5, <1>6 DEF Ahead, IsRead, IsWhole, FramePoints, HeaderPoints
  <1>7. KeptInv'
    BY <1>1, <1>2, <1>6, KeptStep
  <1> QED
    BY <1>3, <1>5, <1>7
    DEF PathInv, HeaderInv, RawInv, MetadataInv, SeekInv, FramePoints, HeaderPoints

-------------------------------------------------------------------------------
(* Refills *)

\* How far the reader got when it is refilled
LEMMA NothingLeft ==
    ASSUME input \in Inputs, ReaderInv, ~Ready
    PROVE  /\ pc \notin {"returned", "bad", "gap"} /\ ~cached
           /\ pc # "crc16" => At(br) = Available(br)
           /\ Available(br) <= At(br) + 1
  <1>1. ControlInv /\ BufferInv /\ TellInv
    BY DEF ReaderInv
  <1>2. /\ At(br) \in Nat /\ Available(br) \in Nat /\ At(br) <= Available(br)
        /\ Ready <=> Reads * BitsPerByte <= (Available(br) - At(br)) * BitsPerByte
    BY <1>1, PlacesInFile
  <1>3. Reads = 0 \/ Reads = 1 \/ (pc = "crc16" /\ Reads = 2)
    BY DEF Reads
  <1>4. PICK k \in Nat, n \in Nat : k = Reads /\ n = Available(br) - At(br)
    BY <1>2, <1>3
  <1>5. ~(k * 8 <= n * 8)
    BY <1>2, <1>4 DEF BitsPerByte
  <1>6. k > n
    BY <1>4, <1>5
  <1>7. k = 0 \/ k = 1 \/ (pc = "crc16" /\ k = 2)
    BY <1>3, <1>4
  <1>8. n <= 1 /\ (pc # "crc16" => n = 0)
    BY <1>4, <1>6, <1>7
  <1>9. pc \notin {"returned", "bad", "gap"} /\ ~cached
    <2>1. Reads # 0
      BY <1>4, <1>6
    <2> QED
      BY <1>1, <2>1 DEF Reads, ControlInv
  <1> QED
    BY <1>2, <1>4, <1>8, <1>9

\* The reader keeps its place in a refill.
LEMMA RefillMoves ==
    ASSUME input \in Inputs, ReaderInv, ReaderInv', PlaceInv, Refill
    PROVE  Position' = Position /\ PlaceInv' /\ ~SyncSeen'
  <1> DEFINE b == Kept(Reader!BeforeRead(br))
             n == Reader!SpaceLeft(b)
  <1>1. RegionInv /\ BufferInv /\ TellInv
    BY DEF ReaderInv
  <1>2. /\ UNCHANGED <<sram, lengthWord, input, cached>> /\ Fs!ReadBuf(n)
        /\ IF Fs!Eof
           THEN br' = Reader!NotFilled(b, <<>>) /\ EndOfStream /\ UNCHANGED beyond
           ELSE /\ br' = Reader!Filled(b, Stored(b, Reader!Available(b), n))
                /\ beyond' = beyond + n - Len(Copied(n))
                /\ UNCHANGED <<state, pc>>
    BY DEF Refill, syncVars
  <1>3. ~Reader!FramesyncInBuffer(b) /\ \E d \in Nat : Shifted(b, d)
    BY <1>1, ShiftOfBuffer
  <1>4. ~Ready
    BY DEF Refill
  <1> HIDE DEF b
  <1>5. PICK d \in Nat : Shifted(b, d)
    BY <1>3
  <1>6. /\ FileEnd \in Nat /\ FileEnd <= Capacity /\ FileEnd' = FileEnd
        /\ Capacity \in Nat /\ Wrap \in Nat /\ Capacity + 1 < Wrap
    BY <1>2, FileIsBytes, FileStays, SomeRoom
  <1>7. sramReadAddr \in 0..FileEnd /\ FileStart >= 0
    BY DEF PlaceInv
  <1>8. /\ Position' = Position /\ At(br') = At(b) /\ Lsf(br') = Lsf(b)
        /\ sramReadAddr' \in 0..FileEnd
    <2>1. CASE Fs!Eof
      <3>1. /\ br' = Reader!NotFilled(b, <<>>)
            /\ UNCHANGED <<input, beyond, sram, lengthWord, sramReadAddr, filesize, cached>>
        BY <1>2, <2>1 DEF Fs!ReadBuf, Fs!readerVars
      <3>2. pc \in {"sync", "returned"} /\ ~cached => pc' \in {"sync", "returned"} /\ ~cached'
        BY <1>2, <2>1, <3>1 DEF EndOfStream
      <3>3. Lsf(br') = Lsf(b) /\ At(br') = At(b) /\ Position' = Position
        BY <1>1, <1>5, <3>1, <3>2, RefillAtEnd
      <3> QED
        BY <1>7, <3>1, <3>3
    <2>2. CASE ~Fs!Eof
      <3>1. /\ br' = Reader!Filled(b, Stored(b, Available(b), n))
            /\ beyond' = beyond + n - Len(Copied(n))
        BY <1>2, <2>2 DEF Available
      <3>2. n \in Nat /\ n = BufferBytes - Available(b)
        BY <1>5, GoodPlaces DEF Shifted
      <3> HIDE DEF n
      <3>3. Refilled(b, n)
        BY <1>2, <3>1, <3>2 DEF Refilled
      <3>4. /\ Lsf(br') = Lsf(b) /\ At(br') = At(b) /\ sramReadAddr' \in 0..FileEnd
            /\ sramReadAddr = From => Position' = Position
        BY <1>1, <1>5, <2>2, <3>3, RefillFromFile
      <3>5. sramReadAddr = From
        BY <1>6, <1>7 DEF From
      <3> QED
        BY <3>4, <3>5
    <2> QED
      BY <2>1, <2>2
  <1>9. ~SyncSeen'
    BY <1>3, <1>8 DEF SyncSeen, Reader!FramesyncInBuffer, Lsf
  <1>10. FileStart' >= 0
    <2>1. (input \in Inputs /\ ReaderInv)'
      BY <1>2
    <2>2. (Position = FileStart + At(br) /\ At(br) \in Nat /\ FileStart \in Int)'
      BY <2>1, WhereItIs, PTL
    <2>3. Position = FileStart + At(br) /\ FileStart \in Int /\ At(br) \in Nat
      BY WhereItIs
    <2>4. At(b) = At(br) - d
      BY <1>5 DEF Shifted
    <2>5. /\ Position' = FileStart' + At(br') /\ At(br') \in Nat /\ FileStart' \in Int
      BY <2>2
    <2>6. FileStart' = FileStart + d
      BY <1>5, <1>8, <2>3, <2>4, <2>5
    <2> QED
      BY <1>7, <2>3, <2>6
  <1> QED
    BY <1>6, <1>8, <1>9, <1>10 DEF PlaceInv

\* From the file
LEMMA RefillPathOn ==
    ASSUME Scope, ReaderInv, ReaderInv', PathInv, Refill, ~Fs!Eof
    PROVE  PathInv'
  <1>1. /\ input \in Inputs /\ PlaceInv /\ KeptInv /\ HeaderInv /\ RawInv /\ SeekInv
        /\ MetadataInv
    BY DEF Scope, PathInv
  <1>2. ~Ready /\ UNCHANGED <<input, raw, skip, syncVars, frameVars, state, pc>>
    BY DEF Refill
  <1>3. Position' = Position /\ PlaceInv' /\ ~SyncSeen'
    BY <1>1, RefillMoves
  <1>4. pc \notin {"returned", "bad", "gap"} /\ ~cached /\ ~cached'
    BY <1>1, <1>2, NothingLeft DEF syncVars
  <1>5. /\ FileEnd' = FileEnd /\ Frames' = Frames
        /\ \A p : FileByte(p)' = FileByte(p)
    BY <1>2, FileStays
  <1>6. SyncAt' = SyncAt
    BY <1>2, <1>3 DEF SyncAt
  <1>7. GoesOn' = GoesOn
    <2>1. pc \in Points
      BY DEF ReaderInv, ControlInv
    <2>2. pc \in Early \/ pc = "sync" \/ pc = "sync2" \/ pc \in FramePoints
      BY <1>4, <2>1 DEF Points, Early, FramePoints, HeaderPoints
    <2>3. pc \in Early => (pc \in Early)'
      BY <1>2 DEF Early
    <2> QED
      BY <1>2, <1>3, <1>4, <1>6, <2>2, <2>3, WhereItGoesOn, WhereItWillGoOn
  <1>8. ASSUME NEW f, NEW p, Pending(f, p), Ahead(f, p)
        PROVE  Ahead(f, p)'
    <2>1. Length(f)' = Length(f)
      BY <1>2, PendingStays
    <2>2. IsRead(f, p) => IsRead(f, p)'
      BY <1>2, <1>5, <1>6, <2>1 DEF IsRead, frameVars
    <2>3. IsWhole(f) => IsWhole(f)'
      BY <1>2 DEF IsWhole, frameVars
    <2> QED
      BY <1>7, <1>8, <2>2, <2>3 DEF Ahead
  <1>9. KeptInv'
    BY <1>1, <1>2, <1>8, KeptStep DEF frameVars
  <1>10. HeaderInv' /\ MetadataInv'
    BY <1>1, <1>2, <1>3, <1>4 DEF HeaderInv, MetadataInv
  <1>11. RawInv'
    BY <1>1, <1>2, <1>5, <1>6 DEF RawInv
  <1>12. SeekInv'
    BY <1>1, <1>2, <1>3, <1>5, <1>6 DEF SeekInv, syncVars
  <1> QED
    BY <1>3, <1>9, <1>10, <1>11, <1>12 DEF PathInv

\* The frames that are to be found end before the file does.
LEMMA AtTheEnd ==
    ASSUME Scope, ReaderInv, PathInv, ~Ready, Fs!Eof
    PROVE  /\ pc # "crc16" => Position >= FileEnd - 1
           /\ Position >= FileEnd - 2 /\ Position \in Int /\ FileEnd \in Nat
  <1>1. input \in Inputs /\ PlaceInv
    BY DEF Scope, PathInv
  <1>2. /\ FileEnd \in Nat /\ FileEnd <= Capacity
        /\ Capacity \in Nat /\ Wrap \in Nat /\ Capacity + 1 < Wrap
    BY <1>1, FileIsBytes, SomeRoom
  <1>3. /\ At(br) \in Nat /\ Available(br) \in Nat /\ OfFile \in Int /\ FileStart \in Int
        /\ Position \in Int /\ Position = FileStart + At(br) /\ beyond \in Nat
    BY <1>1, WhereItIs
  <1>4. sramReadAddr \in 0..FileEnd
    BY <1>1 DEF PlaceInv
  <1>5. sramReadAddr + 1 >= FileEnd
    <2>1. filesize = FileEnd
      BY DEF ReaderInv, RegionInv
    <2>2. Fs!Plus(sramReadAddr, 1) = sramReadAddr + 1
      BY <1>2, <1>4 DEF Fs!Plus
    <2> QED
      BY <2>1, <2>2 DEF Fs!Eof, Fs!Tell
  <1>6. Position = sramReadAddr - Available(br) + beyond + At(br)
    BY <1>3, <1>4 DEF FileStart, OfFile
  <1>7. /\ pc # "crc16" => At(br) = Available(br)
        /\ Available(br) <= At(br) + 1
    BY <1>1, NothingLeft
  <1>8. Position >= FileEnd - 2
    BY <1>2, <1>3, <1>4, <1>5, <1>6, <1>7
  <1>9. ASSUME pc # "crc16"
        PROVE  Position >= FileEnd - 1
    BY <1>2, <1>3, <1>4, <1>5, <1>6, <1>7, <1>9
  <1> QED
    BY <1>2, <1>3, <1>8, <1>9

\* No frame that is to be found is read when the end is met.
LEMMA NotReadAtTheEnd ==
    ASSUME Scope, ReaderInv, PathInv, ~Ready, Fs!Eof,
           NEW f, NEW p, Pending(f, p), IsRead(f, p)
    PROVE  FALSE
  <1>1. input \in Inputs /\ HeaderInv
    BY DEF Scope, PathInv
  <1>2. Position >= FileEnd - 2 /\ Position \in Int /\ FileEnd \in Nat
    BY AtTheEnd
  <1>3. /\ p \in Nat /\ Length(f) \in Nat /\ Frames[f].hints \in Nat
        /\ 9 + Frames[f].hints <= Length(f) /\ p + Length(f) - 1 < FileEnd
    BY <1>1, PendingBytes
  <1>4. Len(raw) \in Nat
    BY <1>1, WhereItIs
  <1>5. PICK n \in Nat, m \in Nat, h \in Nat :
            n = Len(raw) /\ m = Length(f) /\ h = Frames[f].hints
    BY <1>3, <1>4
  <1>6. n <= m - 2
    <2>1. CASE pc \in HeaderPoints
      <3>1. n + 1 <= 6 + h
        BY <1>1, <1>5, <2>1, HeaderIsLonger
      <3>2. 9 + h <= m
        BY <1>3, <1>5
      <3> QED
        BY <1>5, <3>1, <3>2
    <2>2. CASE pc \notin HeaderPoints
      <3>1. n < m - 2 \/ n = m - 2
        BY <1>5, <2>2 DEF IsRead, FramePoints
      <3> QED
        BY <1>5, <3>1
    <2> QED
      BY <2>1, <2>2
  <1>7. Position = p + n - 1
    <2>1. p = Position - n + 1
      BY <1>5 DEF IsRead, SyncAt
    <2> QED
      BY <1>2, <1>5, <2>1
  <1>8. p + m - 1 < FileEnd
    BY <1>3, <1>5
  <1> QED
    BY <1>2, <1>3, <1>5, <1>6, <1>7, <1>8

\* At the end
LEMMA RefillPathEnd ==
    ASSUME Scope, ReaderInv, ReaderInv', PathInv, Refill, Fs!Eof
    PROVE  PathInv'
  <1>1. /\ input \in Inputs /\ PlaceInv /\ KeptInv /\ HeaderInv /\ RawInv /\ SeekInv
        /\ MetadataInv
    BY DEF Scope, PathInv
  <1>2. /\ ~Ready /\ UNCHANGED <<input, raw, skip, syncVars, frameVars>>
        /\ state' = "END_OF_STREAM"
        /\ pc' = IF pc \in {"body", "crc16"} THEN "bad" ELSE "returned"
    BY DEF Refill, EndOfStream
  <1>3. Position' = Position /\ PlaceInv' /\ ~SyncSeen'
    BY <1>1, RefillMoves
  <1>4. pc \notin {"returned", "bad", "gap"} /\ ~cached
    BY <1>1, <1>2, NothingLeft
  <1>5. FileEnd' = FileEnd
    BY <1>2, FileStays
  <1>6. /\ pc # "crc16" => Position >= FileEnd - 1
        /\ Position >= FileEnd - 2 /\ Position \in Int /\ FileEnd \in Nat
    BY <1>2, AtTheEnd
  <1>7. ASSUME NEW f, NEW p, Pending(f, p), Ahead(f, p)
        PROVE  p >= GoesOn /\ p \in Nat /\ p + 8 < FileEnd
    <2>1. p >= GoesOn
      BY <1>2, <1>4, <1>7, NotReadAtTheEnd DEF Ahead, IsWhole
    <2>2. p \in Nat /\ p + 8 < FileEnd
      BY <1>1, <1>7, PendingEnds
    <2> QED
      BY <2>1, <2>2
  <1>8. CASE pc \in {"body", "crc16"}
    <2>1. pc' = "bad"
      BY <1>2, <1>8
    <2>2. /\ last_seen_framesync \in 1..FileEnd /\ last_seen_framesync <= SyncAt + 1
      BY <1>1, <1>8 DEF SeekInv, FramePoints
    <2>3. SyncAt \in Int
      <3>1. Len(raw) \in Nat
        BY <1>1, WhereItIs
      <3> QED
        BY <1>6, <3>1 DEF SyncAt
    <2>4. GoesOn = SyncAt + 3 /\ GoesOn' = last_seen_framesync + 1
      BY <1>2, <1>3, <1>8, <2>1, WhereItGoesOn, WhereItWillGoOn DEF FramePoints, syncVars
    <2>5. ASSUME NEW f, NEW p, Pending(f, p), Ahead(f, p)
          PROVE  Ahead(f, p)'
      <3>1. p >= GoesOn'
        BY <1>6, <1>7, <2>2, <2>3, <2>4, <2>5
      <3> QED
        BY <3>1 DEF Ahead
    <2>6. KeptInv'
      BY <1>1, <1>2, <2>5, KeptStep DEF frameVars
    <2>7. SeekInv'
      BY <1>2, <1>5, <2>1, <2>2 DEF SeekInv, syncVars, FramePoints, HeaderPoints
    <2>8. HeaderInv' /\ RawInv' /\ MetadataInv'
      BY <2>1 DEF HeaderInv, RawInv, MetadataInv, FramePoints, HeaderPoints
    <2> QED
      BY <1>3, <2>6, <2>7, <2>8 DEF PathInv
  <1>9. CASE pc \notin {"body", "crc16"}
    <2>1. pc' = "returned" /\ Position >= FileEnd - 1
      BY <1>2, <1>6, <1>9
    <2>2. ASSUME NEW f, NEW p, Pending(f, p), Ahead(f, p)
          PROVE  FALSE
      <3>1. p >= GoesOn /\ p \in Nat /\ p + 8 < FileEnd
        BY <1>7, <2>2
      <3>2. pc \in Points
        BY DEF ReaderInv, ControlInv
      <3>3. CASE pc \in Early
        <4>1. p >= 5
          BY <3>1, <3>3, WhereItGoesOn
        <4>2. Position <= 4
          <5>1. skip \in Nat
            BY <1>1, WhereItIs
          <5>2. pc = "marker" => Position = 0
            BY <1>1 DEF MetadataInv
          <5>3. pc # "marker2"
            BY <1>1 DEF MetadataInv
          <5>4. pc = "metadata" => Position = 1 \/ Position = 2
            BY <1>1 DEF MetadataInv
          <5>5. pc = "skip" => Position + skip = 4
            BY <1>1 DEF MetadataInv
          <5>6. pc = "skip" => Position <= 4
            BY <1>6, <5>1, <5>5
          <5>7. pc = "metadata" => Position <= 4
            BY <5>4
          <5> QED
            BY <3>3, <5>2, <5>3, <5>6, <5>7 DEF Early
        <4> QED
          BY <1>6, <2>1, <3>1, <4>1, <4>2
      <3>4. CASE pc = "sync" \/ pc = "sync2"
        <4>1. p >= Position
          BY <1>4, <1>6, <3>1, <3>4, WhereItGoesOn
        <4> QED
          BY <1>6, <2>1, <3>1, <4>1
      <3>5. CASE pc \in HeaderPoints
        <4>1. p >= SyncAt + 3
          BY <3>1, <3>5, WhereItGoesOn DEF FramePoints
        <4>2. p > Position + 1
          BY <1>1, <2>2, <3>5, <4>1, BehindHeader
        <4> QED
          BY <1>6, <2>1, <3>1, <4>2
      <3> QED
        BY <1>4, <1>9, <3>2, <3>3, <3>4, <3>5 DEF Points, Early, HeaderPoints
    <2>3. KeptInv'
      BY <1>1, <1>2, <2>2, KeptStep DEF frameVars
    <2> QED
      BY <1>3, <2>1, <2>3
      DEF PathInv, HeaderInv, RawInv, MetadataInv, SeekInv, FramePoints, HeaderPoints
  <1> QED
    BY <1>8, <1>9

-------------------------------------------------------------------------------
(* The whole run *)

\* At the start all frames are ahead.
LEMMA PathInit ==
    ASSUME Init, Scope, ReaderInv
    PROVE  LocalInv
  <1>1. /\ input \in Inputs /\ sramReadAddr = 0 /\ pc = "marker" /\ ~cached /\ beyond = 0
        /\ br = [Reader!NewReader EXCEPT !.buffer = [a \in Reader!Addr |-> Other]]
    BY DEF Init
  <1>2. At(br) = 0 /\ Available(br) = 0
    <2>1. br.words = 0 /\ br.bytes = 0 /\ br.consumed_words = 0 /\ br.consumed_bits = 0
      BY <1>1 DEF Reader!NewReader
    <2>2. Reader!Consumed(br) = 0 /\ Reader!Available(br) = 0
      BY <2>1, ReaderSizes DEF Reader!Consumed, Reader!Available, Reader!BitsPerWord, BitsPerByte
    <2> QED
      BY <2>2 DEF At, Available, BitsPerByte
  <1>3. /\ Position = FileStart + At(br) /\ FileStart = sramReadAddr - OfFile
        /\ OfFile = Available(br) - beyond /\ FileEnd \in Nat
    BY <1>1, WhereItIs DEF FileStart, OfFile
  <1>4. Position = 0 /\ FileStart = 0
    BY <1>1, <1>2, <1>3
  <1>5. GoesOn = 5
    BY <1>1, WhereItGoesOn DEF Early
  <1>6. ASSUME NEW f, NEW p, Pending(f, p)
        PROVE  p >= 5
    <2>1. /\ p \in Nat \ {0} /\ FileByte(p) = FF
      BY <1>1, <1>6, PendingBytes, PendingStart
    <2>2. FileByte(p).is = "ff"
      BY <2>1 DEF FF, Byte
    <2>3. /\ FileByte(1).is # "ff" /\ FileByte(2).is # "ff"
          /\ FileByte(3).is # "ff" /\ FileByte(4).is # "ff"
      BY MetadataBytes DEF Marker, StreamInfo, Block, Other, Byte
    <2>4. p # 1 /\ p # 2 /\ p # 3 /\ p # 4
      BY <2>2, <2>3
    <2> QED
      BY <2>1, <2>4
  <1>7. KeptInv
    BY <1>5, <1>6 DEF KeptInv, Ahead
  <1>8. PlaceInv /\ MetadataInv
    BY <1>1, <1>3, <1>4 DEF PlaceInv, MetadataInv
  <1> QED
    BY <1>1, <1>7, <1>8 DEF LocalInv, PathInv, CrcInv, HeaderInv, RawInv, SeekInv, RunningPoints,
    FramePoints, HeaderPoints

\* Stuttering
LEMMA PathStays ==
    ASSUME PathInv, UNCHANGED vars
    PROVE  PathInv'
  <1>1. /\ UNCHANGED <<sramReadAddr, beyond, input, br, state, pc, raw, skip, cached, lookahead,
                       last_seen_framesync, frame, written>>
    BY DEF vars, fileVars, fsVars, syncVars, frameVars
  <1>2. /\ HeaderInv' /\ RawInv' /\ PlaceInv' /\ MetadataInv' /\ SeekInv'
    BY <1>1 DEF PathInv, HeaderInv, RawInv, PlaceInv, MetadataInv, SeekInv, SyncAt, FileByte,
    Position, UnreadOfFile, Unread, FileEnd, FileStart, OfFile, SyncSeen
  <1>3. GoesOn' = GoesOn
    BY <1>1 DEF GoesOn, FileEnd, SyncAt, Position, UnreadOfFile, Unread, FileStart, OfFile,
    SyncSeen, Lsf, Available
  <1>4. ASSUME NEW f, NEW p, Pending(f, p), Ahead(f, p)
        PROVE  Ahead(f, p)'
    <2>1. (p >= GoesOn)' <=> p >= GoesOn
      BY <1>3
    <2>2. IsRead(f, p)' <=> IsRead(f, p)
      BY <1>1 DEF IsRead, Frames, SyncAt, Position, UnreadOfFile, Unread, Length
    <2>3. IsWhole(f)' <=> IsWhole(f)
      BY <1>1 DEF IsWhole
    <2> QED
      BY <1>4, <2>1, <2>2, <2>3 DEF Ahead
  <1>5. KeptInv'
    BY <1>1, <1>4, KeptStep DEF PathInv
  <1> QED
    BY <1>2, <1>5 DEF PathInv

\* Every step keeps the invariant.
LEMMA LocalStep ==
    ASSUME Scope, PlacesInv, ReaderInv, ReaderInv', LocalInv, [Next]_vars
    PROVE  LocalInv'
  <1>1. input \in Inputs /\ CrcInv /\ PathInv
    BY DEF Scope, LocalInv
  <1>2. CrcInv'
    BY <1>1, CrcInvStep
  <1>3. ASSUME Refill PROVE  PathInv'
    BY <1>1, <1>3, RefillPathOn, RefillPathEnd
  <1>4. ASSUME FindMetadata PROVE  PathInv'
    BY <1>1, <1>4, FindMetadataPath
  <1>5. ASSUME FindMetadata2 PROVE  PathInv'
    BY <1>1, <1>5 DEF FindMetadata2, PathInv, MetadataInv
  <1>6. ASSUME ReadMetadata PROVE  PathInv'
    BY <1>1, <1>6, ReadMetadataPath
  <1>7. ASSUME SkipBlock PROVE  PathInv'
    BY <1>1, <1>7, SkipBlockPath
  <1>8. ASSUME SearchSync PROVE  PathInv'
    BY <1>1, <1>8, SearchSyncPath
  <1>9. ASSUME SearchSync2 PROVE  PathInv'
    BY <1>1, <1>9, SearchSync2Path
  <1>10. ASSUME ReadParameters PROVE  PathInv'
    BY <1>1, <1>10, ReadParametersPath
  <1>11. ASSUME ReadNumber PROVE  PathInv'
    BY <1>1, <1>11, ReadNumberPath
  <1>12. ASSUME ReadBlockSize PROVE  PathInv'
    BY <1>1, <1>12, ReadBlockSizePath
  <1>13. ASSUME ReadCrc8 PROVE  PathInv'
    BY <1>1, <1>13, ReadCrc8Path
  <1>14. ASSUME ReadBody PROVE  PathInv'
    BY <1>1, <1>14, ReadBodyPath
  <1>15. ASSUME ReadCrc16 PROVE  PathInv'
    BY <1>1, <1>15, ReadCrc16Path
  <1>16. ASSUME WriteSilence \/ WriteFrame PROVE  PathInv'
    BY <1>1, <1>16, WritingPath
  <1>17. ASSUME Rewind PROVE  PathInv'
    BY <1>1, <1>17, RewindPath
  <1>18. ASSUME UNCHANGED vars PROVE  PathInv'
    BY <1>1, <1>18, PathStays
  <1>19. PathInv'
    BY <1>3, <1>4, <1>5, <1>6, <1>7, <1>8, <1>9, <1>10, <1>11, <1>12, <1>13, <1>14, <1>15, <1>16,
       <1>17, <1>18 DEF Next, Go, Returned
  <1> QED
    BY <1>2, <1>19 DEF LocalInv

\* When the end is reported there is nothing ahead.
LEMMA LocalSuffices ==
    ASSUME PlacesInv, ReaderInv, Scope => LocalInv
    PROVE  DamageIsLocal
  <1> SUFFICES ASSUME Ended, IsPrefix(Metadata, input.file), Len(written) < MaxWritten,
                      BytesPerWord * BufferWords <= Len(input.file),
                      NEW f \in 1..Len(Frames), NEW p \in Starts(f),
                      ~SyncBefore(p), ~Frames[f].future,
                      p + Len(Whole(Frames, f)) - 1 # Len(input.file)
               PROVE  \E i \in 1..Len(written) : written[i].of = f
    BY DEF DamageIsLocal
  <1>1. input \in Inputs /\ FileEnd = Len(input.file) /\ FileEnd \in Nat
    BY FileIsBytes DEF PlacesInv, FileEnd
  <1>2. Scope
    BY <1>1, ReaderSizes DEF Scope
  <1>3. KeptInv
    BY <1>2 DEF LocalInv, PathInv
  <1>4. Len(Whole(Frames, f)) = Length(f)
    BY <1>1, WholeBytes
  <1>5. Pending(f, p)
    BY <1>1, <1>4 DEF Pending
  <1>6. GoesOn = FileEnd + 1 /\ ~IsRead(f, p) /\ ~IsWhole(f)
    BY DEF Ended, GoesOn, IsRead, IsWhole, FramePoints, HeaderPoints, Early
  <1>7. p \in 1..FileEnd
    BY <1>1 DEF Starts
  <1>8. ~Ahead(f, p)
    BY <1>1, <1>6, <1>7 DEF Ahead
  <1>9. written \in Seq(WrittenFrame) /\ ~(Len(written) >= MaxWritten)
    BY DecoderAssumption DEF PlacesInv
  <1> QED
    BY <1>3, <1>5, <1>8, <1>9 DEF KeptInv, Found

\* The file and the frames stay what they are.
LEMMA InputStays == [Next]_vars => UNCHANGED input
  BY DEF Next, Go, Refill, FindMetadata, FindMetadata2, ReadMetadata, SkipBlock, SearchSync,
     SearchSync2, ReadParameters, ReadNumber, ReadBlockSize, ReadCrc8, ReadBody, ReadCrc16,
     WriteSilence, WriteFrame, Rewind, Returned, vars, fileVars, fsVars

\* A file that is in scope was so from the start.
LEMMA ScopeStays ==
    ASSUME [Next]_vars, Scope'
    PROVE  Scope
  BY InputStays DEF Scope, FileEnd

\* Of a file that is no smaller than the buffer every frame that stands whole in it, and
\* that no sync right in front of it hides, was written when the end is reported,
\* whatever is between the frames (frame_sync_, read_frame_, read_frame_header_).
THEOREM DamageIsAlwaysLocal == Spec => []DamageIsLocal
  <1> DEFINE I == PlacesInv /\ ReaderInv /\ (Scope => LocalInv)
  <1>1. Init => I
    BY PlacesInit, ReaderInit, PathInit
  <1>2. I /\ [Next]_vars => I'
    <2> SUFFICES ASSUME I, [Next]_vars
                 PROVE  I'
      OBVIOUS
    <2>1. PlacesInv' /\ ReaderInv'
      BY PlacesStep, ReaderStep DEF PlacesInv
    <2>2. ASSUME Scope'
          PROVE  LocalInv'
      BY <2>1, <2>2, ScopeStays, LocalStep
    <2> QED
      BY <2>1, <2>2
  <1>3. I => DamageIsLocal
    BY LocalSuffices
  <1> QED
    BY <1>1, <1>2, <1>3, PTL DEF Spec

================================================================================
