-------------------------- MODULE StreamEncoderProofs --------------------------
(***************************************************************************)
(* Proofs about StreamEncoder, for every song, block size, sample width,   *)
(* size of reads and room on the card, and whatever fails: the types are   *)
(* right, every error is reported, no sample is lost, verification finds   *)
(* no fault with a frame, loose mid-side stereo keeps its assignments, the *)
(* file of an encode without errors is the stream of its frames, and the   *)
(* client is told its progress as it is.                                   *)
(***************************************************************************)
EXTENDS StreamEncoder, TLAPS, SequenceTheorems, FiniteSetTheorems, WellFoundedInduction

-------------------------------------------------------------------------------
(* Errors *)

\* Until finish there is no error that ok does not tell, and from there on none that
\* ok or error does not tell.
ErrorInv ==
    /\ ok \in BOOLEAN /\ error \in BOOLEAN /\ failed \in BOOLEAN
    /\ pc \in {"open", "magic", "streaminfo", "blocks", "padding", "read", "process",
               "finish"} => ~error
    /\ pc = "process" => ok
    /\ failed => ~ok \/ error
    /\ pc = "returned" => (failed => ~ok)

\* A frame that fails leaves a state that is not OK.
LEMMA FrameErrors ==
    ASSUME failed \in BOOLEAN,
           NEW left_right, NEW ms, NEW input, NEW size,
           ProcessFrame(left_right, ms, input, size)
    PROVE  /\ failed' \in BOOLEAN
           /\ failed' => failed \/ state' # "OK"
  <1>1. CASE state' \in OutOfMemory /\ failed' = TRUE
    BY <1>1 DEF OutOfMemory
  <1>2. CASE state' = "VERIFY_MISMATCH_IN_AUDIO_DATA" /\ UNCHANGED failed
    BY <1>2
  <1>3. CASE failed' = (failed \/ broken') /\ (broken' => state' = "CLIENT_ERROR")
    BY <1>3
  <1> QED
    BY <1>1, <1>2, <1>3 DEF ProcessFrame

\* Every step keeps track of what failed.
LEMMA ErrorStep == ErrorInv /\ [Next]_vars => ErrorInv'
  <1> SUFFICES ASSUME ErrorInv, [Next]_vars PROVE ErrorInv'
    OBVIOUS
  <1> USE DEF ErrorInv
  <1>1. CASE Open
    <2>1. CASE pc' = "magic" /\ UNCHANGED <<ok, failed, error>>
      BY <1>1, <2>1 DEF Open
    <2>2. CASE pc' = "finish" /\ ok' = FALSE /\ failed' = TRUE /\ UNCHANGED error
      <3>1. ok' \in BOOLEAN /\ ~ok' /\ failed' \in BOOLEAN
        BY <2>2
      <3>2. ~error /\ error' = error
        BY <1>1, <2>2 DEF Open
      <3> QED
        BY <2>2, <3>1, <3>2
    <2> QED
      BY <1>1, <2>1, <2>2 DEF Open
  <1>2. CASE WriteMagic \/ WriteStreamInfo \/ WriteUserBlocks
    <2>1. \E here \in {"magic", "streaminfo", "blocks", "padding"},
             next \in {"streaminfo", "blocks", "padding", "read"} :
             /\ pc = here /\ UNCHANGED error
             /\ \/ pc' = next /\ UNCHANGED <<ok, failed>>
                \/ pc' = "finish" /\ ok' = FALSE /\ failed' = TRUE
      BY <1>2 DEF WriteMagic, WriteStreamInfo, WriteUserBlocks, WriteMetadata
    <2>2. ~error /\ error' = error
      BY <2>1
    <2>3. CASE pc' # "process" /\ pc' # "returned" /\ UNCHANGED <<ok, failed>>
      BY <2>2, <2>3
    <2>4. CASE pc' = "finish" /\ ok' = FALSE /\ failed' = TRUE
      <3>1. ok' \in BOOLEAN /\ ~ok' /\ failed' \in BOOLEAN
        BY <2>4
      <3> QED
        BY <2>2, <2>4, <3>1
    <2> QED
      BY <2>1, <2>3, <2>4
  <1>3. CASE ReadBlock
    BY <1>3 DEF ReadBlock
  <1>4. CASE AllRead
    BY <1>4 DEF AllRead, clientVars
  <1>5. CASE Turn
    <2>1. /\ pc = "process" /\ UNCHANGED error /\ ok' = (state' = "OK")
          /\ pc' \in {"finish", "read", "process"} /\ (pc' = "process" => ok')
      BY <1>5 DEF Turn
    <2>2. /\ failed' \in BOOLEAN
          /\ failed' => failed \/ state' # "OK"
      <3> DEFINE taken == SubSeq(buffer, 1, TurnSize)
      <3>1. \/ state' = "CLIENT_ERROR" /\ failed' = TRUE
            \/ UNCHANGED failed
            \/ ProcessFrame(WithLeftRight(taken), WithMidAndSide(taken), fifo \o taken, Blocksize)
        BY <1>5 DEF Turn
      <3>2. failed \in BOOLEAN
        OBVIOUS
      <3>3. CASE state' = "CLIENT_ERROR" /\ failed' = TRUE
        BY <3>3
      <3>4. CASE UNCHANGED failed
        BY <3>2, <3>4
      <3>5. CASE ProcessFrame(WithLeftRight(taken), WithMidAndSide(taken), fifo \o taken, Blocksize)
        BY <3>2, <3>5, FrameErrors
      <3> QED
        BY <3>1, <3>3, <3>4, <3>5
    <2>3. ~error /\ error' = error /\ ~failed
      BY <2>1
    <2>4. /\ ok' \in BOOLEAN
          /\ failed' => ~ok'
      BY <2>1, <2>2, <2>3
    <2> QED
      BY <2>1, <2>2, <2>3, <2>4
  <1>6. CASE Finish
    <2>1. /\ pc = "finish" /\ pc' = "seek" /\ UNCHANGED ok
      BY <1>6 DEF Finish, clientVars
    <2>2. CASE ProcessFrame(signal, mid_side, fifo, Buffered) /\ error' = (state' # "OK")
      BY <2>1, <2>2, FrameErrors
    <2>3. CASE UNCHANGED <<error, failed>>
      BY <2>1, <2>3
    <2> QED
      BY <1>6, <2>2, <2>3 DEF Finish
  <1>7. CASE Seek \/ Overwrite
    <2>1. \E next \in {"seek", "overwrite"} : Called(next)
      BY <1>7 DEF Seek, Overwrite
    <2>2. /\ UNCHANGED ok /\ failed' = (failed \/ broken')
          /\ \/ broken' /\ error' = TRUE /\ pc' = "close"
             \/ ~broken' /\ UNCHANGED error /\ pc' \in {"seek", "overwrite"}
      BY <2>1 DEF Called, clientVars
    <2> QED
      BY <2>2
  <1>8. CASE Updated
    BY <1>8 DEF Updated, clientVars
  <1>9. CASE Close
    BY <1>9 DEF Close
  <1>10. CASE UNCHANGED vars
    BY <1>10 DEF vars, clientVars
  <1> QED
    BY <1>1, <1>2, <1>3, <1>4, <1>5, <1>6, <1>7, <1>8, <1>9, <1>10 DEF Next, Go, Returned

\* Whatever fails, in init, in a frame or in the update of STREAMINFO, my_EncodeDemo
\* is told: what its ok becomes in the end is true only if nothing failed.
THEOREM ErrorsAreAlwaysReported == Spec => []ErrorsAreReported
  <1>1. Init => ErrorInv
    BY DEF Init, ErrorInv
  <1>2. ErrorInv => ErrorsAreReported
    BY DEF ErrorInv, ErrorsAreReported
  <1> QED
    BY <1>1, <1>2, ErrorStep, PTL DEF Spec

-------------------------------------------------------------------------------
(* Coding *)

\* The whole samples of a quotient without a remainder
LEMMA Shifting ==
    ASSUME NEW x \in Int, NEW d \in Nat \ {0}, x % d = 0
    PROVE  (x \div d) * d = x /\ x \div d \in Int
  BY SMT

\* A set of small numbers that is not empty has a greatest member.
LEMMA GreatestMember ==
    ASSUME NEW n \in Nat, NEW S \in SUBSET (0..n), S # {}
    PROVE  Max(S) \in S
  <1> DEFINE T == {n - x : x \in S}
  <1>1. T \subseteq Nat /\ T # {}
    <2>1. PICK x \in S : TRUE
      OBVIOUS
    <2>2. n - x \in T
      BY <2>1
    <2>3. \A x_ \in S : n - x_ \in Nat
      OBVIOUS
    <2> QED
      BY <2>2, <2>3
  <1>2. PICK y \in T : \A z \in T : ~(<<z, y>> \in OpToRel(<, Nat))
    BY <1>1, NatLessThanWellFounded, WFMin
  <1>3. PICK x \in S : y = n - x
    BY <1>2
  <1>4. ASSUME NEW z \in S PROVE x >= z
    <2>1. n - z \in T /\ n - z \in Nat /\ y \in Nat
      BY <1>1, <1>2
    <2>2. ~(n - z < y)
      BY <1>2, <2>1 DEF OpToRel
    <2> QED
      BY <1>3, <2>1, <2>2
  <1> QED
    BY <1>3, <1>4 DEF Max

\* The wasted bits of a block are zeros of all its samples.
LEMMA WastedBits ==
    ASSUME NEW s, NEW n \in Nat, \A i \in 1..n : s[i] \in Int
    PROVE  /\ Wasted(s, n) \in 0..BitsPerSample
           /\ \A i \in 1..n : s[i] % 2^Wasted(s, n) = 0
  <1>1. CASE \A i \in 1..n : s[i] = 0
    <2>1. Wasted(s, n) = 0
      BY <1>1 DEF Wasted
    <2>2. 2^0 = 1
      BY PowersAssumption
    <2>3. \A i \in 1..n : s[i] % 1 = 0
      OBVIOUS
    <2> QED
      BY <2>1, <2>2, <2>3, EncoderAssumption
  <1>2. CASE ~ \A i \in 1..n : s[i] = 0
    <2> DEFINE S == {w \in 0..BitsPerSample : \A i \in 1..n : s[i] % 2^w = 0}
    <2>1. 0 \in S
      <3>1. 2^0 = 1
        BY PowersAssumption
      <3>2. \A i \in 1..n : s[i] % 1 = 0
        OBVIOUS
      <3> QED
        BY <3>1, <3>2, EncoderAssumption
    <2>2. Max(S) \in S
      BY <2>1, GreatestMember, EncoderAssumption
    <2>3. Wasted(s, n) = Max(S)
      BY <1>2 DEF Wasted
    <2> QED
      BY <2>2, <2>3
  <1> QED
    BY <1>1, <1>2

\* A subframe gives back the samples it was made of.
LEMMA SubframeGivesBack ==
    ASSUME NEW s \in Seq(Int), NEW n \in Nat, n <= Len(s), NEW i \in 1..n
    PROVE  Subframe(s, n).signal[i] * 2^Subframe(s, n).wasted = s[i]
  <1> DEFINE w == Wasted(s, n)
  <1>1. \A j \in 1..n : s[j] \in Int
    OBVIOUS
  <1>2. w \in 0..BitsPerSample /\ s[i] % 2^w = 0
    BY <1>1, WastedBits
  <1>3. 2^w \in Nat \ {0}
    BY <1>2, PowersAssumption
  <1>4. (s[i] \div 2^w) * 2^w = s[i]
    BY <1>1, <1>2, <1>3, Shifting
  <1>5. i \in DOMAIN s /\ i <= n
    OBVIOUS
  <1>6. Subframe(s, n).signal[i] = s[i] \div 2^w
    BY <1>5 DEF Subframe, Shifted
  <1>7. Subframe(s, n).wasted = w
    BY DEF Subframe
  <1> QED
    BY <1>4, <1>6, <1>7

\* Middle and difference give back left and right: what halving the sum drops is the
\* low bit of the difference.
LEMMA StereoIsUndone ==
    ASSUME NEW l \in Int, NEW r \in Int
    PROVE  /\ Undo("left_side", l, Side(l, r)) = <<l, r>>
           /\ Undo("right_side", Side(l, r), r) = <<l, r>>
           /\ Undo("mid_side", Mid(l, r), Side(l, r)) = <<l, r>>
           /\ Undo("independent", l, r) = <<l, r>>
  <1>1. Undo("left_side", l, Side(l, r)) = <<l, r>>
    BY DEF Undo, Side
  <1>2. Undo("right_side", Side(l, r), r) = <<l, r>>
    BY DEF Undo, Side
  <1>3. Undo("mid_side", Mid(l, r), Side(l, r)) = <<l, r>>
    <2> DEFINE mid == 2 * Mid(l, r) + (Side(l, r) % 2)
    <2>1. mid = l + r
      BY SMT DEF Mid, Side
    <2>2. (l + r + (l - r)) \div 2 = l /\ (l + r - (l - r)) \div 2 = r
      BY SMT
    <2>3. (mid + Side(l, r)) \div 2 = l /\ (mid - Side(l, r)) \div 2 = r
      BY <2>1, <2>2 DEF Side
    <2> QED
      BY <2>3 DEF Undo
  <1>4. Undo("independent", l, r) = <<l, r>>
    BY DEF Undo
  <1> QED
    BY <1>1, <1>2, <1>3, <1>4

\* Two channels of one length
Stereo(s) == /\ s[1] \in Seq(Int) /\ s[2] \in Seq(Int)
             /\ Len(s[1]) = Len(s[2])

\* The buffers of middle and side are those of the buffers of left and right.
Joint(left_right, ms) ==
    WithMidSide =>
        /\ Stereo(ms) /\ Len(ms[1]) = Len(left_right[1])
        /\ \A i \in 1..Len(left_right[1]) :
              /\ ms[1][i] = Mid(left_right[1][i], left_right[2][i])
              /\ ms[2][i] = Side(left_right[1][i], left_right[2][i])

\* A frame decodes to the samples it was made of, in whatever way its channels are
\* coded and however many bits of them are wasted.
LEMMA FramesGiveBack ==
    ASSUME NEW left_right, NEW ms, NEW n \in Nat, NEW bytes,
           NEW assignment \in Assignments,
           Stereo(left_right), n <= Len(left_right[1]), Joint(left_right, ms)
    PROVE  Decoded(FrameOf(left_right, ms, n, assignment, bytes))
               = [i \in 1..n |-> <<left_right[1][i], left_right[2][i]>>]
  <1> DEFINE coded == Coding(assignment, left_right, ms)
             frame == FrameOf(left_right, ms, n, assignment, bytes)
             value(c, i) == frame.subframes[c].signal[i] * 2^frame.subframes[c].wasted
  <1>1. assignment \in {"independent", "mid_side", "left_side", "right_side"}
        /\ (assignment # "independent" => WithMidSide)
    BY DEF Assignments, DoMidSide, DoIndependent, WithMidSide
  <1>2. \A c \in Channels : coded[c] \in Seq(Int) /\ n <= Len(coded[c])
    BY SMTT(30), <1>1 DEF Coding, Joint, Stereo, Channels
  <1>3. frame.size = n /\ frame.assignment = assignment
        /\ \A c \in Channels : frame.subframes[c] = Subframe(coded[c], n)
    BY DEF FrameOf
  <1>4. \A c \in Channels : \A i \in 1..n : value(c, i) = coded[c][i]
    BY <1>2, <1>3, SubframeGivesBack
  <1> HIDE DEF value, coded, frame
  <1>5. ASSUME NEW i \in 1..n
        PROVE  Undo(assignment, value(1, i), value(2, i)) = <<left_right[1][i], left_right[2][i]>>
    <2> DEFINE l == left_right[1][i]
               r == left_right[2][i]
    <2>1. l \in Int /\ r \in Int
      BY DEF Stereo
    <2>2. value(1, i) = coded[1][i] /\ value(2, i) = coded[2][i]
      BY <1>4 DEF Channels
    <2>3. WithMidSide => ms[1][i] = Mid(l, r) /\ ms[2][i] = Side(l, r)
      BY DEF Joint
    <2>4. CASE assignment = "independent"
      <3>1. coded[1][i] = l /\ coded[2][i] = r
        BY <2>4 DEF Coding, coded
      <3> QED
        BY <2>1, <2>2, <2>4, <3>1, StereoIsUndone
    <2>5. CASE assignment = "left_side"
      <3>1. coded[1][i] = l /\ coded[2][i] = Side(l, r)
        BY <1>1, <2>3, <2>5 DEF Coding, coded
      <3>2. Undo(assignment, value(1, i), value(2, i)) = Undo("left_side", l, Side(l, r))
        BY <2>2, <2>5, <3>1
      <3> QED
        BY <2>1, <3>2, StereoIsUndone
    <2>6. CASE assignment = "right_side"
      <3>1. coded[1][i] = Side(l, r) /\ coded[2][i] = r
        BY <1>1, <2>3, <2>6 DEF Coding, coded
      <3>2. Undo(assignment, value(1, i), value(2, i)) = Undo("right_side", Side(l, r), r)
        BY <2>2, <2>6, <3>1
      <3> QED
        BY <2>1, <3>2, StereoIsUndone
    <2>7. CASE assignment = "mid_side"
      <3>1. coded[1][i] = Mid(l, r) /\ coded[2][i] = Side(l, r)
        BY <1>1, <2>3, <2>7 DEF Coding, coded
      <3>2. Undo(assignment, value(1, i), value(2, i)) = Undo("mid_side", Mid(l, r), Side(l, r))
        BY <2>2, <2>7, <3>1
      <3> QED
        BY <2>1, <3>2, StereoIsUndone
    <2> QED
      BY <1>1, <2>4, <2>5, <2>6, <2>7
  <1>6. Decoded(frame) = [i \in 1..frame.size |-> Undo(frame.assignment, value(1, i), value(2, i))]
    BY DEF Decoded, value
  <1>7. [i \in 1..n |-> Undo(assignment, value(1, i), value(2, i))]
           = [i \in 1..n |-> <<left_right[1][i], left_right[2][i]>>]
    BY <1>5
  <1> QED
    BY <1>3, <1>6, <1>7 DEF frame

\* Two channels of one length are a sequence of pairs.
LEMMA PairsProperties ==
    ASSUME NEW s, Stereo(s)
    PROVE  /\ Pairs(s) \in Seq(Pair) /\ Len(Pairs(s)) = Len(s[1])
           /\ \A i \in 1..Len(s[1]) : Pairs(s)[i] = <<s[1][i], s[2][i]>>
  <1>1. Len(s[1]) \in Nat /\ \A i \in 1..Len(s[1]) : <<s[1][i], s[2][i]>> \in Pair
    BY DEF Stereo, Pair
  <1>2. Pairs(s) \in [1..Len(s[1]) -> Pair]
    BY <1>1 DEF Pairs
  <1>3. Pairs(s) \in Seq(Pair)
    BY <1>1, <1>2, SeqDef
  <1>4. Len(Pairs(s)) = Len(s[1])
    BY <1>1, <1>2, <1>3
  <1> QED
    BY <1>3, <1>4 DEF Pairs

\* A frame that is taken holds the front of what was buffered; what is left in the
\* FIFO is the rest, and verification never finds anything.
LEMMA FrameStep ==
    ASSUME NEW left_right, NEW ms, NEW n \in Nat, state = "OK",
           Stereo(left_right), n <= Len(left_right[1]), Joint(left_right, ms),
           ProcessFrame(left_right, ms, Pairs(left_right), n)
    PROVE  /\ state' # "VERIFY_MISMATCH_IN_AUDIO_DATA"
           /\ fifo' \in {Pairs(left_right), SubSeq(Pairs(left_right), n + 1, Len(left_right[1]))}
           /\ state' = "OK" =>
                 /\ fifo' = SubSeq(Pairs(left_right), n + 1, Len(left_right[1]))
                 /\ audio' = audio \o SubSeq(Pairs(left_right), 1, n)
  <1> DEFINE input == Pairs(left_right)
             rest == SubSeq(input, n + 1, Len(left_right[1]))
             frame(assignment, bytes) == FrameOf(left_right, ms, n, assignment, bytes)
  <1>1. \A assignment \in Assignments : \A bytes \in FrameSizes :
            Decoded(frame(assignment, bytes)) = SubSeq(input, 1, n)
    <2>1. SubSeq(input, 1, n) = [i \in 1..n |-> <<left_right[1][i], left_right[2][i]>>]
      <3>1. \A i \in 1..n : input[i] = <<left_right[1][i], left_right[2][i]>> /\ input[i] \in Pair
        <4>1. /\ input \in Seq(Pair) /\ Len(input) = Len(left_right[1])
              /\ \A i \in 1..Len(left_right[1]) : input[i] = <<left_right[1][i], left_right[2][i]>>
          BY PairsProperties
        <4>2. Len(left_right[1]) \in Nat
          BY DEF Stereo
        <4> HIDE DEF input
        <4> QED
          BY <4>1, <4>2
      <3>2. SubSeq(input, 1, n) \in Seq(Pair) /\ Len(SubSeq(input, 1, n)) = n
            /\ \A i \in 1..n : SubSeq(input, 1, n)[i] = input[i]
        BY <3>1, SubSeqProperties
      <3> HIDE DEF input
      <3>3. SubSeq(input, 1, n) \in [1..n -> Pair]
        BY <3>2, LenProperties
      <3> QED
        BY <3>1, <3>2, <3>3
    <2>2. ASSUME NEW assignment \in Assignments, NEW bytes \in FrameSizes
          PROVE  Decoded(frame(assignment, bytes))
                     = [i \in 1..n |-> <<left_right[1][i], left_right[2][i]>>]
      BY FramesGiveBack
    <2> QED
      BY <2>1, <2>2
  <1>2. Len(input) = Len(left_right[1])
    BY PairsProperties
  <1>3. \/ state' \in OutOfMemory /\ fifo' = input
        \/ \E assignment \in Assignments, bytes \in FrameSizes :
              \/ Decoded(frame(assignment, bytes)) # SubSeq(input, 1, n)
              \/ /\ fifo' = SubSeq(input, n + 1, Len(input))
                 /\ \/ state' = "CLIENT_ERROR"
                    \/ state' = state /\ audio' = audio \o Decoded(frame(assignment, bytes))
    BY DEF ProcessFrame
  <1> HIDE DEF input, frame
  <1>4. \/ state' \in OutOfMemory /\ fifo' = input
        \/ /\ fifo' = SubSeq(input, n + 1, Len(input))
           /\ \/ state' = "CLIENT_ERROR"
              \/ state' = "OK" /\ audio' = audio \o SubSeq(input, 1, n)
    BY <1>1, <1>3
  <1> QED
    BY <1>2, <1>4 DEF OutOfMemory, input

\* What a turn takes goes behind what is buffered, in all four buffers.
LEMMA Taking ==
    ASSUME NEW taken \in Seq(Pair), Stereo(signal), Joint(signal, mid_side)
    PROVE  /\ Stereo(WithLeftRight(taken))
           /\ Len(WithLeftRight(taken)[1]) = Buffered + Len(taken)
           /\ Joint(WithLeftRight(taken), WithMidAndSide(taken))
           /\ Pairs(WithLeftRight(taken)) = Pairs(signal) \o taken
  <1> DEFINE n == Len(taken)
             channel(c) == [i \in 1..n |-> taken[i][c]]
             lr == WithLeftRight(taken)
             ms == WithMidAndSide(taken)
  <1>1. n \in Nat /\ \A i \in 1..n : taken[i] \in Pair
    OBVIOUS
  <1>2. \A i \in 1..n : taken[i][1] \in Int /\ taken[i][2] \in Int
                        /\ taken[i] = <<taken[i][1], taken[i][2]>>
    BY <1>1 DEF Pair
  <1>3. \A c \in Channels : channel(c) \in Seq(Int) /\ Len(channel(c)) = n
                            /\ \A i \in 1..n : channel(c)[i] = taken[i][c]
    <2> TAKE c \in Channels
    <2>1. channel(c) \in [1..n -> Int]
      BY <1>2 DEF Channels
    <2>2. channel(c) \in Seq(Int)
      BY <1>1, <2>1, SeqDef
    <2> QED
      BY <1>1, <2>1, <2>2
  <1>4. \A c \in Channels : signal[c] \in Seq(Int) /\ Len(signal[c]) = Buffered
    BY DEF Stereo, Channels, Buffered
  <1>5. \A c \in Channels : lr[c] = signal[c] \o channel(c)
    BY DEF WithLeftRight
  <1> HIDE DEF channel, lr, ms, n
  <1>6. \A c \in Channels :
            /\ lr[c] \in Seq(Int) /\ Len(lr[c]) = Buffered + n
            /\ \A i \in 1..(Buffered + n) :
                  lr[c][i] = IF i <= Buffered THEN signal[c][i] ELSE taken[i - Buffered][c]
    <2> TAKE c \in Channels
    <2>1. /\ signal[c] \in Seq(Int) /\ Len(signal[c]) = Buffered
          /\ channel(c) \in Seq(Int) /\ Len(channel(c)) = n /\ lr[c] = signal[c] \o channel(c)
      BY <1>3, <1>4, <1>5
    <2>2. /\ lr[c] \in Seq(Int) /\ Len(lr[c]) = Buffered + n
          /\ \A i \in 1..(Buffered + n) :
                lr[c][i] = IF i <= Buffered THEN signal[c][i] ELSE channel(c)[i - Buffered]
      <3> DEFINE both == signal[c] \o channel(c)
      <3>1. /\ both \in Seq(Int) /\ Len(both) = Len(signal[c]) + Len(channel(c))
            /\ \A i \in 1..(Len(signal[c]) + Len(channel(c))) :
                  both[i] = IF i <= Len(signal[c]) THEN signal[c][i]
                            ELSE channel(c)[i - Len(signal[c])]
        BY <2>1, ConcatProperties
      <3>2. lr[c] = both
        BY <2>1
      <3> HIDE DEF both
      <3> QED
        BY <2>1, <3>1, <3>2
    <2>3. Buffered \in Nat
      BY <2>1
    <2>4. \A i \in 1..(Buffered + n) : ~(i <= Buffered) =>
              i - Buffered \in 1..n /\ channel(c)[i - Buffered] = taken[i - Buffered][c]
      BY <1>1, <1>3, <2>3 DEF n
    <2> QED
      BY <2>2, <2>4
  <1>7. Stereo(lr) /\ Len(lr[1]) = Buffered + n
    BY <1>6 DEF Stereo, Channels
  <1>8. Pairs(lr) = Pairs(signal) \o taken
    <2>1. Pairs(lr) \in Seq(Pair) /\ Len(Pairs(lr)) = Buffered + n
          /\ \A i \in 1..(Buffered + n) : Pairs(lr)[i] = <<lr[1][i], lr[2][i]>>
      BY <1>7, PairsProperties
    <2>2. Pairs(signal) \in Seq(Pair) /\ Len(Pairs(signal)) = Buffered
          /\ \A i \in 1..Buffered : Pairs(signal)[i] = <<signal[1][i], signal[2][i]>>
      BY PairsProperties DEF Buffered
    <2> DEFINE both == Pairs(signal) \o taken
    <2>3. both \in Seq(Pair) /\ Len(both) = Buffered + n
          /\ \A i \in 1..(Buffered + n) :
                both[i] = IF i <= Buffered THEN Pairs(signal)[i] ELSE taken[i - Buffered]
      BY <2>2, ConcatProperties DEF n
    <2>4. ASSUME NEW i \in 1..(Buffered + n) PROVE Pairs(lr)[i] = both[i]
      <3>1. Pairs(lr)[i] = <<lr[1][i], lr[2][i]>>
        BY <2>1
      <3>2. CASE i <= Buffered
        <4>1. lr[1][i] = signal[1][i] /\ lr[2][i] = signal[2][i]
          BY <1>6, <3>2 DEF Channels
        <4>2. both[i] = <<signal[1][i], signal[2][i]>>
          BY <1>4, <2>2, <2>3, <3>2 DEF Channels
        <4> QED
          BY <3>1, <4>1, <4>2
      <3>3. CASE ~(i <= Buffered)
        <4>1. lr[1][i] = taken[i - Buffered][1] /\ lr[2][i] = taken[i - Buffered][2]
          BY <1>6, <3>3 DEF Channels
        <4>2. both[i] = taken[i - Buffered]
          BY <2>3, <3>3
        <4>3. i - Buffered \in 1..n
          BY <1>1, <1>4, <3>3 DEF Channels, n
        <4> QED
          BY <1>2, <3>1, <4>1, <4>2, <4>3 DEF n
      <3> QED
        BY <3>2, <3>3
    <2> HIDE DEF both
    <2>5. Pairs(lr) = both
      BY <2>1, <2>3, <2>4, SeqEqual
    <2> QED
      BY <2>5 DEF both
  <1>9. Joint(lr, ms)
    <2> SUFFICES ASSUME WithMidSide PROVE
             /\ Stereo(ms) /\ Len(ms[1]) = Len(lr[1])
             /\ \A i \in 1..Len(lr[1]) : ms[1][i] = Mid(lr[1][i], lr[2][i])
                                         /\ ms[2][i] = Side(lr[1][i], lr[2][i])
      BY DEF Joint
    <2> DEFINE mids == [i \in 1..n |-> Mid(taken[i][1], taken[i][2])]
               sides == [i \in 1..n |-> Side(taken[i][1], taken[i][2])]
    <2>1. ms[1] = mid_side[1] \o mids /\ ms[2] = mid_side[2] \o sides
      BY DEF ms, WithMidAndSide, n
    <2>2. /\ mid_side[1] \in Seq(Int) /\ Len(mid_side[1]) = Buffered
          /\ mid_side[2] \in Seq(Int) /\ Len(mid_side[2]) = Buffered
          /\ \A i \in 1..Buffered :
                /\ mid_side[1][i] = Mid(signal[1][i], signal[2][i])
                /\ mid_side[2][i] = Side(signal[1][i], signal[2][i])
      BY DEF Joint, Stereo, Buffered
    <2>3. /\ mids \in Seq(Int) /\ Len(mids) = n /\ sides \in Seq(Int) /\ Len(sides) = n
          /\ \A i \in 1..n : mids[i] = Mid(taken[i][1], taken[i][2])
                              /\ sides[i] = Side(taken[i][1], taken[i][2])
      <3>1. \A i \in 1..n : Mid(taken[i][1], taken[i][2]) \in Int
                            /\ Side(taken[i][1], taken[i][2]) \in Int
        BY <1>2 DEF Mid, Side, n
      <3>2. mids \in [1..n -> Int] /\ sides \in [1..n -> Int]
        BY <3>1
      <3>3. mids \in Seq(Int) /\ sides \in Seq(Int)
        BY <1>1, <3>2, SeqDef DEF n
      <3> QED
        BY <1>1, <3>2, <3>3 DEF n
    <2> HIDE DEF mids, sides
    <2>4. /\ ms[1] \in Seq(Int) /\ Len(ms[1]) = Buffered + n
          /\ ms[2] \in Seq(Int) /\ Len(ms[2]) = Buffered + n
          /\ \A i \in 1..(Buffered + n) :
                /\ ms[1][i] = IF i <= Buffered THEN mid_side[1][i] ELSE mids[i - Buffered]
                /\ ms[2][i] = IF i <= Buffered THEN mid_side[2][i] ELSE sides[i - Buffered]
      <3>1. /\ ms[1] \in Seq(Int) /\ Len(ms[1]) = Buffered + n
            /\ \A i \in 1..(Buffered + n) :
                  ms[1][i] = IF i <= Buffered THEN mid_side[1][i] ELSE mids[i - Buffered]
        <4> DEFINE both == mid_side[1] \o mids
        <4>1. /\ both \in Seq(Int) /\ Len(both) = Len(mid_side[1]) + Len(mids)
              /\ \A i \in 1..(Len(mid_side[1]) + Len(mids)) :
                    both[i] = IF i <= Len(mid_side[1]) THEN mid_side[1][i]
                              ELSE mids[i - Len(mid_side[1])]
          BY ZenonT(30), <2>2, <2>3, ConcatProperties
        <4> HIDE DEF both
        <4> QED
          BY <2>1, <2>2, <2>3, <4>1 DEF both
      <3>2. /\ ms[2] \in Seq(Int) /\ Len(ms[2]) = Buffered + n
            /\ \A i \in 1..(Buffered + n) :
                  ms[2][i] = IF i <= Buffered THEN mid_side[2][i] ELSE sides[i - Buffered]
        <4> DEFINE both == mid_side[2] \o sides
        <4>1. /\ both \in Seq(Int) /\ Len(both) = Len(mid_side[2]) + Len(sides)
              /\ \A i \in 1..(Len(mid_side[2]) + Len(sides)) :
                    both[i] = IF i <= Len(mid_side[2]) THEN mid_side[2][i]
                              ELSE sides[i - Len(mid_side[2])]
          BY ZenonT(30), <2>2, <2>3, ConcatProperties
        <4> HIDE DEF both
        <4> QED
          BY <2>1, <2>2, <2>3, <4>1 DEF both
      <3> QED
        BY <3>1, <3>2
    <2>5. ASSUME NEW i \in 1..(Buffered + n)
          PROVE  /\ ms[1][i] = Mid(lr[1][i], lr[2][i])
                 /\ ms[2][i] = Side(lr[1][i], lr[2][i])
      <3>1. CASE i <= Buffered
        <4>1. lr[1][i] = signal[1][i] /\ lr[2][i] = signal[2][i]
          BY SMTT(30), <1>6, <3>1 DEF Channels
        <4>2. i \in 1..Buffered
          BY <1>4, <3>1 DEF Channels
        <4> QED
          BY <2>2, <2>4, <3>1, <4>1, <4>2
      <3>2. CASE ~(i <= Buffered)
        <4>1. lr[1][i] = taken[i - Buffered][1] /\ lr[2][i] = taken[i - Buffered][2]
          BY SMTT(30), <1>6, <3>2 DEF Channels
        <4>2. i - Buffered \in 1..n
          BY <1>1, <1>4, <3>2 DEF Channels, n
        <4> QED
          BY <2>3, <2>4, <3>2, <4>1, <4>2
      <3> QED
        BY <3>1, <3>2
    <2> QED
      BY <1>7, <2>4, <2>5 DEF Stereo
  <1> QED
    BY <1>7, <1>8, <1>9 DEF lr, ms, n

\* The sample behind the block begins all buffers, whichever of them were shifted.
LEMMA Overread ==
    ASSUME NEW left_right, NEW ms, NEW lr_coded, NEW ms_coded,
           Stereo(left_right), Len(left_right[1]) = Blocksize + 1, Joint(left_right, ms),
           MoveOverread(InPlace(left_right, lr_coded), InPlace(ms, ms_coded)),
           UNCHANGED encode
    PROVE  /\ Stereo(signal') /\ Len(signal'[1]) = 1 /\ Joint(signal, mid_side)'
           /\ Pairs(signal') = SubSeq(Pairs(left_right), Blocksize + 1, Blocksize + 1)
  <1> DEFINE n == Blocksize + 1
             l == left_right[1][n]
             r == left_right[2][n]
  <1>1. n \in Nat /\ n >= 1 /\ Blocksize \in Nat
    BY EncoderAssumption
  <1>2. /\ left_right[1] \in Seq(Int) /\ Len(left_right[1]) = n
        /\ left_right[2] \in Seq(Int) /\ Len(left_right[2]) = n
    BY DEF Stereo
  <1> HIDE DEF n
  <1>3. l \in Int /\ r \in Int
    BY <1>1, <1>2
  <1>4. ASSUME NEW s, NEW coded, NEW c \in Channels, s[c] \in Seq(Int), Len(s[c]) = n
        PROVE  InPlace(s, coded)[c][n] = s[c][n]
    <2>1. CASE coded
      <3>1. InPlace(s, coded)[c] = Shifted(s[c], Blocksize)
        BY <2>1 DEF InPlace
      <3>2. n \in DOMAIN s[c] /\ ~(n <= Blocksize)
        BY <1>1, <1>4 DEF n
      <3> QED
        BY <3>1, <3>2 DEF Shifted
    <2>2. CASE ~coded
      BY <2>2 DEF InPlace
    <2> QED
      BY <2>1, <2>2
  <1>5. InPlace(left_right, lr_coded)[1][n] = l /\ InPlace(left_right, lr_coded)[2][n] = r
    BY <1>2, <1>4 DEF Channels
  <1>6. signal' = [c \in Channels |-> <<InPlace(left_right, lr_coded)[c][n]>>]
    BY DEF MoveOverread, n
  <1>7. signal'[1] = <<l>> /\ signal'[2] = <<r>>
    BY <1>5, <1>6 DEF Channels
  <1> HIDE DEF l, r
  <1>8. Stereo(signal') /\ Len(signal'[1]) = 1
    BY <1>3, <1>7 DEF Stereo
  <1>9. Pairs(signal') = SubSeq(Pairs(left_right), n, n)
    <2> DEFINE whole == Pairs(left_right)
               one == SubSeq(whole, n, n)
               moved == Pairs(signal')
    <2>1. whole \in Seq(Pair) /\ whole[n] = <<l, r>>
      BY <1>1, <1>2, PairsProperties DEF l, r
    <2>2. <<l, r>> \in Pair
      BY <1>3 DEF Pair
    <2>3. \A i \in n..n : whole[i] \in Pair
      BY <1>1, <2>1, <2>2
    <2> HIDE DEF whole
    <2>4. one \in Seq(Pair) /\ Len(one) = 1 /\ one[1] = whole[n]
      <3>1. /\ one \in Seq(Pair) /\ Len(one) = IF n <= n THEN n - n + 1 ELSE 0
            /\ \A i \in 1..(n - n + 1) : one[i] = whole[n + i - 1]
        BY <1>1, <2>3, SubSeqProperties
      <3> QED
        BY <1>1, <3>1
    <2>5. moved \in Seq(Pair) /\ Len(moved) = 1 /\ moved[1] = <<l, r>>
      <3>1. /\ moved \in Seq(Pair) /\ Len(moved) = Len(signal'[1])
            /\ \A i \in 1..Len(signal'[1]) : moved[i] = <<signal'[1][i], signal'[2][i]>>
        BY <1>8, PairsProperties
      <3>2. 1 \in 1..Len(signal'[1])
        BY <1>8
      <3>3. moved[1] = <<signal'[1][1], signal'[2][1]>>
        BY <3>1, <3>2
      <3>4. signal'[1][1] = l /\ signal'[2][1] = r
        BY <1>7
      <3> QED
        BY <1>8, <3>1, <3>3, <3>4
    <2> HIDE DEF moved, one
    <2>6. moved = one
      BY SMTT(30), <2>1, <2>4, <2>5, SeqEqual
    <2> QED
      BY <2>6 DEF moved, one, whole
  <1>10. Joint(signal, mid_side)'
    <2>1. WithMidSide' = WithMidSide
      BY DEF WithMidSide, stereo
    <2> SUFFICES ASSUME WithMidSide PROVE
             /\ Stereo(mid_side') /\ Len(mid_side'[1]) = 1
             /\ mid_side'[1][1] = Mid(l, r) /\ mid_side'[2][1] = Side(l, r)
      BY <1>7, <1>8, <2>1 DEF Joint, Stereo
    <2>2. /\ ms[1] \in Seq(Int) /\ Len(ms[1]) = n /\ ms[2] \in Seq(Int) /\ Len(ms[2]) = n
          /\ ms[1][n] = Mid(l, r) /\ ms[2][n] = Side(l, r)
      BY <1>1, <1>2 DEF Joint, Stereo, l, r
    <2>3. mid_side' = [c \in Channels |-> <<InPlace(ms, ms_coded)[c][n]>>]
      BY DEF MoveOverread, n
    <2>4. InPlace(ms, ms_coded)[1][n] = ms[1][n] /\ InPlace(ms, ms_coded)[2][n] = ms[2][n]
      BY <1>4, <2>2 DEF Channels
    <2>5. mid_side'[1] = <<Mid(l, r)>> /\ mid_side'[2] = <<Side(l, r)>>
      BY <2>2, <2>3, <2>4 DEF Channels
    <2>6. Mid(l, r) \in Int /\ Side(l, r) \in Int
      BY <1>3 DEF Mid, Side
    <2> QED
      BY <2>5, <2>6 DEF Stereo
  <1> QED
    BY <1>8, <1>9, <1>10 DEF n

\* A part of a part of a sequence
LEMMA Cut ==
    ASSUME NEW S, NEW s \in Seq(S), NEW a \in Nat, NEW b \in Nat, a <= b, b <= Len(s),
           NEW m \in Nat, NEW n \in Nat, m <= n, n <= b - a
    PROVE  SubSeq(SubSeq(s, a + 1, b), m + 1, n) = SubSeq(s, a + m + 1, a + n)
  <1> DEFINE whole == SubSeq(s, a + 1, b)
             part == SubSeq(whole, m + 1, n)
             direct == SubSeq(s, a + m + 1, a + n)
  <1>1. \A i \in 1..Len(s) : s[i] \in S
    OBVIOUS
  <1>2. whole \in Seq(S) /\ Len(whole) = b - a /\ \A i \in 1..(b - a) : whole[i] = s[a + i]
    <2>1. \A i \in (a + 1)..b : s[i] \in S
      BY <1>1
    <2>2. /\ whole \in Seq(S) /\ Len(whole) = IF a + 1 <= b THEN b - (a + 1) + 1 ELSE 0
          /\ \A i \in 1..(b - (a + 1) + 1) : whole[i] = s[a + 1 + i - 1]
      BY <2>1, SubSeqProperties
    <2> HIDE DEF whole
    <2> QED
      BY <2>2
  <1>3. direct \in Seq(S) /\ Len(direct) = n - m /\ \A i \in 1..(n - m) : direct[i] = s[a + m + i]
    <2>1. \A i \in (a + m + 1)..(a + n) : s[i] \in S
      BY <1>1
    <2>2. /\ direct \in Seq(S)
          /\ Len(direct) = IF a + m + 1 <= a + n THEN (a + n) - (a + m + 1) + 1 ELSE 0
          /\ \A i \in 1..((a + n) - (a + m + 1) + 1) : direct[i] = s[a + m + 1 + i - 1]
      BY <2>1, SubSeqProperties
    <2> HIDE DEF direct
    <2> QED
      BY <2>2
  <1> HIDE DEF whole
  <1>4. part \in Seq(S) /\ Len(part) = n - m /\ \A i \in 1..(n - m) : part[i] = whole[m + i]
    <2>1. \A i \in (m + 1)..n : whole[i] \in S
      BY <1>2
    <2>2. /\ part \in Seq(S) /\ Len(part) = IF m + 1 <= n THEN n - (m + 1) + 1 ELSE 0
          /\ \A i \in 1..(n - (m + 1) + 1) : part[i] = whole[m + 1 + i - 1]
      BY SMTT(30), <2>1, SubSeqProperties
    <2> HIDE DEF part
    <2> QED
      BY <2>2
  <1> HIDE DEF part, direct
  <1>5. \A i \in 1..(n - m) : part[i] = direct[i]
    <2> TAKE i \in 1..(n - m)
    <2>1. m + i \in 1..(b - a) /\ a + (m + i) = a + m + i
      OBVIOUS
    <2>2. part[i] = s[a + (m + i)]
      BY <1>2, <1>4, <2>1
    <2> QED
      BY <1>3, <2>1, <2>2
  <1>6. part = direct
    BY <1>3, <1>4, <1>5, SeqEqual
  <1> QED
    BY <1>6 DEF part, direct, whole

\* What Min is of two numbers
LEMMA LeastOfTwo ==
    ASSUME NEW a \in Int, NEW b \in Int
    PROVE  /\ Min({a, b}) \in {a, b}
           /\ Min({a, b}) <= a /\ Min({a, b}) <= b
  <1>1. CASE a <= b
    <2>1. a \in {a, b} /\ \A y \in {a, b} : a =< y
      BY <1>1
    <2> QED
      BY <2>1 DEF Min
  <1>2. CASE ~(a <= b)
    <2>1. b \in {a, b} /\ \A y \in {a, b} : b =< y
      BY <1>2
    <2> QED
      BY <2>1 DEF Min
  <1> QED
    BY <1>1, <1>2

-------------------------------------------------------------------------------
(* No sample is lost *)

\* What my_EncodeDemo has read and not yet handed on is the song up to where it is.
Input ==
    /\ at \in 0..Len(song)
    /\ buffer \in Seq(Pair) /\ Len(buffer) <= at
    /\ buffer = SubSeq(song, at - Len(buffer) + 1, at)

\* What is buffered is in the FIFO, too, and continues what was passed on.
Carried ==
    /\ Stereo(signal) /\ Buffered <= Blocksize /\ Joint(signal, mid_side)
    /\ fifo = Pairs(signal)
    /\ audio \in Seq(Pair) /\ audio \o fifo = Given

\* Before the first block is read and between blocks; while the encoder must be OK;
\* while its buffers are looked at
BeforeTurns == {"open", "magic", "streaminfo", "blocks", "padding", "read"}
Running == {"magic", "streaminfo", "blocks", "padding", "read", "process"}
Live == state = "OK" \/ pc = "open"

\* The inductive invariant. It says nothing of the buffers of an encoder that is not OK,
\* which are not looked at again.
LosslessInv ==
    /\ encode \in Encodes
    /\ state # "VERIFY_MISMATCH_IN_AUDIO_DATA" /\ Len(fifo) <= Blocksize + 1
    /\ pc \in Running => state = "OK"
    /\ Live => /\ Input /\ Carried
               /\ pc \in BeforeTurns => buffer = <<>>

\* What the constants say of the song
LEMMA SongProperties == encode \in Encodes => song \in Seq(Pair) /\ Len(song) \in Nat
                                              /\ encode.readsize \in Nat \ {0}
  <1> SUFFICES ASSUME encode \in Encodes
               PROVE  song \in Seq(Pair) /\ Len(song) \in Nat /\ encode.readsize \in Nat \ {0}
    OBVIOUS
  <1>1. song \in Seq(Pair) /\ encode.readsize \in Nat \ {0}
    BY EncoderAssumption DEF song, Pair
  <1> QED
    BY <1>1

\* Nothing is read, buffered or passed on yet.
LEMMA LosslessInit == Init => LosslessInv
  <1> SUFFICES ASSUME Init PROVE LosslessInv
    OBVIOUS
  <1>1. encode \in Encodes /\ state = "UNINITIALIZED" /\ pc = "open"
        /\ at = 0 /\ buffer = <<>> /\ signal = Empty /\ mid_side = Empty
        /\ fifo = <<>> /\ audio = <<>>
    BY DEF Init
  <1>2. song \in Seq(Pair) /\ Len(song) \in Nat
    BY <1>1, SongProperties
  <1>3. Input
    <2>1. SubSeq(song, 1, 0) = <<>>
      BY SubSeqEmpty
    <2>2. at - Len(buffer) + 1 = 1 /\ buffer \in Seq(Pair) /\ Len(buffer) = 0
      BY <1>1
    <2> QED
      BY <1>1, <1>2, <2>1, <2>2 DEF Input
  <1>4. Carried
    <2>1. signal[1] = <<>> /\ signal[2] = <<>> /\ mid_side[1] = <<>> /\ mid_side[2] = <<>>
      BY <1>1 DEF Empty, Channels
    <2>2. Stereo(signal) /\ Buffered = 0 /\ Joint(signal, mid_side) /\ Blocksize \in Nat
      BY <2>1, EncoderAssumption DEF Stereo, Joint, Buffered
    <2>3. Pairs(signal) = <<>>
      <3>1. Pairs(signal) \in Seq(Pair) /\ Len(Pairs(signal)) = 0
        BY <2>2, PairsProperties DEF Buffered
      <3> QED
        BY <3>1, EmptySeq
    <2>4. Given = <<>>
      <3>0. Len(buffer) = 0 /\ at = 0
        BY <1>1
      <3>1. at - Len(buffer) = 0
        BY <3>0
      <3>2. SubSeq(song, 1, 0) = <<>>
        BY SubSeqEmpty
      <3> QED
        BY <3>1, <3>2 DEF Given
    <2>5. audio \o fifo = <<>> /\ audio \in Seq(Pair)
      BY <1>1, ConcatEmptySeq, EmptySeq
    <2> QED
      BY <1>1, <2>2, <2>3, <2>4, <2>5 DEF Carried
  <1>5. Len(fifo) <= Blocksize + 1
    BY <1>1, EncoderAssumption
  <1> QED
    BY <1>1, <1>3, <1>4, <1>5 DEF LosslessInv, Running

\* A step that moves no sample
Idle ==
    /\ UNCHANGED <<encode, buffer, at, signal, mid_side, fifo, audio>>
    /\ state' # "VERIFY_MISMATCH_IN_AUDIO_DATA"
    /\ state' = "OK" => Live
    /\ pc' # "open" /\ (pc' \in Running => state' = "OK")
    /\ pc' \in BeforeTurns => pc \in BeforeTurns

\* Such a step changes nothing of what the invariant says.
LEMMA IdleStep == LosslessInv /\ Idle => LosslessInv'
  <1> SUFFICES ASSUME LosslessInv, Idle PROVE LosslessInv'
    OBVIOUS
  <1>1. UNCHANGED <<encode, buffer, at, signal, mid_side, fifo, audio>>
    BY DEF Idle
  <1>2. Input => Input'
    BY <1>1 DEF Input, song
  <1>3. Carried => Carried'
    BY <1>1 DEF Carried, Stereo, Joint, Pairs, Buffered, Given, song, WithMidSide, stereo
  <1>4. Live' => Live
    BY DEF Idle, Live
  <1> QED
    BY <1>1, <1>2, <1>3, <1>4 DEF LosslessInv, Idle

\* A block is read when all of the one before it was handed on.
LEMMA ReadStep == LosslessInv /\ ReadBlock => LosslessInv'
  <1> SUFFICES ASSUME LosslessInv, ReadBlock PROVE LosslessInv'
    OBVIOUS
  <1> DEFINE need == Min({encode.readsize, Len(song) - at})
  <1>1. /\ pc = "read" /\ at < Len(song)
        /\ UNCHANGED <<encode, state, signal, mid_side, fifo, audio>>
    BY DEF ReadBlock, frameVars, historyVars
  <1>2. /\ encode \in Encodes /\ state = "OK" /\ Input /\ Carried /\ buffer = <<>>
    BY <1>1 DEF LosslessInv, Live, Running, BeforeTurns
  <1>3. CASE pc' = "finish" /\ UNCHANGED <<buffer, at>>
    <2>1. Idle
      BY <1>1, <1>2, <1>3 DEF Idle, Live, BeforeTurns, Running
    <2> QED
      BY <2>1, IdleStep
  <1>4. CASE pc' = "process" /\ buffer' = SubSeq(song, at + 1, at + need) /\ at' = at + need
    <2>1. song \in Seq(Pair) /\ Len(song) \in Nat /\ encode.readsize \in Nat \ {0} /\ song' = song
      BY <1>1, <1>2, SongProperties DEF song
    <2>2. at \in Nat /\ need \in Nat /\ need <= Len(song) - at
      <3>1. at \in Nat /\ Len(song) - at \in Nat /\ Len(song) - at \in Int
            /\ encode.readsize \in Int
        BY <1>1, <1>2, <2>1 DEF Input
      <3> QED
        BY <2>1, <3>1, LeastOfTwo
    <2> HIDE DEF need
    <2>3. buffer' \in Seq(Pair) /\ Len(buffer') = need
      <3>1. \A i \in (at + 1)..(at + need) : song[i] \in Pair
        BY <2>1, <2>2
      <3> DEFINE part == SubSeq(song, at + 1, at + need)
      <3>2. /\ part \in Seq(Pair)
            /\ Len(part) = IF at + 1 <= at + need THEN (at + need) - (at + 1) + 1 ELSE 0
        BY <2>2, <3>1, SubSeqProperties
      <3> HIDE DEF part
      <3>3. Len(part) = need
        BY <2>2, <3>2
      <3> QED
        BY <1>4, <3>2, <3>3 DEF part
    <2>4. at' - Len(buffer') = at
      BY <1>4, <2>2, <2>3
    <2>5. Input'
      <3>1. at' \in 0..Len(song) /\ Len(buffer') <= at'
        BY <1>4, <2>1, <2>2, <2>3
      <3>2. buffer' = SubSeq(song, at' - Len(buffer') + 1, at')
        BY <1>4, <2>4
      <3> QED
        BY <2>1, <2>3, <3>1, <3>2 DEF Input
    <2>6. Given' = Given
      <3>1. at - Len(buffer) = at
        BY <1>2, <2>2
      <3> QED
        BY <2>1, <2>4, <3>1 DEF Given
    <2>7. Carried'
      BY <1>1, <1>2, <2>6 DEF Carried, Stereo, Joint, Pairs, Buffered, WithMidSide, stereo
    <2> QED
      BY <1>1, <1>2, <1>4, <2>5, <2>7 DEF LosslessInv, Live, BeforeTurns, Running
  <1> QED
    BY <1>3, <1>4 DEF ReadBlock

\* A frame of what is buffered and was given by the song. What is left when it is
\* passed on need not be looked at here.
LEMMA FrameKeepsFifo ==
    ASSUME NEW left_right, NEW ms, NEW n \in Nat, state = "OK",
           Stereo(left_right), n <= Len(left_right[1]), Joint(left_right, ms),
           Len(left_right[1]) <= Blocksize + 1,
           ProcessFrame(left_right, ms, Pairs(left_right), n)
    PROVE  state' # "VERIFY_MISMATCH_IN_AUDIO_DATA" /\ Len(fifo') <= Blocksize + 1
  <1> DEFINE input == Pairs(left_right)
             rest == SubSeq(input, n + 1, Len(left_right[1]))
  <1>1. state' # "VERIFY_MISMATCH_IN_AUDIO_DATA" /\ fifo' \in {input, rest}
    BY FrameStep
  <1>2. input \in Seq(Pair) /\ Len(input) = Len(left_right[1]) /\ Len(input) \in Nat
    BY PairsProperties
  <1> HIDE DEF input
  <1>3. \A i \in (n + 1)..Len(left_right[1]) : input[i] \in Pair
    BY <1>2
  <1>4. Len(rest) = IF n + 1 <= Len(left_right[1]) THEN Len(left_right[1]) - (n + 1) + 1 ELSE 0
    BY <1>2, <1>3, SubSeqProperties
  <1> HIDE DEF rest
  <1> QED
    BY <1>1, <1>2, <1>4, EncoderAssumption

\* What is left of what was read continues what a turn takes of it.
LEMMA Advance ==
    ASSUME encode \in Encodes, Input, NEW n \in Nat, n <= Len(buffer),
           UNCHANGED <<encode, at>>, buffer' = SubSeq(buffer, n + 1, Len(buffer))
    PROVE  /\ SubSeq(buffer, 1, n) \in Seq(Pair) /\ Len(SubSeq(buffer, 1, n)) = n
           /\ Input' /\ Given' = Given \o SubSeq(buffer, 1, n)
  <1> DEFINE taken == SubSeq(buffer, 1, n)
             rest == SubSeq(buffer, n + 1, Len(buffer))
             from == at - Len(buffer)
  <1>1. /\ song \in Seq(Pair) /\ Len(song) \in Nat /\ song' = song
        /\ at \in Nat /\ at <= Len(song)
        /\ buffer \in Seq(Pair) /\ Len(buffer) \in Nat /\ from \in Nat
        /\ buffer = SubSeq(song, from + 1, at)
    BY SongProperties DEF Input, song
  <1>2. taken \in Seq(Pair) /\ Len(taken) = n
    <2>1. \A i \in 1..n : buffer[i] \in Pair
      BY <1>1
    <2>2. taken \in Seq(Pair) /\ Len(taken) = IF 1 <= n THEN n - 1 + 1 ELSE 0
      BY <2>1, SubSeqProperties
    <2> HIDE DEF taken
    <2> QED
      BY <2>2
  <1>3. rest \in Seq(Pair) /\ Len(rest) = Len(buffer) - n
    <2>1. \A i \in (n + 1)..Len(buffer) : buffer[i] \in Pair
      BY <1>1
    <2>2. /\ rest \in Seq(Pair)
          /\ Len(rest) = IF n + 1 <= Len(buffer) THEN Len(buffer) - (n + 1) + 1 ELSE 0
      BY <1>1, <2>1, SubSeqProperties
    <2>3. Len(buffer) \in Nat
      BY <1>1
    <2> HIDE DEF rest
    <2> QED
      BY <2>2, <2>3
  <1>4. taken = SubSeq(song, from + 1, from + n)
    <2> HIDE DEF from
    <2>1. Len(buffer) = at - from
      BY <1>1 DEF from
    <2>2. SubSeq(SubSeq(song, from + 1, at), 0 + 1, n) = SubSeq(song, from + 0 + 1, from + n)
      BY <1>1, <2>1, Cut
    <2>3. 0 + 1 = 1 /\ from + 0 + 1 = from + 1
      BY <1>1
    <2> QED
      BY <1>1, <2>2, <2>3
  <1>5. rest = SubSeq(song, from + n + 1, at)
    <2> HIDE DEF from
    <2>1. Len(buffer) = at - from
      BY <1>1 DEF from
    <2> DEFINE m == Len(buffer)
    <2>2. SubSeq(SubSeq(song, from + 1, at), n + 1, m) = SubSeq(song, from + n + 1, from + m)
      BY <1>1, <2>1, Cut
    <2>3. from + m = at
      BY <1>1, <2>1
    <2> QED
      BY <1>1, <2>2, <2>3
  <1>6. at - Len(rest) = from + n
    <2>1. at \in Nat /\ Len(buffer) \in Nat /\ Len(rest) = Len(buffer) - n
      BY <1>1, <1>3
    <2> HIDE DEF rest
    <2> QED
      BY <2>1
  <1>7. SubSeq(song, 1, from) \o SubSeq(song, from + 1, from + n) = SubSeq(song, 1, from + n)
    <2>1. /\ from \in (1 - 1)..Len(song) /\ from + n \in from..Len(song)
          /\ 1 \in 1..(Len(song) + 1)
      BY <1>1
    <2> HIDE DEF from
    <2> QED
      BY <1>1, <2>1, ConcatAdjacentSubSeq
  <1>8. Given = SubSeq(song, 1, from)
    BY DEF Given
  <1> HIDE DEF taken, rest, from
  <1>9. Given' = SubSeq(song, 1, from + n)
    <2>1. at' - Len(buffer') = from + n
      BY <1>6 DEF rest
    <2> QED
      BY <1>1, <2>1 DEF Given
  <1>10. Input'
    <2>1. buffer' = rest /\ at' = at
      BY DEF rest
    <2>2. at' - Len(buffer') + 1 = from + n + 1
      BY <1>6, <2>1
    <2>3. buffer' = SubSeq(song', at' - Len(buffer') + 1, at')
      BY <1>1, <1>5, <2>1, <2>2
    <2>4. at' \in 0..Len(song') /\ buffer' \in Seq(Pair) /\ Len(buffer') <= at'
      BY <1>1, <1>3, <2>1
    <2> QED
      BY <2>3, <2>4 DEF Input
  <1> QED
    BY <1>2, <1>4, <1>7, <1>8, <1>9, <1>10 DEF taken

\* A turn hands samples on to the buffers, and codes a block when there is one more.
LEMMA TurnStep == LosslessInv /\ Turn => LosslessInv'
  <1> SUFFICES ASSUME LosslessInv, Turn PROVE LosslessInv'
    OBVIOUS
  <1> DEFINE n == TurnSize
             taken == SubSeq(buffer, 1, n)
             lr == WithLeftRight(taken)
             ms == WithMidAndSide(taken)
  <1>1. /\ pc = "process" /\ UNCHANGED <<encode, at>>
        /\ buffer' = SubSeq(buffer, n + 1, Len(buffer))
        /\ pc' \in {"finish", "read", "process"}
        /\ pc' \in {"read", "process"} => state' = "OK"
        /\ pc' = "read" => buffer' = <<>>
    BY DEF Turn
  <1>2. encode \in Encodes /\ state = "OK" /\ Input /\ Carried /\ Len(fifo) <= Blocksize + 1
    BY <1>1 DEF LosslessInv, Live, Running
  <1>3. Stereo(signal) /\ Joint(signal, mid_side) /\ fifo = Pairs(signal)
        /\ Buffered \in Nat /\ Buffered <= Blocksize /\ Blocksize \in Nat
        /\ audio \in Seq(Pair) /\ audio \o fifo = Given
    BY <1>2, EncoderAssumption DEF Carried, Stereo, Buffered
  <1>4. n \in Nat /\ n <= Len(buffer) /\ Buffered + n <= Blocksize + 1
        /\ (Buffered + n > Blocksize => Buffered + n = Blocksize + 1)
    <2>1. Blocksize + 1 - Buffered \in Nat /\ Len(buffer) \in Nat
      BY <1>2, <1>3 DEF Input
    <2>2. /\ TurnSize \in {Blocksize + 1 - Buffered, Len(buffer)}
          /\ TurnSize <= Blocksize + 1 - Buffered /\ TurnSize <= Len(buffer)
      <3> DEFINE room_ == Blocksize + 1 - Buffered
                 there == Len(buffer)
      <3>1. room_ \in Int /\ there \in Int
        BY <2>1
      <3>2. TurnSize = Min({room_, there})
        BY DEF TurnSize
      <3> HIDE DEF room_, there
      <3>3. TurnSize \in {room_, there} /\ TurnSize <= room_ /\ TurnSize <= there
        BY <3>1, <3>2, LeastOfTwo
      <3> QED
        BY <3>3 DEF room_, there
    <2> QED
      BY <1>3, <2>1, <2>2
  <1> HIDE DEF n
  <1>5. taken \in Seq(Pair) /\ Len(taken) = n /\ Input' /\ Given' = Given \o taken
    BY <1>1, <1>2, <1>4, Advance
  <1> HIDE DEF taken
  <1>6. /\ Stereo(lr) /\ Len(lr[1]) = Buffered + n /\ Joint(lr, ms)
        /\ Pairs(lr) = fifo \o taken
    BY <1>3, <1>5, Taking
  <1>7. Pairs(lr) \in Seq(Pair) /\ Len(Pairs(lr)) = Buffered + n /\ fifo \in Seq(Pair)
    BY <1>3, <1>6, PairsProperties
  <1>8. audio \o Pairs(lr) = Given'
    <2>1. (audio \o fifo) \o taken = audio \o (fifo \o taken)
      <3>1. audio \in Seq(Pair) /\ fifo \in Seq(Pair) /\ taken \in Seq(Pair)
        BY <1>3, <1>5, <1>7
      <3> QED
        BY ONLY <3>1, ConcatAssociative
    <2> QED
      BY <1>3, <1>5, <1>6, <2>1
  <1>9. CASE state' = "CLIENT_ERROR" /\ fifo' = fifo \o taken
    <2>1. Len(fifo') <= Blocksize + 1
      BY <1>4, <1>6, <1>7, <1>9
    <2>2. ~Live' /\ pc' \notin Running
      BY <1>1, <1>9 DEF Live, Running
    <2> QED
      BY <1>1, <1>2, <1>9, <2>1, <2>2 DEF LosslessInv
  <1>10. CASE /\ Buffered + n <= Blocksize
              /\ signal' = lr /\ mid_side' = ms /\ fifo' = fifo \o taken
              /\ UNCHANGED <<state, audio>>
    <2>1. Stereo(signal') /\ Buffered' = Buffered + n /\ fifo' = Pairs(signal')
      BY <1>6, <1>10 DEF Buffered
    <2>2. Joint(signal, mid_side)'
      BY <1>1, <1>6, <1>10 DEF Joint, Stereo, WithMidSide, stereo
    <2>3. Carried'
      <3>1. Stereo(signal)' /\ Buffered' <= Blocksize /\ fifo' = Pairs(signal)'
        BY <1>10, <2>1 DEF Stereo, Pairs
      <3>2. audio' \in Seq(Pair) /\ audio' \o fifo' = Given'
        BY <1>3, <1>6, <1>8, <1>10
      <3> QED
        BY <2>2, <3>1, <3>2 DEF Carried
    <2>4. Len(fifo') <= Blocksize + 1
      BY <1>4, <1>6, <1>7, <1>10
    <2> QED
      BY <1>1, <1>2, <1>5, <1>10, <2>3, <2>4 DEF LosslessInv, Live, BeforeTurns
  <1>11. CASE /\ Buffered + n > Blocksize
              /\ ProcessFrame(lr, ms, fifo \o taken, Blocksize)
              /\ state' = "OK" =>
                    MoveOverread(InPlace(lr, DoIndependent), InPlace(ms, DoMidSide))
    <2>1. Len(lr[1]) = Blocksize + 1 /\ Blocksize <= Len(lr[1])
      BY <1>3, <1>4, <1>6, <1>11
    <2>2. ProcessFrame(lr, ms, Pairs(lr), Blocksize)
      BY <1>6, <1>11
    <2> HIDE DEF lr, ms
    <2>3. state' # "VERIFY_MISMATCH_IN_AUDIO_DATA" /\ Len(fifo') <= Blocksize + 1
      <3>1. Len(lr[1]) <= Blocksize + 1
        BY <1>3, <2>1
      <3> QED
        BY <1>2, <1>3, <1>6, <2>1, <2>2, <3>1, FrameKeepsFifo
    <2>4. ASSUME state' = "OK" PROVE Carried'
      <3>1. /\ fifo' = SubSeq(Pairs(lr), Blocksize + 1, Len(lr[1]))
            /\ audio' = audio \o SubSeq(Pairs(lr), 1, Blocksize)
        BY <1>2, <1>3, <1>6, <2>1, <2>2, <2>4, FrameStep
      <3>2. /\ Stereo(signal') /\ Len(signal'[1]) = 1 /\ Joint(signal, mid_side)'
            /\ Pairs(signal') = SubSeq(Pairs(lr), Blocksize + 1, Blocksize + 1)
        BY <1>1, <1>6, <1>11, <2>1, <2>4, Overread DEF lr, ms
      <3> DEFINE whole == Pairs(lr)
                 coded == SubSeq(whole, 1, Blocksize)
                 rest == SubSeq(whole, Blocksize + 1, Blocksize + 1)
      <3>3. whole \in Seq(Pair) /\ Len(whole) = Blocksize + 1
        BY <1>6, <1>7, <2>1
      <3>4. coded \in Seq(Pair) /\ rest \in Seq(Pair) /\ coded \o rest = whole
        <4> HIDE DEF whole
        <4>1. \A i \in 1..(Blocksize + 1) : whole[i] \in Pair
          BY <3>3
        <4>2. coded \in Seq(Pair)
          <5>1. \A i \in 1..Blocksize : whole[i] \in Pair
            BY <1>3, <4>1
          <5> QED
            BY <1>3, <5>1, SubSeqProperties
        <4>3. rest \in Seq(Pair)
          <5>1. \A i \in (Blocksize + 1)..(Blocksize + 1) : whole[i] \in Pair
            BY <1>3, <4>1
          <5> QED
            BY <1>3, <5>1, SubSeqProperties
        <4>4. coded \o rest = SubSeq(whole, 1, Blocksize + 1)
          <5>1. /\ 1 \in 1..(Len(whole) + 1) /\ Blocksize \in (1 - 1)..Len(whole)
                /\ Blocksize + 1 \in Blocksize..Len(whole)
            BY <1>3, <3>3
          <5> QED
            BY <3>3, <5>1, ConcatAdjacentSubSeq
        <4>5. SubSeq(whole, 1, Blocksize + 1) = whole
          BY <3>3, SubSeqFull
        <4> QED
          BY <4>2, <4>3, <4>4, <4>5
      <3>5. fifo' = rest /\ audio' = audio \o coded
        BY <2>1, <3>1
      <3> HIDE DEF whole, coded, rest
      <3>6. audio' \in Seq(Pair) /\ audio' \o fifo' = Given'
        <4>1. audio \o coded \in Seq(Pair)
          BY <1>3, <3>4, ConcatProperties
        <4>2. (audio \o coded) \o rest = audio \o whole
          <5>1. (audio \o coded) \o rest = audio \o (coded \o rest)
            <6>1. audio \in Seq(Pair) /\ coded \in Seq(Pair) /\ rest \in Seq(Pair)
              BY <1>3, <3>4
            <6> QED
              BY ONLY SMTT(30), <6>1, ConcatAssociative
          <5> QED
            BY <3>4, <5>1
        <4> QED
          BY <1>8, <3>5, <4>1, <4>2 DEF whole
      <3>7. fifo' = Pairs(signal')
        BY <3>2, <3>5 DEF rest, whole
      <3>8. Buffered' <= Blocksize
        BY <3>2, EncoderAssumption DEF Buffered
      <3> QED
        BY <3>2, <3>6, <3>7, <3>8 DEF Carried, Stereo, Pairs
    <2>5. pc' # "open" /\ (pc' \in BeforeTurns => buffer' = <<>>)
          /\ (pc' \in Running => state' = "OK")
      BY <1>1 DEF BeforeTurns, Running
    <2> QED
      BY <1>1, <1>2, <1>5, <2>3, <2>4, <2>5 DEF LosslessInv, Live
  <1>12. \/ state' = "CLIENT_ERROR" /\ fifo' = fifo \o taken
         \/ /\ Buffered + n <= Blocksize
            /\ signal' = lr /\ mid_side' = ms /\ fifo' = fifo \o taken
            /\ UNCHANGED <<state, audio>>
         \/ /\ Buffered + n > Blocksize
            /\ ProcessFrame(lr, ms, fifo \o taken, Blocksize)
            /\ state' = "OK" =>
                  MoveOverread(InPlace(lr, DoIndependent), InPlace(ms, DoMidSide))
    BY DEF Turn, taken, n, historyVars
  <1> QED
    BY <1>9, <1>10, <1>11, <1>12

\* The last block is what is buffered, all of it.
LEMMA FinishStep == LosslessInv /\ Finish => LosslessInv'
  <1> SUFFICES ASSUME LosslessInv, Finish PROVE LosslessInv'
    OBVIOUS
  <1>1. pc = "finish" /\ pc' = "seek" /\ UNCHANGED <<encode, buffer, at>>
    BY DEF Finish, clientVars
  <1>2. CASE UNCHANGED <<state, signal, mid_side, fifo, audio>>
    <2>1. Idle
      BY <1>1, <1>2 DEF Idle, LosslessInv, Live, Running, BeforeTurns
    <2> QED
      BY <2>1, IdleStep
  <1>3. CASE /\ state = "OK"
             /\ ProcessFrame(signal, mid_side, fifo, Buffered)
             /\ state' = "OK" => signal' = Empty /\ mid_side' = Empty
    <2>1. encode \in Encodes /\ Input /\ Carried
      BY <1>3 DEF LosslessInv, Live
    <2>2. /\ Stereo(signal) /\ Joint(signal, mid_side) /\ fifo = Pairs(signal)
          /\ Buffered \in Nat /\ Buffered <= Blocksize /\ Blocksize \in Nat
          /\ Len(signal[1]) = Buffered /\ audio \in Seq(Pair) /\ audio \o fifo = Given
      BY <2>1, EncoderAssumption DEF Carried, Stereo, Buffered
    <2>3. ProcessFrame(signal, mid_side, Pairs(signal), Buffered)
      BY <1>3, <2>2
    <2>4. state' # "VERIFY_MISMATCH_IN_AUDIO_DATA" /\ Len(fifo') <= Blocksize + 1
      <3>1. Len(signal[1]) <= Blocksize + 1 /\ Buffered <= Len(signal[1])
        BY <2>2
      <3> QED
        BY <1>3, <2>2, <2>3, <3>1, FrameKeepsFifo
    <2>5. ASSUME state' = "OK" PROVE Carried'
      <3> DEFINE whole == Pairs(signal)
      <3>1. /\ fifo' = SubSeq(whole, Buffered + 1, Len(signal[1]))
            /\ audio' = audio \o SubSeq(whole, 1, Buffered)
        <4>1. Buffered <= Len(signal[1])
          BY <2>2
        <4> QED
          BY <1>3, <2>2, <2>3, <2>5, <4>1, FrameStep
      <3>2. whole \in Seq(Pair) /\ Len(whole) = Buffered
        BY <2>2, PairsProperties
      <3> HIDE DEF whole
      <3>3. fifo' = <<>>
        <4>1. Buffered < Buffered + 1
          BY <2>2
        <4> QED
          BY <2>2, <3>1, <4>1, SubSeqEmpty
      <3>4. SubSeq(whole, 1, Buffered) = whole
        BY <3>2, SubSeqFull
      <3>5. audio' = Given
        BY <2>2, <3>1, <3>4 DEF whole
      <3>6. Given \in Seq(Pair)
        <4>1. audio \o whole \in Seq(Pair)
          BY <2>2, <3>2, ConcatProperties
        <4> QED
          BY <2>2, <4>1 DEF whole
      <3>7. Given' = Given
        BY <1>1 DEF Given, song
      <3>8. audio' \in Seq(Pair) /\ audio' \o fifo' = Given'
        BY <3>3, <3>5, <3>6, <3>7, ConcatEmptySeq
      <3>9. signal'[1] = <<>> /\ signal'[2] = <<>> /\ mid_side'[1] = <<>> /\ mid_side'[2] = <<>>
        BY <1>3, <2>5 DEF Empty, Channels
      <3>10. Stereo(signal') /\ Len(signal'[1]) = 0 /\ Joint(signal, mid_side)'
        BY <3>9 DEF Stereo, Joint
      <3>11. Pairs(signal') = <<>>
        <4>1. Pairs(signal') \in Seq(Pair) /\ Len(Pairs(signal')) = 0
          BY <3>10, PairsProperties
        <4> QED
          BY <4>1, EmptySeq
      <3>12. Stereo(signal)' /\ Buffered' <= Blocksize /\ fifo' = Pairs(signal)'
        BY <2>2, <3>3, <3>10, <3>11 DEF Buffered, Stereo, Pairs
      <3> QED
        BY <3>8, <3>10, <3>12 DEF Carried
    <2>6. Input'
      BY <1>1, <2>1 DEF Input, song
    <2> QED
      BY <1>1, <2>1, <2>4, <2>5, <2>6 DEF LosslessInv, Live, Running, BeforeTurns
  <1> QED
    BY <1>2, <1>3 DEF Finish, frameVars, historyVars

\* Every step of the encode keeps the invariant.
LEMMA LosslessStep == LosslessInv /\ [Next]_vars => LosslessInv'
  <1> SUFFICES ASSUME LosslessInv, [Next]_vars PROVE LosslessInv'
    OBVIOUS
  <1>1. CASE Open
    <2>1. Idle
      BY <1>1 DEF Open, Idle, OutOfMemory, Live, Running, BeforeTurns, frameVars, historyVars
    <2> QED
      BY <2>1, IdleStep
  <1>2. ASSUME NEW here \in Running, NEW next \in Running \ {"process"}, NEW units,
               here \in BeforeTurns, WriteMetadata(here, units, next)
        PROVE  LosslessInv'
    <2>1. state = "OK" /\ pc = here
      BY <1>2 DEF WriteMetadata, LosslessInv
    <2>2. /\ UNCHANGED <<encode, buffer, at, signal, mid_side, fifo, audio>>
          /\ state' \in OutOfMemory \cup {"CLIENT_ERROR", "OK"}
          /\ pc' = IF state' = "OK" THEN next ELSE "finish"
      BY <1>2, <2>1 DEF WriteMetadata, frameVars, historyVars
    <2>3. Idle
      BY <1>2, <2>1, <2>2 DEF Idle, OutOfMemory, Live, Running, BeforeTurns
    <2> QED
      BY <2>3, IdleStep
  <1>3. CASE WriteMagic
    BY <1>2, <1>3 DEF WriteMagic, Running, BeforeTurns
  <1>4. CASE WriteStreamInfo
    BY <1>2, <1>4 DEF WriteStreamInfo, Running, BeforeTurns
  <1>5. CASE WriteUserBlocks
    BY <1>2, <1>5 DEF WriteUserBlocks, Running, BeforeTurns
  <1>6. CASE AllRead
    <2>1. Idle
      BY <1>6 DEF AllRead, Idle, LosslessInv, Live, Running, BeforeTurns, clientVars, frameVars,
                  historyVars
    <2> QED
      BY <2>1, IdleStep
  <1>7. CASE Seek \/ Overwrite
    <2>1. \E next \in {"seek", "overwrite"} : Called(next)
      BY <1>7 DEF Seek, Overwrite
    <2>2. /\ UNCHANGED <<encode, buffer, at, signal, mid_side, fifo, audio>>
          /\ state' \in {"CLIENT_ERROR", state}
          /\ pc' \in {"close", "seek", "overwrite"}
      BY <2>1 DEF Called, clientVars, frameVars, historyVars
    <2>3. Idle
      BY <2>2 DEF Idle, LosslessInv, Live, Running, BeforeTurns
    <2> QED
      BY <2>3, IdleStep
  <1>8. CASE Updated \/ Close
    <2>1. /\ UNCHANGED <<encode, buffer, at, signal, mid_side, fifo, audio>>
          /\ state' \in {"UNINITIALIZED", state}
          /\ pc' \in {"close", "returned"}
      BY <1>8 DEF Updated, Close, clientVars, frameVars, historyVars
    <2>2. Idle
      BY <2>1 DEF Idle, LosslessInv, Live, Running, BeforeTurns
    <2> QED
      BY <2>2, IdleStep
  <1>9. CASE UNCHANGED vars
    <2>1. UNCHANGED <<encode, pc, state, buffer, at, signal, mid_side, fifo, audio>>
      BY <1>9 DEF vars, clientVars, frameVars, historyVars
    <2>2. Input => Input'
      BY <2>1 DEF Input, song
    <2>3. Carried => Carried'
      BY <2>1 DEF Carried, Stereo, Joint, Pairs, Buffered, Given, song, WithMidSide, stereo
    <2> QED
      BY <2>1, <2>2, <2>3 DEF LosslessInv, Live
  <1> QED
    BY <1>1, <1>3, <1>4, <1>5, <1>6, <1>7, <1>8, <1>9, ReadStep, TurnStep, FinishStep
       DEF Next, Go, Returned

\* The invariant holds of every behaviour.
LEMMA InductiveLossless == Spec => []LosslessInv
  BY LosslessInit, LosslessStep, PTL DEF Spec

\* What process_interleaved, its overread sample, the in-place shifts and finish make of
\* the song: the frames that were passed on and what is buffered are the samples read,
\* each once, in order and unchanged, whatever the sizes of blocks and reads.
THEOREM SamplesAreNeverLost == Spec => []Lossless
  <1>1. LosslessInv => Lossless
    BY DEF LosslessInv, Lossless, Live, Carried
  <1> QED
    BY <1>1, InductiveLossless, PTL

\* The verify FIFO holds what is buffered and has room for it, and the verify decoder
\* never meets a frame that differs from it: middle and side, left or right and side,
\* and wasted bits are undone exactly.
THEOREM VerificationIsQuiet == Spec => []VerifyIsQuiet
  <1>1. LosslessInv => VerifyIsQuiet
    BY DEF LosslessInv, VerifyIsQuiet, Live, Carried
  <1> QED
    BY <1>1, InductiveLossless, PTL

-------------------------------------------------------------------------------
(* Loose mid-side stereo *)

\* Counting up modulo d, by the div and mod of the counter
LEMMA CountsUp ==
    ASSUME NEW n \in Nat, NEW d \in Nat \ {0}
    PROVE  (n + 1) % d = IF (n % d) + 1 >= d THEN 0 ELSE (n % d) + 1
  <1> DEFINE q == n \div d
             r == n % d
  <1>1. q \in Int /\ r \in 0..(d - 1) /\ n = d * q + r
    BY SMT
  <1> HIDE DEF q, r
  <1>2. CASE r + 1 >= d
    <2>1. n + 1 = d * (q + 1)
      BY <1>1, <1>2
    <2>2. (d * (q + 1)) % d = 0
      BY <1>1
    <2> QED
      BY <1>2, <2>1, <2>2 DEF r
  <1>3. CASE ~(r + 1 >= d)
    <2>1. n + 1 = d * q + (r + 1)
      BY <1>1
    <2>2. (d * q + (r + 1)) % d = r + 1
      BY <1>1, <1>3
    <2> QED
      BY <1>3, <2>1, <2>2 DEF r
  <1> QED
    BY <1>2, <1>3 DEF r

\* With loose mid-side stereo the count tells how many frames were passed on since both
\* ways were tried, and the assignment kept is that of the frame passed on last.
LooseInv ==
    /\ \E S : frames \in Seq(S)
    /\ LooseIsSticky
    /\ stereo = "loose" /\ (state = "OK" \/ pc = "open") =>
          /\ frame_count = Len(frames) % LooseFrames
          /\ Len(frames) > 0 => last_channel_assignment = frames[Len(frames)].assignment

\* A frame that is passed on is coded as the one before, unless both ways were tried.
LEMMA LooseFrame ==
    ASSUME LooseInv, state = "OK", UNCHANGED encode,
           NEW left_right, NEW ms, NEW input, NEW size,
           ProcessFrame(left_right, ms, input, size)
    PROVE  /\ \E S : frames' \in Seq(S)
           /\ LooseIsSticky'
           /\ stereo' = "loose" /\ state' = "OK" =>
                 /\ frame_count' = Len(frames') % LooseFrames
                 /\ Len(frames') > 0 =>
                       last_channel_assignment' = frames'[Len(frames')].assignment
  <1>1. stereo' = stereo
    BY DEF stereo
  <1>2. CASE frames' = frames /\ state' # "OK"
    BY <1>1, <1>2 DEF LooseInv, LooseIsSticky
  <1>3. ASSUME NEW assignment \in Assignments, NEW bytes \in FrameSizes,
               IF stereo = "loose" THEN frame_count' = Count(frame_count)
               ELSE UNCHANGED frame_count,
               last_channel_assignment' = assignment,
               frames' = Append(frames, FrameOf(left_right, ms, size, assignment, bytes))
        PROVE  /\ \E S : frames' \in Seq(S)
               /\ LooseIsSticky'
               /\ stereo' = "loose" =>
                     /\ frame_count' = Len(frames') % LooseFrames
                     /\ Len(frames') > 0 =>
                           last_channel_assignment' = frames'[Len(frames')].assignment
    <2> DEFINE frame == FrameOf(left_right, ms, size, assignment, bytes)
               n == Len(frames)
    <2>1. PICK S : frames \in Seq(S)
      BY DEF LooseInv
    <2>2. frame.assignment = assignment
      BY DEF FrameOf
    <2> HIDE DEF frame
    <2>3. /\ frames' \in Seq(S \cup {frame}) /\ Len(frames') = n + 1
          /\ \A i \in 1..n : frames'[i] = frames[i]
          /\ frames'[n + 1] = frame
      <3>1. frames \in Seq(S \cup {frame})
        BY <2>1, SeqMonotonic
      <3>2. frames' = Append(frames, frame)
        BY <1>3 DEF frame
      <3> QED
        BY <3>1, <3>2, AppendProperties
    <2>4. n \in Nat
      BY <2>1
    <2> HIDE DEF n
    <2>5. CASE stereo # "loose"
      BY <1>1, <2>3, <2>5 DEF LooseIsSticky
    <2>6. CASE stereo = "loose"
      <3>1. /\ frame_count = n % LooseFrames
            /\ n > 0 => last_channel_assignment = frames[n].assignment
            /\ \A i \in 1..n :
                  /\ frames[i].assignment \in {"independent", "mid_side"}
                  /\ (i - 1) % LooseFrames # 0 =>
                        frames[i].assignment = frames[i - 1].assignment
        BY <2>6 DEF LooseInv, LooseIsSticky, n
      <3>2. assignment \in {"independent", "mid_side"}
        BY <2>6 DEF Assignments
      <3>3. ASSUME n % LooseFrames # 0 PROVE n > 0 /\ assignment = frames[n].assignment
        <4>1. n > 0
          <5>1. 0 % LooseFrames = 0
            BY EncoderAssumption
          <5> QED
            BY <2>4, <3>3, <5>1
        <4>2. last_channel_assignment = frames[n].assignment
              /\ last_channel_assignment \in {"independent", "mid_side"}
          BY <2>4, <3>1, <4>1
        <4>3. ~Decides
          BY <2>6, <3>1, <3>3 DEF Decides
        <4>4. assignment = last_channel_assignment
          BY <2>6, <4>2, <4>3 DEF Assignments, DoIndependent, DoMidSide
        <4> QED
          BY <4>1, <4>2, <4>4
      <3>4. ASSUME NEW i \in 1..(n + 1)
            PROVE  /\ frames'[i].assignment \in {"independent", "mid_side"}
                   /\ (i - 1) % LooseFrames # 0 =>
                         frames'[i].assignment = frames'[i - 1].assignment
        <4>1. CASE i <= n
          <5>1. i \in 1..n /\ frames'[i] = frames[i]
            BY <2>3, <2>4, <4>1
          <5>2. CASE i = 1
            <6>1. (i - 1) % LooseFrames = 0
              BY <5>2, EncoderAssumption
            <6> QED
              BY <3>1, <5>1, <6>1
          <5>3. CASE i # 1
            <6>1. i - 1 \in 1..n
              BY <2>4, <5>1, <5>3
            <6> QED
              BY <2>3, <3>1, <5>1, <6>1
          <5> QED
            BY <5>2, <5>3
        <4>2. CASE i = n + 1
          <5>1. i - 1 = n /\ frames'[i].assignment = assignment
            BY <2>2, <2>3, <2>4, <4>2
          <5>2. n > 0 => frames'[n] = frames[n]
            BY <2>3, <2>4
          <5> QED
            BY <3>2, <3>3, <5>1, <5>2
        <4> QED
          BY <2>4, <4>1, <4>2
      <3>5. LooseIsSticky'
        BY <2>3, <3>4 DEF LooseIsSticky
      <3>6. frame_count' = (n + 1) % LooseFrames
        <4>1. frame_count' = IF frame_count + 1 >= LooseFrames THEN 0 ELSE frame_count + 1
          BY <1>3, <2>6 DEF Count
        <4>2. (n + 1) % LooseFrames = IF (n % LooseFrames) + 1 >= LooseFrames THEN 0
                                      ELSE (n % LooseFrames) + 1
          BY <2>4, CountsUp, EncoderAssumption
        <4> QED
          BY <3>1, <4>1, <4>2
      <3>7. last_channel_assignment' = frames'[n + 1].assignment
        BY <1>3, <2>2, <2>3
      <3> QED
        BY <2>3, <3>5, <3>6, <3>7
    <2> QED
      BY <2>5, <2>6
  <1>4. \/ frames' = frames /\ state' # "OK"
        \/ \E assignment \in Assignments, bytes \in FrameSizes :
              /\ IF stereo = "loose" THEN frame_count' = Count(frame_count)
                 ELSE UNCHANGED frame_count
              /\ last_channel_assignment' = assignment
              /\ frames' = Append(frames, FrameOf(left_right, ms, size, assignment, bytes))
    BY DEF ProcessFrame, OutOfMemory, historyVars
  <1> QED
    BY <1>2, <1>3, <1>4

\* Every step keeps that invariant, with the one of the samples for the state of a frame.
LEMMA LooseStep == LosslessInv /\ LooseInv /\ [Next]_vars => LooseInv'
  <1> SUFFICES ASSUME LosslessInv, LooseInv, [Next]_vars PROVE LooseInv'
    OBVIOUS
  <1>1. ASSUME UNCHANGED <<encode, frames, frame_count, last_channel_assignment>>,
               state' = "OK" \/ pc' = "open" => state = "OK" \/ pc = "open"
        PROVE  LooseInv'
    BY <1>1 DEF LooseInv, LooseIsSticky, stereo
  <1>2. ASSUME NEW left_right, NEW ms, NEW input, NEW size, state = "OK", UNCHANGED encode,
               pc' # "open", ProcessFrame(left_right, ms, input, size)
        PROVE  LooseInv'
    <2>1. /\ \E S : frames' \in Seq(S)
          /\ LooseIsSticky'
          /\ stereo' = "loose" /\ state' = "OK" =>
                /\ frame_count' = Len(frames') % LooseFrames
                /\ Len(frames') > 0 =>
                      last_channel_assignment' = frames'[Len(frames')].assignment
      BY <1>2, LooseFrame
    <2> QED
      BY <1>2, <2>1 DEF LooseInv
  <1> USE DEF frameVars, looseVars, historyVars, clientVars
  <1>3. CASE Open
    BY <1>1, <1>3 DEF Open
  <1>4. CASE WriteMagic \/ WriteStreamInfo \/ WriteUserBlocks
    <2>1. \E here \in Running, next \in {"streaminfo", "blocks", "padding", "read"} :
             /\ UNCHANGED <<encode, frames, frame_count, last_channel_assignment>>
             /\ pc = here /\ (state' = "CLIENT_ERROR" \/ state' = state \/ state' \in OutOfMemory)
             /\ pc' \in {next, "finish"}
      BY <1>4 DEF WriteMagic, WriteStreamInfo, WriteUserBlocks, WriteMetadata, Running
    <2> QED
      BY <1>1, <2>1 DEF OutOfMemory
  <1>5. CASE ReadBlock \/ AllRead
    BY <1>1, <1>5 DEF ReadBlock, AllRead
  <1>6. CASE Turn
    <2> DEFINE taken == SubSeq(buffer, 1, TurnSize)
    <2>1. pc = "process" /\ state = "OK" /\ UNCHANGED encode /\ pc' # "open"
      BY <1>6 DEF Turn, LosslessInv, Running
    <2>2. \/ /\ UNCHANGED <<frames, frame_count, last_channel_assignment>>
             /\ state' = "CLIENT_ERROR" \/ state' = state
          \/ ProcessFrame(WithLeftRight(taken), WithMidAndSide(taken), fifo \o taken, Blocksize)
      BY <1>6 DEF Turn
    <2> QED
      BY <1>1, <1>2, <2>1, <2>2
  <1>7. CASE Finish
    <2>1. UNCHANGED encode /\ pc' # "open"
      BY <1>7 DEF Finish
    <2>2. \/ UNCHANGED <<frames, frame_count, last_channel_assignment, state>>
          \/ state = "OK" /\ ProcessFrame(signal, mid_side, fifo, Buffered)
      BY <1>7 DEF Finish
    <2> QED
      BY <1>1, <1>2, <2>1, <2>2
  <1>8. CASE Seek \/ Overwrite
    <2>1. \E next \in {"seek", "overwrite"} : Called(next)
      BY <1>8 DEF Seek, Overwrite
    <2>2. /\ UNCHANGED <<encode, frames, frame_count, last_channel_assignment>>
          /\ state' = "CLIENT_ERROR" \/ state' = state
          /\ pc' # "open"
      BY <2>1 DEF Called
    <2> QED
      BY <1>1, <2>2
  <1>9. CASE Updated \/ Close
    <2>1. /\ UNCHANGED <<encode, frames, frame_count, last_channel_assignment>>
          /\ state' = "UNINITIALIZED" \/ state' = state
          /\ pc' # "open"
      BY <1>9 DEF Updated, Close
    <2> QED
      BY <1>1, <2>1
  <1>10. CASE UNCHANGED vars
    BY <1>1, <1>10 DEF vars
  <1> QED
    BY <1>3, <1>4, <1>5, <1>6, <1>7, <1>8, <1>9, <1>10 DEF Next, Go, Returned

\* loose_mid_side_stereo_frame_count and last_channel_assignment: with loose mid-side
\* stereo so many frames in a row are coded in one way, from the first to the last.
THEOREM LooseStaysSticky == Spec => []LooseIsSticky
  <1>1. Init => LooseInv
    <2> SUFFICES ASSUME Init PROVE LooseInv
      OBVIOUS
    <2>1. frames = <<>> /\ frame_count = 0
      BY DEF Init
    <2>2. frames \in Seq({}) /\ Len(frames) = 0
      BY <2>1, EmptySeq
    <2>3. 0 % LooseFrames = 0
      BY EncoderAssumption
    <2> QED
      BY <2>1, <2>2, <2>3 DEF LooseInv, LooseIsSticky
  <1>2. LooseInv => LooseIsSticky
    BY DEF LooseInv
  <1> QED
    BY <1>1, <1>2, InductiveLossless, LooseStep, PTL DEF Spec

-------------------------------------------------------------------------------
(* Sequences that are written over, flattened and summed *)

\* Induction over a set of numbers
LEMMA SetInduction ==
    ASSUME NEW S, 0 \in S, \A n \in Nat : n \in S => n + 1 \in S
    PROVE  Nat \subseteq S
  <1> DEFINE T == Nat \ S
  <1> SUFFICES ASSUME T # {} PROVE FALSE
    OBVIOUS
  <1>1. PICK x \in T : \A y \in T : ~(<<y, x>> \in OpToRel(<, Nat))
    BY NatLessThanWellFounded, WFMin
  <1>2. x \in Nat /\ x # 0 /\ x - 1 \in Nat
    OBVIOUS
  <1>3. x - 1 \in S
    <2>1. <<x - 1, x>> \in OpToRel(<, Nat)
      BY <1>2 DEF OpToRel
    <2> QED
      BY <1>1, <1>2, <2>1
  <1>4. (x - 1) + 1 \in S
    BY <1>2, <1>3
  <1>5. (x - 1) + 1 = x
    BY <1>2
  <1> QED
    BY <1>4, <1>5

\* A part of a sequence, from its beginning
LEMMA FrontOf ==
    ASSUME NEW S, NEW s \in Seq(S), NEW n \in 0..Len(s)
    PROVE  /\ SubSeq(s, 1, n) \in Seq(S) /\ Len(SubSeq(s, 1, n)) = n
           /\ \A i \in 1..n : SubSeq(s, 1, n)[i] = s[i]
  <1> DEFINE part == SubSeq(s, 1, n)
  <1>1. \A i \in 1..n : s[i] \in S
    OBVIOUS
  <1>2. /\ part \in Seq(S) /\ Len(part) = IF 1 <= n THEN n - 1 + 1 ELSE 0
        /\ \A i \in 1..(n - 1 + 1) : part[i] = s[1 + i - 1]
    BY <1>1, SubSeqProperties
  <1> HIDE DEF part
  <1>3. Len(part) = n /\ \A i \in 1..n : part[i] = s[i]
    BY <1>2
  <1> QED
    BY <1>2, <1>3 DEF part

\* What a sequence is when some of it is written over from p on
Over(s, p, u, n) == SubSeq(s, 1, p) \o SubSeq(u, 1, n) \o SubSeq(s, p + n + 1, Len(s))

\* new is s with n elements of u written over it from p on.
WritesOver(new, s, p, u, n) ==
    /\ Len(new) = IF p + n <= Len(s) THEN Len(s) ELSE p + n
    /\ \A i \in 1..Len(new) : new[i] = IF i <= p \/ i > p + n THEN s[i] ELSE u[i - p]

\* Writing over a sequence keeps what is before and behind, and grows it at its end only.
LEMMA WrittenOver ==
    ASSUME NEW S, NEW s \in Seq(S), NEW p \in 0..Len(s), NEW u \in Seq(S), NEW n \in 0..Len(u)
    PROVE  Over(s, p, u, n) \in Seq(S) /\ WritesOver(Over(s, p, u, n), s, p, u, n)
  <1> DEFINE a == SubSeq(s, 1, p)
             b == SubSeq(u, 1, n)
             c == SubSeq(s, p + n + 1, Len(s))
             ab == a \o b
             l == Len(s)
  <1>1. a \in Seq(S) /\ Len(a) = p /\ \A i \in 1..p : a[i] = s[i]
    BY FrontOf
  <1>2. b \in Seq(S) /\ Len(b) = n /\ \A i \in 1..n : b[i] = u[i]
    BY FrontOf
  <1>3. l \in Nat /\ p \in Nat /\ n \in Nat
    OBVIOUS
  <1>4. /\ c \in Seq(S) /\ Len(c) = IF p + n + 1 <= l THEN l - (p + n + 1) + 1 ELSE 0
        /\ \A i \in 1..(l - (p + n + 1) + 1) : c[i] = s[p + n + 1 + i - 1]
    <2>1. \A i \in (p + n + 1)..l : s[i] \in S
      OBVIOUS
    <2>2. p + n + 1 \in Int /\ l \in Int
      BY <1>3
    <2> QED
      BY <2>1, <2>2, SubSeqProperties
  <1>5. Over(s, p, u, n) = ab \o c
    BY DEF Over
  <1> HIDE DEF a, b, c, l
  <1>6. /\ ab \in Seq(S) /\ Len(ab) = p + n
        /\ \A i \in 1..(p + n) : ab[i] = IF i <= p THEN a[i] ELSE b[i - p]
    BY ZenonT(30), <1>1, <1>2, ConcatProperties
  <1> HIDE DEF ab
  <1>7. /\ ab \o c \in Seq(S) /\ Len(ab \o c) = (p + n) + Len(c)
        /\ \A i \in 1..((p + n) + Len(c)) : (ab \o c)[i] = IF i <= p + n THEN ab[i]
                                                           ELSE c[i - (p + n)]
    <2> DEFINE both == ab \o c
    <2>1. /\ both \in Seq(S) /\ Len(both) = Len(ab) + Len(c)
          /\ \A i \in 1..(Len(ab) + Len(c)) : both[i] = IF i <= Len(ab) THEN ab[i]
                                                        ELSE c[i - Len(ab)]
      BY <1>4, <1>6, ConcatProperties
    <2> HIDE DEF both
    <2>2. Len(ab) = p + n
      BY <1>6
    <2> QED
      BY <2>1, <2>2 DEF both
  <1>8. (p + n) + Len(c) = IF p + n <= l THEN l ELSE p + n
    BY <1>3, <1>4
  <1> DEFINE m == (p + n) + Len(c)
             o == ab \o c
  <1>9. \A i \in 1..m : o[i] = IF i <= p \/ i > p + n THEN s[i] ELSE u[i - p]
    <2> TAKE i \in 1..m
    <2>1. o[i] = IF i <= p + n THEN ab[i] ELSE c[i - (p + n)]
      BY <1>7
    <2> HIDE DEF o
    <2>2. CASE i <= p
      <3>1. i \in 1..(p + n) /\ i \in 1..p
        BY <1>3, <2>2
      <3> QED
        BY <1>1, <1>6, <2>1, <2>2, <3>1
    <2>3. CASE ~(i <= p) /\ i <= p + n
      <3>1. i \in 1..(p + n) /\ i - p \in 1..n
        BY <1>3, <2>3
      <3> QED
        BY <1>2, <1>6, <2>1, <2>3, <3>1
    <2>4. CASE ~(i <= p + n)
      <3>1. m = l /\ p + n + 1 <= l
        BY <1>3, <1>8, <2>4
      <3>2. i - (p + n) \in 1..(l - (p + n + 1) + 1)
        BY <1>3, <2>4, <3>1
      <3>3. p + n + 1 + (i - (p + n)) - 1 = i
        BY <1>3
      <3> QED
        BY <1>3, <1>4, <2>1, <2>4, <3>2, <3>3
    <2> QED
      BY <2>2, <2>3, <2>4
  <1>10. WritesOver(o, s, p, u, n)
    <2>1. Len(o) = m /\ m = IF p + n <= l THEN l ELSE p + n
      BY <1>7, <1>8
    <2> HIDE DEF m, o
    <2>2. Len(o) = IF p + n <= Len(s) THEN Len(s) ELSE p + n
      BY <2>1 DEF l
    <2> QED
      BY <1>9, <2>1, <2>2 DEF WritesOver
  <1> QED
    BY <1>5, <1>7, <1>10

\* The function that FlattenSeq is the last value of
Flattens(f, seqs, n) == f = [i \in 1..n |-> IF i = 1 THEN seqs[i] ELSE f[i - 1] \o seqs[i]]

\* There is one,
LEMMA FlatteningIs ==
    ASSUME NEW seqs, NEW n \in Nat
    PROVE  \E f : Flattens(f, seqs, n)
  <1> DEFINE S == {m \in Nat : \E f : Flattens(f, seqs, m)}
  <1>1. 0 \in S
    <2>1. Flattens([i \in 1..0 |-> 0], seqs, 0)
      BY DEF Flattens
    <2> QED
      BY <2>1
  <1>2. ASSUME NEW m \in Nat, m \in S PROVE m + 1 \in S
    <2>1. PICK f : Flattens(f, seqs, m)
      BY <1>2
    <2> DEFINE g == [i \in 1..(m + 1) |-> IF i <= m THEN f[i]
                                          ELSE IF i = 1 THEN seqs[i] ELSE f[i - 1] \o seqs[i]]
    <2>2. \A i \in 1..(m + 1) : g[i] = IF i = 1 THEN seqs[i] ELSE g[i - 1] \o seqs[i]
      <3> TAKE i \in 1..(m + 1)
      <3>1. CASE i <= m
        <4>1. i \in 1..m /\ g[i] = f[i]
          BY <3>1
        <4>2. f[i] = IF i = 1 THEN seqs[i] ELSE f[i - 1] \o seqs[i]
          BY <2>1, <4>1 DEF Flattens
        <4>3. i # 1 => g[i - 1] = f[i - 1]
          BY <4>1
        <4> QED
          BY <4>1, <4>2, <4>3
      <3>2. CASE ~(i <= m)
        <4>1. i # 1 => i - 1 \in 1..m
          BY <3>2
        <4>2. i # 1 => g[i - 1] = f[i - 1]
          BY <4>1
        <4> QED
          BY <3>2, <4>2
      <3> QED
        BY <3>1, <3>2
    <2>3. g = [i \in 1..(m + 1) |-> g[i]]
      OBVIOUS
    <2> HIDE DEF g
    <2>4. Flattens(g, seqs, m + 1)
      BY <2>2, <2>3 DEF Flattens
    <2> QED
      BY <2>4
  <1>3. Nat \subseteq S
    BY <1>1, <1>2, SetInduction
  <1> QED
    BY <1>3

\* What FlattenSeq has joined at each place
LEMMA FlatteningAt ==
    ASSUME NEW f, NEW seqs, NEW n, Flattens(f, seqs, n), NEW i \in 1..n
    PROVE  f[i] = IF i = 1 THEN seqs[i] ELSE f[i - 1] \o seqs[i]
  BY DEF Flattens

\* and sequences that begin alike are flattened alike.
FlattensMore(f, s, m, g, t, n) ==
    /\ m \in Nat /\ n \in Nat /\ m <= n
    /\ \A i \in 1..m : s[i] = t[i]
    /\ Flattens(f, s, m) /\ Flattens(g, t, n)

\* A sequence that goes on is joined alike as far as both go.
LEMMA FlatteningAgrees ==
    ASSUME NEW f, NEW s, NEW m, NEW g, NEW t, NEW n, FlattensMore(f, s, m, g, t, n)
    PROVE  \A i \in 1..m : f[i] = g[i]
  <1> USE DEF FlattensMore
  <1> DEFINE S == {i \in Nat : i \in 1..m => f[i] = g[i]}
  <1>1. 0 \in S
    OBVIOUS
  <1>2. ASSUME NEW i \in Nat, i \in S PROVE i + 1 \in S
    <2> SUFFICES ASSUME i + 1 \in 1..m PROVE f[i + 1] = g[i + 1]
      OBVIOUS
    <2> DEFINE j == i + 1
    <2>1. j \in 1..m /\ j \in 1..n /\ j - 1 = i /\ (j # 1 => i \in 1..m)
      OBVIOUS
    <2> HIDE DEF j
    <2>2. f[j] = IF j = 1 THEN s[j] ELSE f[j - 1] \o s[j]
      BY <2>1 DEF Flattens
    <2>3. g[j] = IF j = 1 THEN t[j] ELSE g[j - 1] \o t[j]
      BY <2>1 DEF Flattens
    <2>4. j # 1 => f[j - 1] = g[j - 1]
      BY <1>2, <2>1
    <2>5. f[j] = g[j]
      BY <2>1, <2>2, <2>3, <2>4
    <2> QED
      BY <2>5 DEF j
  <1>3. Nat \subseteq S
    BY <1>1, <1>2, SetInduction
  <1> QED
    BY <1>3

\* What FlattenSeq is
LEMMA FlattenIs ==
    ASSUME NEW seqs, Len(seqs) \in Nat, Len(seqs) # 0
    PROVE  \E f : Flattens(f, seqs, Len(seqs)) /\ FlattenSeq(seqs) = f[Len(seqs)]
  <1> DEFINE n == Len(seqs)
             f == CHOOSE f : f = [i \in 1..n |-> IF i = 1 THEN seqs[i] ELSE f[i - 1] \o seqs[i]]
  <1>1. f = [i \in 1..n |-> IF i = 1 THEN seqs[i] ELSE f[i - 1] \o seqs[i]]
    <2>1. \E g : g = [i \in 1..n |-> IF i = 1 THEN seqs[i] ELSE g[i - 1] \o seqs[i]]
      BY FlatteningIs DEF Flattens
    <2> QED
      BY <2>1
  <1>2. FlattenSeq(seqs) = f[n]
    BY DEF FlattenSeq
  <1> HIDE DEF f
  <1>3. Flattens(f, seqs, n)
    BY <1>1 DEF Flattens
  <1> QED
    BY <1>2, <1>3

\* One sequence more goes behind what the others come to.
LEMMA FlattenOneMore ==
    ASSUME NEW S, NEW s \in Seq(Seq(S)), NEW t \in Seq(Seq(S)), Len(t) = Len(s) + 1,
           \A i \in 1..Len(s) : t[i] = s[i], FlattenSeq(s) \in Seq(S)
    PROVE  FlattenSeq(t) = FlattenSeq(s) \o t[Len(t)] /\ FlattenSeq(t) \in Seq(S)
  <1> DEFINE n == Len(s)
  <1>1. n \in Nat /\ Len(t) = n + 1 /\ Len(t) # 0 /\ Len(t) \in Nat
    OBVIOUS
  <1>2. t[n + 1] \in Seq(S)
    BY <1>1
  <1>3. PICK g : Flattens(g, t, n + 1) /\ FlattenSeq(t) = g[n + 1]
    BY <1>1, FlattenIs
  <1>4. CASE n = 0
    <2>1. FlattenSeq(s) = s
      BY <1>4 DEF FlattenSeq
    <2>2. s = <<>>
      BY <1>4, EmptySeq
    <2>3. g[n + 1] = t[n + 1]
      BY <1>3, <1>4 DEF Flattens
    <2>4. <<>> \o t[n + 1] = t[n + 1]
      BY <1>2, ConcatEmptySeq
    <2> QED
      BY <1>1, <1>2, <1>3, <2>1, <2>2, <2>3, <2>4
  <1>5. CASE n # 0
    <2>1. PICK f : Flattens(f, s, n) /\ FlattenSeq(s) = f[n]
      BY <1>1, <1>5, FlattenIs
    <2>2. n \in 1..n /\ n <= n + 1 /\ n + 1 \in Nat /\ n + 1 \in 1..(n + 1)
      BY <1>1, <1>5
    <2>3. f[n] = g[n] /\ g[n + 1] = IF n + 1 = 1 THEN t[n + 1] ELSE g[n + 1 - 1] \o t[n + 1]
      <3>1. PICK m \in Nat : m = n
        BY <1>1
      <3>2. FlattensMore(f, s, m, g, t, m + 1) /\ Flattens(g, t, m + 1)
        BY <1>3, <2>1, <3>1 DEF FlattensMore
      <3>3. \A i \in 1..m : f[i] = g[i]
        BY <3>2, FlatteningAgrees
      <3>4. m + 1 \in 1..(m + 1)
        BY <3>1
      <3>5. g[m + 1] = IF m + 1 = 1 THEN t[m + 1] ELSE g[m + 1 - 1] \o t[m + 1]
        BY <3>2, <3>4, FlatteningAt
      <3> QED
        BY <2>2, <3>1, <3>3, <3>5
    <2>5. n + 1 # 1 /\ n + 1 - 1 = n
      BY <1>1, <1>5
    <2>6. g[n + 1] = f[n] \o t[n + 1]
      BY <2>3, <2>5
    <2>7. FlattenSeq(s) \o t[n + 1] \in Seq(S)
      BY <1>2, ConcatProperties
    <2> QED
      BY <1>1, <1>3, <2>1, <2>6, <2>7
  <1> QED
    BY <1>4, <1>5

Total(f) == FoldSeq(LAMBDA x, y : x + y, 0, f)

\* The place FoldSeq adds next, of a set of places; and the function that it is the
\* last value of: sums over sets of at most so many places
Pick(s) == CHOOSE x \in s : TRUE
Small(D, k) == {s \in SUBSET D : Cardinality(s) <= k}
Sums(sum, f, P) == sum = [s \in P |-> IF s = {} THEN 0 ELSE f[Pick(s)] + sum[s \ {Pick(s)}]]

\* A sum takes out one place after the other.
LEMMA SumsAt ==
    ASSUME NEW sum, NEW f, NEW P, Sums(sum, f, P), NEW s \in P
    PROVE  sum[s] = IF s = {} THEN 0 ELSE f[Pick(s)] + sum[s \ {Pick(s)}]
  BY DEF Sums

\* What is left of a finite set without one member
LEMMA Picking ==
    ASSUME NEW D, IsFiniteSet(D), NEW s \in SUBSET D
    PROVE  /\ Cardinality(s) \in Nat /\ (Cardinality(s) = 0 <=> s = {})
           /\ s # {} => Pick(s) \in s
           /\ \A x \in s : s \ {x} \in SUBSET D /\ Cardinality(s \ {x}) = Cardinality(s) - 1
  <1>1. IsFiniteSet(s)
    BY FS_Subset
  <1> QED
    BY <1>1, FS_CardinalityType, FS_EmptySet, FS_RemoveElement DEF Pick

\* There is one.
LEMMA SummingIs ==
    ASSUME NEW f, NEW D, IsFiniteSet(D)
    PROVE  \E sum : Sums(sum, f, SUBSET D)
  <1> DEFINE S == {k \in Nat : \E sum : Sums(sum, f, Small(D, k))}
  <1>1. 0 \in S
    <2> DEFINE sum == [s \in Small(D, 0) |-> 0]
    <2>1. \A s \in Small(D, 0) : s = {}
      <3> TAKE s \in Small(D, 0)
      <3>1. s \in SUBSET D /\ Cardinality(s) <= 0
        BY DEF Small
      <3> QED
        BY <3>1, Picking
    <2>2. sum = [s \in Small(D, 0) |-> IF s = {} THEN 0 ELSE f[Pick(s)] + sum[s \ {Pick(s)}]]
      BY <2>1
    <2> HIDE DEF sum
    <2>3. Sums(sum, f, Small(D, 0))
      BY <2>2 DEF Sums
    <2> QED
      BY <2>3
  <1>2. ASSUME NEW k \in Nat, k \in S PROVE k + 1 \in S
    <2>1. PICK sum : Sums(sum, f, Small(D, k))
      BY <1>2
    <2> DEFINE P == Small(D, k + 1)
               more == [s \in P |-> IF s = {} THEN 0
                                    ELSE f[Pick(s)] + sum[s \ {Pick(s)}]]
    <2>2. ASSUME NEW s \in P, s # {}
          PROVE  s \ {Pick(s)} \in Small(D, k) /\ s \ {Pick(s)} \in P
      <3>1. s \in SUBSET D /\ Cardinality(s) <= k + 1
        BY DEF Small
      <3>2. Cardinality(s) \in Nat /\ s \ {Pick(s)} \in SUBSET D
            /\ Cardinality(s \ {Pick(s)}) = Cardinality(s) - 1
        BY <2>2, <3>1, Picking
      <3> QED
        BY <3>1, <3>2 DEF Small
    <2>3. ASSUME NEW s \in Small(D, k) PROVE s \in P /\ more[s] = sum[s]
      <3>1. s \in P
        <4>1. s \in SUBSET D /\ Cardinality(s) <= k
          BY DEF Small
        <4>2. Cardinality(s) \in Nat
          BY <4>1, Picking
        <4> QED
          BY <4>1, <4>2 DEF Small
      <3>2. sum[s] = IF s = {} THEN 0 ELSE f[Pick(s)] + sum[s \ {Pick(s)}]
        BY <2>1, SumsAt
      <3> QED
        BY <3>1, <3>2
    <2>4. \A s \in P : more[s] = IF s = {} THEN 0 ELSE f[Pick(s)] + sum[s \ {Pick(s)}]
      OBVIOUS
    <2>5. more = [s \in P |-> more[s]]
      OBVIOUS
    <2> HIDE DEF more, P
    <2>6. \A s \in P : more[s] = IF s = {} THEN 0 ELSE f[Pick(s)] + more[s \ {Pick(s)}]
      BY <2>2, <2>3, <2>4
    <2>7. Sums(more, f, P)
      BY <2>5, <2>6 DEF Sums
    <2> QED
      BY <2>7 DEF P
  <1>3. Nat \subseteq S
    BY <1>1, <1>2, SetInduction
  <1>4. Cardinality(D) \in Nat
    BY FS_CardinalityType
  <1>5. Small(D, Cardinality(D)) = SUBSET D
    <2>1. \A s \in SUBSET D : Cardinality(s) <= Cardinality(D)
      BY FS_Subset
    <2> QED
      BY <2>1 DEF Small
  <1> QED
    BY <1>3, <1>4, <1>5

\* What FoldSeq makes of a sequence of numbers
LEMMA TotalIs ==
    ASSUME NEW f, IsFiniteSet(DOMAIN f)
    PROVE  \E sum : Sums(sum, f, SUBSET DOMAIN f) /\ Total(f) = sum[DOMAIN f]
  <1> DEFINE D == DOMAIN f
             sum == CHOOSE iter :
                       iter = [s \in SUBSET D |->
                                  IF s = {} THEN 0 ELSE f[CHOOSE x \in s : TRUE]
                                                        + iter[s \ {CHOOSE x \in s : TRUE}]]
  <1>1. sum = [s \in SUBSET D |-> IF s = {} THEN 0 ELSE f[CHOOSE x \in s : TRUE]
                                                        + sum[s \ {CHOOSE x \in s : TRUE}]]
    <2>1. PICK it : Sums(it, f, SUBSET D)
      BY SummingIs
    <2>2. it = [s \in SUBSET D |-> IF s = {} THEN 0 ELSE f[CHOOSE x \in s : TRUE]
                                                        + it[s \ {CHOOSE x \in s : TRUE}]]
      BY <2>1 DEF Sums, Pick
    <2> QED
      BY <2>2
  <1>2. Total(f) = sum[D]
    BY DEF Total, FoldSeq, FoldFunction, FoldFunctionOnSet, MapThenFoldSet
  <1> HIDE DEF sum
  <1> QED
    BY <1>1, <1>2 DEF Sums, Pick

\* Numbers to be summed over a finite set
Summed(sum, f, D) ==
    /\ IsFiniteSet(D) /\ \A x \in D : f[x] \in Int
    /\ Sums(sum, f, SUBSET D)

\* A sum is a number, and any of what it is of may be taken out.
LEMMA TakingOut ==
    ASSUME NEW sum, NEW f, NEW D, Summed(sum, f, D)
    PROVE  \A s \in SUBSET D : sum[s] \in Int /\ \A x \in s : sum[s] = f[x] + sum[s \ {x}]
  <1> DEFINE Out(s) == sum[s] \in Int /\ \A x \in s : sum[s] = f[x] + sum[s \ {x}]
             S == {k \in Nat : \A s \in Small(D, k) : Out(s)}
  <1>0. IsFiniteSet(D) /\ Sums(sum, f, SUBSET D) /\ \A x \in D : f[x] \in Int
    BY DEF Summed
  <1>1. 0 \in S
    <2> SUFFICES ASSUME NEW s \in Small(D, 0) PROVE Out(s)
      OBVIOUS
    <2>1. s \in SUBSET D /\ Cardinality(s) <= 0
      BY DEF Small
    <2>2. s = {}
      BY <1>0, <2>1, Picking
    <2>3. sum[s] = 0
      BY <1>0, <2>1, <2>2, SumsAt
    <2> QED
      BY <2>2, <2>3
  <1>2. ASSUME NEW k \in Nat, k \in S PROVE k + 1 \in S
    <2> SUFFICES ASSUME NEW s \in Small(D, k + 1) PROVE Out(s)
      OBVIOUS
    <2>1. s \in SUBSET D /\ Cardinality(s) <= k + 1
      BY DEF Small
    <2>2. /\ Cardinality(s) \in Nat /\ (s # {} => Pick(s) \in s)
          /\ \A x \in s : s \ {x} \in SUBSET D /\ Cardinality(s \ {x}) = Cardinality(s) - 1
      BY <1>0, <2>1, Picking
    <2>3. \A x \in s : s \ {x} \in SUBSET D /\ Out(s \ {x})
      <3> TAKE x \in s
      <3>1. s \ {x} \in Small(D, k)
        BY <2>1, <2>2 DEF Small
      <3> QED
        BY <1>2, <2>2, <3>1
    <2>4. sum[s] = IF s = {} THEN 0 ELSE f[Pick(s)] + sum[s \ {Pick(s)}]
      BY <1>0, <2>1, SumsAt
    <2>5. CASE s = {}
      BY <2>4, <2>5
    <2>6. CASE s # {}
      <3> DEFINE y == Pick(s)
      <3>1. y \in s /\ f[y] \in Int /\ sum[s \ {y}] \in Int /\ sum[s] = f[y] + sum[s \ {y}]
        BY <1>0, <2>1, <2>2, <2>3, <2>4, <2>6
      <3> HIDE DEF y
      <3>2. ASSUME NEW x \in s PROVE sum[s] = f[x] + sum[s \ {x}]
        <4>1. CASE x = y
          BY <3>1, <4>1
        <4>2. CASE x # y
          <5> DEFINE r == (s \ {y}) \ {x}
          <5>1. (s \ {x}) \ {y} = r /\ x \in s \ {y} /\ y \in s \ {x}
            BY <3>1, <4>2
          <5>2. sum[s \ {y}] = f[x] + sum[r]
            BY <2>3, <3>1, <5>1
          <5>3. sum[s \ {x}] = f[y] + sum[r] /\ sum[s \ {x}] \in Int
            BY <2>3, <5>1
          <5>4. f[x] \in Int
            BY <1>0, <2>1
          <5>5. sum[r] \in Int
            <6>1. s \ {y} \in Small(D, k)
              BY <2>1, <2>2, <3>1 DEF Small
            <6>2. s \ {y} \in SUBSET D
              BY <2>1
            <6>3. r \in SUBSET D /\ Cardinality(r) = Cardinality(s \ {y}) - 1
                  /\ Cardinality(s \ {y}) \in Nat
              BY <1>0, <5>1, <6>2, Picking
            <6>4. r \in Small(D, k)
              BY <6>1, <6>3 DEF Small
            <6> QED
              BY <1>2, <6>4
          <5> HIDE DEF r
          <5> QED
            BY <3>1, <5>2, <5>3, <5>4, <5>5
        <4> QED
          BY <4>1, <4>2
      <3>3. sum[s] \in Int
        BY <3>1
      <3> QED
        BY <3>2, <3>3
    <2> QED
      BY <2>5, <2>6
  <1>3. Nat \subseteq S
    BY <1>1, <1>2, SetInduction
  <1> SUFFICES ASSUME NEW s \in SUBSET D PROVE Out(s)
    OBVIOUS
  <1>4. Cardinality(s) \in Nat
    BY <1>0, Picking
  <1>5. s \in Small(D, Cardinality(s))
    BY <1>4 DEF Small
  <1> QED
    BY <1>3, <1>4, <1>5

\* Sums of the same numbers are the same, whatever else is there.
LEMMA SumsAgree ==
    ASSUME NEW sum, NEW f, NEW D, Summed(sum, f, D), NEW more, NEW g, NEW E, Summed(more, g, E),
           D \subseteq E, \A x \in D : f[x] = g[x]
    PROVE  \A s \in SUBSET D : sum[s] = more[s]
  <1> DEFINE S == {k \in Nat : \A s \in Small(D, k) : sum[s] = more[s]}
  <1>0. IsFiniteSet(D) /\ Sums(sum, f, SUBSET D) /\ Sums(more, g, SUBSET E)
    BY DEF Summed
  <1>1. ASSUME NEW s \in SUBSET D, s # {} => sum[s \ {Pick(s)}] = more[s \ {Pick(s)}]
        PROVE  sum[s] = more[s]
    <2>1. s \in SUBSET D /\ s \in SUBSET E
      OBVIOUS
    <2>2. sum[s] = IF s = {} THEN 0 ELSE f[Pick(s)] + sum[s \ {Pick(s)}]
      <3>1. Sums(sum, f, SUBSET D)
        BY <1>0
      <3> QED
        BY ONLY ZenonT(30), <2>1, <3>1, SumsAt
    <2>3. more[s] = IF s = {} THEN 0 ELSE g[Pick(s)] + more[s \ {Pick(s)}]
      <3>1. Sums(more, g, SUBSET E)
        BY <1>0
      <3> QED
        BY ONLY <2>1, <3>1, SumsAt
    <2>4. s # {} => Pick(s) \in D
      BY <1>0, Picking
    <2> QED
      BY <1>1, <2>2, <2>3, <2>4
  <1>2. 0 \in S
    <2> SUFFICES ASSUME NEW s \in Small(D, 0) PROVE sum[s] = more[s]
      OBVIOUS
    <2>1. s \in SUBSET D /\ Cardinality(s) <= 0
      BY DEF Small
    <2>2. s = {}
      BY <1>0, <2>1, Picking
    <2> QED
      BY <1>1, <2>1, <2>2
  <1>3. ASSUME NEW k \in Nat, k \in S PROVE k + 1 \in S
    <2> SUFFICES ASSUME NEW s \in Small(D, k + 1) PROVE sum[s] = more[s]
      OBVIOUS
    <2>1. s \in SUBSET D /\ Cardinality(s) <= k + 1
      BY DEF Small
    <2>2. s # {} => s \ {Pick(s)} \in Small(D, k)
      <3>1. s # {} => Cardinality(s) \in Nat /\ s \ {Pick(s)} \in SUBSET D
                      /\ Cardinality(s \ {Pick(s)}) = Cardinality(s) - 1
        BY <1>0, <2>1, Picking
      <3> QED
        BY <2>1, <3>1 DEF Small
    <2> QED
      BY <1>1, <1>3, <2>1, <2>2
  <1>4. Nat \subseteq S
    BY <1>2, <1>3, SetInduction
  <1> SUFFICES ASSUME NEW s \in SUBSET D PROVE sum[s] = more[s]
    OBVIOUS
  <1>5. Cardinality(s) \in Nat
    BY <1>0, Picking
  <1>6. s \in Small(D, Cardinality(s))
    BY <1>5 DEF Small
  <1> QED
    BY <1>4, <1>5, <1>6

\* The total of a sequence of numbers, when one more comes to it
LEMMA TotalOneMore ==
    ASSUME NEW n \in Nat, NEW f, DOMAIN f = 1..n, \A i \in 1..n : f[i] \in Int,
           NEW g, DOMAIN g = 1..(n + 1), \A i \in 1..n : g[i] = f[i], g[n + 1] \in Int
    PROVE  Total(f) \in Int /\ Total(g) = Total(f) + g[n + 1]
  <1> DEFINE D == 1..n
             E == 1..(n + 1)
  <1>1. IsFiniteSet(D) /\ IsFiniteSet(E) /\ D \subseteq E
    BY FS_Interval
  <1>2. \A i \in E : g[i] \in Int
    <2> TAKE i \in E
    <2>1. i \in D \/ i = n + 1
      OBVIOUS
    <2> QED
      BY <2>1
  <1>3. PICK sum : Summed(sum, f, D) /\ Total(f) = sum[D]
    BY <1>1, TotalIs DEF Summed
  <1>4. PICK more : Summed(more, g, E) /\ Total(g) = more[E]
    BY <1>1, <1>2, TotalIs DEF Summed
  <1>5. E \ {n + 1} = D /\ n + 1 \in E
    OBVIOUS
  <1> HIDE DEF D, E
  <1>6. sum[D] = more[D]
    <2>1. \A x \in D : f[x] = g[x]
      BY DEF D
    <2>2. \A s \in SUBSET D : sum[s] = more[s]
      BY <1>1, <1>3, <1>4, <2>1, SumsAgree
    <2> QED
      BY <2>2
  <1>7. more[E] = g[n + 1] + more[D] /\ more[D] \in Int
    <2>1. \A s \in SUBSET E : more[s] \in Int /\ \A x \in s : more[s] = g[x] + more[s \ {x}]
      <3>1. Summed(more, g, E)
        BY <1>4
      <3> QED
        BY ONLY <3>1, TakingOut
    <2>2. D \in SUBSET E /\ E \in SUBSET E
      BY <1>1
    <2> QED
      BY <1>5, <2>1, <2>2
  <1> QED
    BY <1>3, <1>4, <1>6, <1>7

\* There is nothing to sum in nothing.
LEMMA TotalOfNone ==
    ASSUME NEW f, DOMAIN f = {}
    PROVE  Total(f) = 0
  <1>1. PICK sum : Sums(sum, f, SUBSET {}) /\ Total(f) = sum[{}]
    BY TotalIs, FS_EmptySet
  <1>2. {} \in SUBSET {}
    OBVIOUS
  <1> QED
    BY <1>1, <1>2, SumsAt

-------------------------------------------------------------------------------
(* Types *)

\* The maximum of two numbers is one of them and not below either.
LEMMA GreatestOfTwo ==
    ASSUME NEW a \in Int, NEW b \in Int
    PROVE  /\ Max({a, b}) \in {a, b}
           /\ Max({a, b}) >= a /\ Max({a, b}) >= b
  <1>1. CASE a >= b
    <2>1. a \in {a, b} /\ \A y \in {a, b} : a >= y
      BY <1>1
    <2> QED
      BY <2>1 DEF Max
  <1>2. CASE ~(a >= b)
    <2>1. b \in {a, b} /\ \A y \in {a, b} : b >= y
      BY <1>2
    <2> QED
      BY <2>1 DEF Max
  <1> QED
    BY <1>1, <1>2

\* The output file is a sequence that the card has room for, and the place in it is
\* not behind its end.
CardInv ==
    /\ broken \in BOOLEAN
    /\ \E S : file \in Seq(S)
    /\ fp \in 0..Len(file) /\ Len(file) <= room

\* How many units f_write puts into the file at most
Fits(units) == Max({0, Min({Len(units), room - fp})})

\* What fits is all of it, or as much as the card has room for.
LEMMA FitsIs ==
    ASSUME CardInv, encode \in Encodes, NEW S, NEW units \in Seq(S)
    PROVE  /\ Fits(units) \in 0..Len(units)
           /\ Fits(units) = IF Len(units) <= room - fp THEN Len(units) ELSE room - fp
           /\ fp + Fits(units) <= room
  <1>1. room \in Nat /\ fp \in Nat /\ fp <= room /\ room - fp \in Nat /\ Len(units) \in Nat
    <2>1. room \in Nat
      BY EncoderAssumption DEF room
    <2>2. Len(file) \in Nat
      <3>1. PICK T : file \in Seq(T)
        BY DEF CardInv
      <3> QED
        BY <3>1
    <2> QED
      BY <2>1, <2>2 DEF CardInv
  <1> DEFINE there == Len(units)
             left == room - fp
             least == Min({there, left})
  <1>2. there \in Nat /\ left \in Nat /\ Fits(units) = Max({0, least})
    BY <1>1 DEF Fits
  <1> HIDE DEF there, left, least
  <1>3. least \in {there, left} /\ least <= there /\ least <= left
    <2>1. there \in Int /\ left \in Int /\ least = Min({there, left})
      BY <1>2 DEF least
    <2> QED
      BY <2>1, LeastOfTwo
  <1>4. Max({0, least}) = least
    <2>1. least \in Nat /\ least \in Int /\ 0 \in Int
      BY <1>2, <1>3
    <2>2. Max({0, least}) \in {0, least} /\ Max({0, least}) >= least /\ Max({0, least}) >= 0
      BY <2>1, GreatestOfTwo
    <2> QED
      BY <2>1, <2>2
  <1>5. Fits(units) = IF there <= left THEN there ELSE left
    BY <1>2, <1>3, <1>4
  <1> QED
    BY <1>1, <1>2, <1>5 DEF there, left

\* f_write: some of the units, as many as fit without an error, are in the file.
LEMMA WriteIsOver ==
    ASSUME NEW units, FWrite(units)
    PROVE  \/ ~broken /\ UNCHANGED broken /\ file' = Over(file, fp, units, Fits(units))
                                  /\ fp' = fp + Fits(units)
           \/ ~broken /\ broken' = TRUE /\ \E n \in 0..Fits(units) :
                                        file' = Over(file, fp, units, n) /\ fp' = fp + n
           \/ broken /\ UNCHANGED cardVars
  <1> USE DEF FWrite, Over, Fits
  <1>1. CASE broken /\ UNCHANGED cardVars
    BY <1>1
  <1>2. CASE /\ ~broken /\ UNCHANGED broken
             /\ file' = Over(file, fp, units, Fits(units)) /\ fp' = fp + Fits(units)
    BY <1>2
  <1>3. CASE ~broken /\ broken' = TRUE /\ \E n \in 0..Fits(units) :
                                        file' = Over(file, fp, units, n) /\ fp' = fp + n
    BY <1>3
  <1> QED
    BY <1>1, <1>2, <1>3

\* f_write, with or without an error, never makes the file larger than the card.
LEMMA WriteKeepsCard ==
    ASSUME CardInv, encode \in Encodes, UNCHANGED encode, NEW S, NEW units \in Seq(S),
           FWrite(units)
    PROVE  CardInv'
  <1>1. PICK T : file \in Seq(T)
    BY DEF CardInv
  <1> DEFINE R == S \cup T
             l == Len(file)
  <1>2. file \in Seq(R) /\ units \in Seq(R)
    BY <1>1, SeqMonotonic
  <1>3. l \in Nat /\ fp \in 0..l /\ l <= room /\ room \in Nat /\ broken \in BOOLEAN /\ room' = room
    BY <1>1, EncoderAssumption DEF CardInv, room
  <1>4. Fits(units) \in 0..Len(units) /\ fp + Fits(units) <= room
    BY FitsIs
  <1> HIDE DEF R
  <1>5. ASSUME NEW n \in 0..Fits(units), file' = Over(file, fp, units, n), fp' = fp + n,
               broken' \in BOOLEAN
        PROVE  CardInv'
    <2>1. n \in 0..Len(units) /\ fp + n <= room
      BY <1>3, <1>4
    <2>2. file' \in Seq(R) /\ Len(file') = IF fp + n <= l THEN l ELSE fp + n
      <3>1. PICK q \in 0..Len(file) : q = fp
        BY <1>3
      <3>2. PICK m \in 0..Len(units) : m = n
        BY <2>1
      <3>3. file \in Seq(R) /\ units \in Seq(R)
        BY <1>2
      <3>4. Over(file, q, units, m) \in Seq(R)
            /\ WritesOver(Over(file, q, units, m), file, q, units, m)
        BY ONLY <3>1, <3>2, <3>3, WrittenOver
      <3>5. file' \in Seq(R) /\ WritesOver(file', file, fp, units, n)
        BY <1>5, <3>1, <3>2, <3>4
      <3> QED
        BY <3>5 DEF WritesOver
    <2>3. fp' \in 0..Len(file') /\ Len(file') <= room'
      BY <1>3, <1>5, <2>1, <2>2
    <2> QED
      BY <1>5, <2>2, <2>3 DEF CardInv
  <1>6. CASE UNCHANGED cardVars
    BY <1>3, <1>6 DEF CardInv, cardVars
  <1>7. Fits(units) \in 0..Fits(units)
    BY <1>4
  <1>8. CASE /\ ~broken /\ UNCHANGED broken
             /\ file' = Over(file, fp, units, Fits(units)) /\ fp' = fp + Fits(units)
    <2>1. broken' \in BOOLEAN
      BY <1>3, <1>8
    <2> QED
      BY <1>5, <1>7, <1>8, <2>1
  <1>9. ASSUME broken' = TRUE, NEW n \in 0..Fits(units), file' = Over(file, fp, units, n),
               fp' = fp + n
        PROVE  CardInv'
    <2>1. broken' \in BOOLEAN
      BY <1>9
    <2> QED
      BY <1>5, <1>9, <2>1
  <1> QED
    BY <1>6, <1>8, <1>9, WriteIsOver

\* f_lseek stays in the file.
LEMMA SeekKeepsCard ==
    ASSUME CardInv, encode \in Encodes, UNCHANGED encode, NEW p \in Nat, FLseek(p)
    PROVE  CardInv'
  <1>1. PICK T : file \in Seq(T)
    BY DEF CardInv
  <1>2. Len(file) \in Nat /\ room' = room
    BY <1>1 DEF room
  <1>3. CASE fp' = Min({p, Len(file)}) /\ UNCHANGED <<file, broken>>
    <2>1. Min({p, Len(file)}) \in 0..Len(file)
      BY <1>2, LeastOfTwo
    <2> QED
      BY <1>2, <1>3, <2>1 DEF CardInv
  <1>4. CASE broken' = TRUE /\ UNCHANGED <<file, fp>>
    BY <1>2, <1>4 DEF CardInv
  <1> QED
    BY <1>3, <1>4 DEF FLseek

\* file_write_callback_ writes to the card, or not at all.
LEMMA FrameKeepsCard ==
    ASSUME CardInv, encode \in Encodes, UNCHANGED encode, NEW S, NEW units \in Seq(S),
           NEW samples, WriteCallback(units, samples)
    PROVE  CardInv'
  <1>1. CASE UNCHANGED cardVars
    BY <1>1 DEF CardInv, cardVars, room
  <1>2. CASE FWrite(units)
    BY <1>2, WriteKeepsCard
  <1> QED
    BY <1>1, <1>2 DEF WriteCallback

\* What a turn takes of the song, and the buffers with it
Taken == SubSeq(buffer, 1, TurnSize)
LeftRight == WithLeftRight(Taken)
MidAndSide == WithMidAndSide(Taken)

\* A turn takes as many samples as fill a block and one more, or all there are.
LEMMA TurnTakes ==
    ASSUME LosslessInv, Turn
    PROVE  /\ encode \in Encodes /\ state = "OK" /\ UNCHANGED <<encode, at>>
           /\ TurnSize \in Nat /\ Buffered \in Nat /\ Buffered + TurnSize <= Blocksize + 1
           /\ Taken \in Seq(Pair) /\ Len(Taken) = TurnSize
           /\ Input'
           /\ Stereo(LeftRight) /\ Len(LeftRight[1]) = Buffered + TurnSize
           /\ Joint(LeftRight, MidAndSide)
           /\ fifo \in Seq(Pair) /\ Pairs(LeftRight) = fifo \o Taken
           /\ Pairs(LeftRight) \in Seq(Pair) /\ Len(Pairs(LeftRight)) = Buffered + TurnSize
  <1>1. /\ pc = "process" /\ UNCHANGED <<encode, at>>
        /\ buffer' = SubSeq(buffer, TurnSize + 1, Len(buffer))
    BY DEF Turn
  <1>2. encode \in Encodes /\ state = "OK" /\ Input /\ Carried
    BY <1>1 DEF LosslessInv, Live, Running
  <1>3. Stereo(signal) /\ Joint(signal, mid_side) /\ fifo = Pairs(signal)
        /\ Buffered \in Nat /\ Buffered <= Blocksize /\ Blocksize \in Nat
    BY <1>2, EncoderAssumption DEF Carried, Stereo, Buffered
  <1>4. TurnSize \in Nat /\ TurnSize <= Len(buffer) /\ Buffered + TurnSize <= Blocksize + 1
    <2>1. Blocksize + 1 - Buffered \in Nat /\ Len(buffer) \in Nat
      BY <1>2, <1>3 DEF Input
    <2> DEFINE left == Blocksize + 1 - Buffered
               there == Len(buffer)
    <2>2. left \in Int /\ there \in Int /\ TurnSize = Min({left, there})
      BY <2>1 DEF TurnSize
    <2> HIDE DEF left, there
    <2>3. TurnSize \in {left, there} /\ TurnSize <= left /\ TurnSize <= there
      BY <2>2, LeastOfTwo
    <2> QED
      BY <1>3, <2>1, <2>3 DEF left, there
  <1>5. Taken \in Seq(Pair) /\ Len(Taken) = TurnSize /\ Input'
    BY <1>1, <1>2, <1>4, Advance DEF Taken
  <1>6. /\ Stereo(LeftRight) /\ Len(LeftRight[1]) = Buffered + TurnSize
        /\ Joint(LeftRight, MidAndSide)
        /\ Pairs(LeftRight) = fifo \o Taken
    BY <1>3, <1>5, Taking DEF LeftRight, MidAndSide
  <1>7. Pairs(LeftRight) \in Seq(Pair) /\ Len(Pairs(LeftRight)) = Buffered + TurnSize
        /\ fifo \in Seq(Pair)
    BY <1>3, <1>6, PairsProperties
  <1> QED
    BY <1>1, <1>2, <1>3, <1>4, <1>5, <1>6, <1>7

\* What the turn does with them
LEMMA TurnDoes ==
    ASSUME Turn
    PROVE  /\ UNCHANGED <<encode, error, update, streaminfo_offset>>
           /\ pc = "process" /\ pc' \in {"finish", "read", "process"}
           /\ \/ /\ state' = "CLIENT_ERROR" /\ fifo' = fifo \o Taken /\ failed' = TRUE
                 /\ UNCHANGED <<signal, mid_side, looseVars, current_frame_number, info,
                                historyVars, outputVars>>
              \/ /\ Buffered + TurnSize <= Blocksize
                 /\ signal' = LeftRight /\ mid_side' = MidAndSide /\ fifo' = fifo \o Taken
                 /\ UNCHANGED <<state, looseVars, current_frame_number, info,
                                historyVars, outputVars, failed>>
              \/ /\ Buffered + TurnSize > Blocksize
                 /\ ProcessFrame(LeftRight, MidAndSide, fifo \o Taken, Blocksize)
                 /\ IF state' = "OK"
                    THEN MoveOverread(InPlace(LeftRight, DoIndependent),
                                      InPlace(MidAndSide, DoMidSide))
                    ELSE UNCHANGED <<signal, mid_side>>
  BY DEF Turn, Taken, LeftRight, MidAndSide

\* The samples that are read, buffered and in the FIFO, whatever state the encoder is in
SamplesTyped ==
    /\ buffer \in Seq(Pair) /\ fifo \in Seq(Pair) /\ at \in 0..Len(song)
    /\ Stereo(signal) /\ Buffered <= Blocksize
    /\ \A c \in Channels : /\ mid_side[c] \in Seq(Int)
                           /\ Len(mid_side[c]) = IF WithMidSide THEN Buffered ELSE 0

\* They are what the invariant of the samples says while it says something of them.
Unused == ~WithMidSide => \A c \in Channels : mid_side[c] = <<>>

\* As long as the encoder is OK the buffers have their types.
LEMMA LiveTypes == Live /\ LosslessInv /\ Unused => SamplesTyped
  <1> SUFFICES ASSUME Live, LosslessInv, Unused PROVE SamplesTyped
    OBVIOUS
  <1>1. Input /\ Carried
    BY DEF LosslessInv
  <1>2. Stereo(signal) /\ Buffered <= Blocksize /\ Joint(signal, mid_side) /\ fifo = Pairs(signal)
    BY <1>1 DEF Carried
  <1>3. fifo \in Seq(Pair)
    BY <1>2, PairsProperties
  <1>4. buffer \in Seq(Pair) /\ at \in 0..Len(song)
    BY <1>1 DEF Input
  <1>5. ASSUME NEW c \in Channels
        PROVE  /\ mid_side[c] \in Seq(Int)
               /\ Len(mid_side[c]) = IF WithMidSide THEN Buffered ELSE 0
    <2>1. CASE WithMidSide
      BY <1>2, <2>1 DEF Joint, Stereo, Buffered, Channels
    <2>2. CASE ~WithMidSide
      BY <2>2, EmptySeq DEF Unused
    <2> QED
      BY <2>1, <2>2
  <1> QED
    BY <1>2, <1>3, <1>4, <1>5 DEF SamplesTyped

\* Every step keeps the types of the buffers, also one that fails.
LEMMA SamplesStep ==
    LosslessInv /\ LosslessInv' /\ SamplesTyped /\ [Next]_vars => SamplesTyped'
  <1> SUFFICES ASSUME LosslessInv, LosslessInv', SamplesTyped, [Next]_vars PROVE SamplesTyped'
    OBVIOUS
  <1> USE DEF frameVars, historyVars, clientVars
  <1>0. Live' /\ Unused' => SamplesTyped'
    <2>1. Live' /\ LosslessInv' /\ Unused' => SamplesTyped'
      BY LiveTypes, PTL
    <2> QED
      BY <2>1
  <1>1. ASSUME UNCHANGED <<encode, buffer, at, signal, mid_side, fifo>>
        PROVE  SamplesTyped'
    BY <1>1 DEF SamplesTyped, Stereo, Buffered, song, WithMidSide, stereo
  <1>2. Unused
    <2> SUFFICES ASSUME ~WithMidSide, NEW c \in Channels PROVE mid_side[c] = <<>>
      BY DEF Unused
    <2>1. mid_side[c] \in Seq(Int) /\ Len(mid_side[c]) = 0
      BY DEF SamplesTyped
    <2> QED
      BY <2>1, EmptySeq
  <1>3. ASSUME UNCHANGED encode, Live', mid_side' = mid_side \/ mid_side' = Empty
        PROVE  SamplesTyped'
    <2>1. WithMidSide' = WithMidSide
      BY <1>3 DEF WithMidSide, stereo
    <2>2. \A c \in Channels : Empty[c] = <<>>
      BY DEF Empty
    <2>3. Unused'
      BY <1>2, <1>3, <2>1, <2>2 DEF Unused
    <2> QED
      BY <1>0, <1>3, <2>3
  <1>4. ASSUME UNCHANGED <<encode, signal, mid_side>>, fifo' \in Seq(Pair), Input'
        PROVE  SamplesTyped'
    BY <1>4 DEF SamplesTyped, Stereo, Buffered, song, WithMidSide, stereo, Input
  <1>5. CASE Open
    BY <1>1, <1>5 DEF Open
  <1>6. CASE WriteMagic \/ WriteStreamInfo \/ WriteUserBlocks
    BY <1>1, <1>6 DEF WriteMagic, WriteStreamInfo, WriteUserBlocks, WriteMetadata
  <1>7. CASE ReadBlock
    <2>1. UNCHANGED <<encode, mid_side, state>> /\ pc = "read"
      BY <1>7 DEF ReadBlock
    <2>2. Live'
      BY <2>1 DEF Live, LosslessInv, Running
    <2> QED
      BY <1>3, <2>1, <2>2
  <1>8. CASE AllRead
    BY <1>1, <1>8 DEF AllRead
  <1>9. CASE Turn
    <2>1. /\ state = "OK" /\ UNCHANGED encode /\ Input' /\ Buffered \in Nat /\ TurnSize \in Nat
          /\ Stereo(LeftRight) /\ Len(LeftRight[1]) = Buffered + TurnSize
          /\ Joint(LeftRight, MidAndSide)
          /\ Pairs(LeftRight) = fifo \o Taken /\ Pairs(LeftRight) \in Seq(Pair)
          /\ Len(Pairs(LeftRight)) = Buffered + TurnSize
      BY <1>9, TurnTakes
    <2>2. ~WithMidSide => MidAndSide = mid_side /\ ~DoMidSide
      BY DEF MidAndSide, WithMidAndSide, DoMidSide
    <2>3. ASSUME UNCHANGED <<signal, mid_side>>, fifo' = fifo \o Taken
          PROVE  SamplesTyped'
      BY <1>4, <2>1, <2>3
    <2>4. ASSUME signal' = LeftRight, mid_side' = MidAndSide, UNCHANGED state
          PROVE  SamplesTyped'
      <3>1. Live'
        BY <2>1, <2>4 DEF Live
      <3>2. Unused'
        BY <1>2, <2>1, <2>2, <2>4 DEF Unused, WithMidSide, stereo
      <3> QED
        BY <1>0, <3>1, <3>2
    <2>5. ASSUME Buffered + TurnSize > Blocksize,
                 ProcessFrame(LeftRight, MidAndSide, fifo \o Taken, Blocksize),
                 UNCHANGED <<signal, mid_side>>
          PROVE  SamplesTyped'
      <3>1. /\ Blocksize \in Nat /\ Blocksize <= Len(LeftRight[1])
            /\ ProcessFrame(LeftRight, MidAndSide, Pairs(LeftRight), Blocksize)
        BY <2>1, <2>5, EncoderAssumption
      <3>2. fifo' \in {Pairs(LeftRight),
                       SubSeq(Pairs(LeftRight), Blocksize + 1, Len(LeftRight[1]))}
        BY <2>1, <3>1, FrameStep
      <3> DEFINE whole == Pairs(LeftRight)
                 m == Len(LeftRight[1])
      <3>3. whole \in Seq(Pair) /\ Len(whole) = m /\ m \in Nat
        BY <2>1
      <3> HIDE DEF whole, m
      <3>4. SubSeq(whole, Blocksize + 1, m) \in Seq(Pair)
        <4>1. \A i \in (Blocksize + 1)..m : whole[i] \in Pair
          BY <3>1, <3>3
        <4>2. Blocksize + 1 \in Int /\ m \in Int
          BY <3>1, <3>3
        <4> QED
          BY <4>1, <4>2, SubSeqProperties
      <3>5. fifo' \in Seq(Pair)
        BY <3>2, <3>3, <3>4 DEF whole, m
      <3> QED
        BY <1>4, <2>1, <2>5, <3>5
    <2>6. ASSUME state' = "OK",
                 MoveOverread(InPlace(LeftRight, DoIndependent), InPlace(MidAndSide, DoMidSide))
          PROVE  SamplesTyped'
      <3>1. Live'
        BY <2>6 DEF Live
      <3>2. ~WithMidSide => mid_side' = mid_side
        BY <2>2, <2>6 DEF MoveOverread, InPlace
      <3>3. Unused'
        BY <1>2, <2>1, <3>2 DEF Unused, WithMidSide, stereo
      <3> QED
        BY <1>0, <3>1, <3>3
    <2> QED
      BY <1>9, <2>3, <2>4, <2>5, <2>6, TurnDoes
  <1>10. CASE Finish
    <2>1. UNCHANGED <<encode, buffer, at>>
      BY <1>10 DEF Finish
    <2>2. CASE UNCHANGED <<signal, mid_side, fifo>>
      BY <1>1, <2>1, <2>2
    <2>3. CASE /\ state = "OK" /\ ProcessFrame(signal, mid_side, fifo, Buffered)
               /\ state' = "OK" /\ signal' = Empty /\ mid_side' = Empty
      BY <1>3, <2>1, <2>3 DEF Live
    <2>4. CASE /\ state = "OK" /\ ProcessFrame(signal, mid_side, fifo, Buffered)
               /\ state' # "OK" /\ UNCHANGED <<signal, mid_side>>
      <3>1. Stereo(signal) /\ Joint(signal, mid_side) /\ fifo = Pairs(signal) /\ Input
        BY <2>4 DEF LosslessInv, Live, Carried
      <3>2. /\ Buffered \in Nat /\ Len(signal[1]) = Buffered
            /\ ProcessFrame(signal, mid_side, Pairs(signal), Buffered)
        BY <2>4, <3>1 DEF Stereo, Buffered
      <3>3. fifo' \in {Pairs(signal), SubSeq(Pairs(signal), Buffered + 1, Len(signal[1]))}
        <4>1. Buffered <= Len(signal[1])
          BY <3>2
        <4> QED
          BY <2>4, <3>1, <3>2, <4>1, FrameStep
      <3>4. SubSeq(Pairs(signal), Buffered + 1, Len(signal[1])) = <<>>
        <4>1. Buffered + 1 \in Int /\ Len(signal[1]) \in Int /\ Len(signal[1]) < Buffered + 1
          BY <3>2
        <4> QED
          BY <4>1, SubSeqEmpty
      <3>5. Pairs(signal) \in Seq(Pair) /\ <<>> \in Seq(Pair)
        BY <3>1, PairsProperties
      <3>6. fifo' \in Seq(Pair)
        BY <3>3, <3>4, <3>5
      <3>7. Input'
        BY <2>1, <3>1 DEF Input, song
      <3> QED
        BY <1>4, <2>1, <2>4, <3>6, <3>7
    <2> QED
      BY <1>10, <2>2, <2>3, <2>4 DEF Finish
  <1>11. CASE Seek \/ Overwrite
    BY <1>1, <1>11 DEF Seek, Overwrite, Called
  <1>12. CASE Updated \/ Close
    BY <1>1, <1>12 DEF Updated, Close
  <1>13. CASE UNCHANGED vars
    BY <1>1, <1>13 DEF vars
  <1> QED
    BY <1>5, <1>6, <1>7, <1>8, <1>9, <1>10, <1>11, <1>12, <1>13 DEF Next, Go, Returned

Places == {"open", "magic", "streaminfo", "blocks", "padding", "read", "process",
           "finish", "seek", "overwrite", "close", "returned"}
States == OutOfMemory \cup {"UNINITIALIZED", "OK", "IO_ERROR", "CLIENT_ERROR",
                            "VERIFY_MISMATCH_IN_AUDIO_DATA"}

\* What is kept of the frames
FramesTyped ==
    /\ frame_count \in 0..(LooseFrames - 1)
    /\ current_frame_number \in Nat
    /\ info \in [total : Nat, min : Nat, max : Nat, md5 : Seq(Pair)]

TypeInv ==
    /\ pc \in Places /\ state \in States
    /\ SamplesTyped /\ FramesTyped /\ CardInv
    /\ streaminfo_offset \in Nat /\ update \in 1..4
    /\ pc = "overwrite" => update \in 1..3

\* The units of a frame
LEMMA UnitsOfFrame ==
    ASSUME NEW frame, frame.bytes \in Nat
    PROVE  \E S : FrameUnits(frame) \in Seq(S)
  <1> DEFINE S == {Unit(i, frame) : i \in 1..frame.bytes}
  <1>1. FrameUnits(frame) \in [1..frame.bytes -> S]
    BY DEF FrameUnits
  <1>2. FrameUnits(frame) \in Seq(S)
    BY <1>1, SeqDef
  <1> QED
    BY <1>2

\* A frame leaves the types as they are, and so it does the card.
LEMMA FrameTypes ==
    ASSUME state \in States, FramesTyped, CardInv, encode \in Encodes, UNCHANGED encode,
           NEW left_right, NEW ms, NEW input, NEW size \in Nat,
           Stereo(left_right), size <= Len(left_right[1]),
           ProcessFrame(left_right, ms, input, size)
    PROVE  state' \in States /\ FramesTyped' /\ CardInv'
  <1> USE DEF historyVars, outputVars, looseVars
  <1> DEFINE pairs == [i \in 1..size |-> <<left_right[1][i], left_right[2][i]>>]
  <1>1. pairs \in Seq(Pair)
    <2>1. \A i \in 1..size : <<left_right[1][i], left_right[2][i]>> \in Pair
      BY SMTT(30) DEF Stereo, Pair
    <2>2. pairs \in [1..size -> Pair]
      BY <2>1
    <2> QED
      BY <2>2, SeqDef
  <1> HIDE DEF pairs
  <1>2. ASSUME UNCHANGED <<frame_count, current_frame_number, info, cardVars>>,
               state' \in States
        PROVE  state' \in States /\ FramesTyped' /\ CardInv'
    BY <1>2 DEF FramesTyped, CardInv, cardVars, room
  <1>3. CASE /\ state' \in OutOfMemory
             /\ UNCHANGED <<looseVars, current_frame_number, info, historyVars, outputVars>>
    BY <1>2, <1>3 DEF States
  <1>4. ASSUME NEW bytes \in FrameSizes, NEW assignment,
               IF stereo = "loose" THEN frame_count' = Count(frame_count)
               ELSE UNCHANGED frame_count
        PROVE  frame_count' \in 0..(LooseFrames - 1) /\ bytes \in Nat
    BY SMTT(30), <1>4, EncoderAssumption DEF Count, FramesTyped
  <1>5. ASSUME NEW bytes \in FrameSizes, NEW assignment,
               frame_count' \in 0..(LooseFrames - 1), bytes \in Nat,
               state' = "VERIFY_MISMATCH_IN_AUDIO_DATA",
               UNCHANGED <<current_frame_number, info, historyVars, outputVars>>
        PROVE  state' \in States /\ FramesTyped' /\ CardInv'
    BY <1>5 DEF FramesTyped, CardInv, cardVars, room, States
  <1>6. ASSUME NEW bytes \in FrameSizes, NEW assignment,
               frame_count' \in 0..(LooseFrames - 1), bytes \in Nat,
               WriteFrame(FrameUnits(FrameOf(left_right, ms, size, assignment, bytes)), size)
        PROVE  CardInv'
    <2> DEFINE frame == FrameOf(left_right, ms, size, assignment, bytes)
    <2>1. frame.bytes = bytes
      BY DEF FrameOf
    <2> HIDE DEF frame
    <2>2. PICK S : FrameUnits(frame) \in Seq(S)
      BY <1>6, <2>1, UnitsOfFrame
    <2>3. WriteCallback(FrameUnits(frame), size)
      BY <1>6 DEF WriteFrame, frame
    <2> QED
      BY <2>2, <2>3, FrameKeepsCard
  <1>7. ASSUME NEW bytes \in FrameSizes, NEW assignment,
               frame_count' \in 0..(LooseFrames - 1), bytes \in Nat, CardInv',
               state' = "CLIENT_ERROR", UNCHANGED <<current_frame_number, info>>
        PROVE  state' \in States /\ FramesTyped' /\ CardInv'
    BY <1>7 DEF FramesTyped, States
  <1>8. ASSUME NEW bytes \in FrameSizes, NEW assignment,
               frame_count' \in 0..(LooseFrames - 1), bytes \in Nat, CardInv',
               UNCHANGED state,
               current_frame_number' = current_frame_number + 1,
               info' = [total |-> info.total + size, md5 |-> info.md5 \o pairs,
                        min |-> Min({bytes, info.min}), max |-> Max({bytes, info.max})]
        PROVE  state' \in States /\ FramesTyped' /\ CardInv'
    <2>1. info.total \in Nat /\ info.min \in Nat /\ info.max \in Nat /\ info.md5 \in Seq(Pair)
      BY DEF FramesTyped
    <2>2. Min({bytes, info.min}) \in Nat
      <3> DEFINE a == info.min
      <3>1. a \in Nat /\ a \in Int /\ bytes \in Int
        BY <1>8, <2>1
      <3> HIDE DEF a
      <3>2. Min({bytes, a}) \in {bytes, a}
        BY <3>1, LeastOfTwo
      <3> QED
        BY <1>8, <3>1, <3>2 DEF a
    <2>3. Max({bytes, info.max}) \in Nat
      <3> DEFINE a == info.max
      <3>1. a \in Nat /\ a \in Int /\ bytes \in Int
        BY <1>8, <2>1
      <3> HIDE DEF a
      <3>2. Max({bytes, a}) \in {bytes, a}
        BY <3>1, GreatestOfTwo
      <3> QED
        BY <1>8, <3>1, <3>2 DEF a
    <2>4. info.md5 \o pairs \in Seq(Pair)
      BY <1>1, <2>1, ConcatProperties
    <2>5. info' \in [total : Nat, min : Nat, max : Nat, md5 : Seq(Pair)]
      BY SMTT(30), <1>8, <2>1, <2>2, <2>3, <2>4
    <2>6. current_frame_number' \in Nat
      BY <1>8 DEF FramesTyped
    <2> QED
      BY <1>8, <2>5, <2>6 DEF FramesTyped
  <1>9. ASSUME NEW assignment \in Assignments, NEW bytes \in FrameSizes,
               IF stereo = "loose" THEN frame_count' = Count(frame_count)
               ELSE UNCHANGED frame_count,
               \/ /\ state' = "VERIFY_MISMATCH_IN_AUDIO_DATA"
                  /\ UNCHANGED <<current_frame_number, info, historyVars, outputVars>>
               \/ /\ WriteFrame(FrameUnits(FrameOf(left_right, ms, size, assignment, bytes)), size)
                  /\ \/ state' = "CLIENT_ERROR" /\ UNCHANGED <<current_frame_number, info>>
                     \/ /\ current_frame_number' = current_frame_number + 1
                        /\ info' = [total |-> info.total + size, md5 |-> info.md5 \o pairs,
                                    min |-> Min({bytes, info.min}),
                                    max |-> Max({bytes, info.max})]
                        /\ UNCHANGED state
        PROVE  state' \in States /\ FramesTyped' /\ CardInv'
    BY <1>4, <1>5, <1>6, <1>7, <1>8, <1>9
  <1>10. \/ /\ state' \in OutOfMemory
            /\ UNCHANGED <<looseVars, current_frame_number, info, historyVars, outputVars>>
         \/ \E assignment \in Assignments, bytes \in FrameSizes :
               /\ IF stereo = "loose" THEN frame_count' = Count(frame_count)
                  ELSE UNCHANGED frame_count
               /\ \/ /\ state' = "VERIFY_MISMATCH_IN_AUDIO_DATA"
                     /\ UNCHANGED <<current_frame_number, info, historyVars, outputVars>>
                  \/ /\ WriteFrame(FrameUnits(FrameOf(left_right, ms, size, assignment, bytes)),
                                   size)
                     /\ \/ state' = "CLIENT_ERROR" /\ UNCHANGED <<current_frame_number, info>>
                        \/ /\ current_frame_number' = current_frame_number + 1
                           /\ info' = [total |-> info.total + size, md5 |-> info.md5 \o pairs,
                                       min |-> Min({bytes, info.min}),
                                       max |-> Max({bytes, info.max})]
                           /\ UNCHANGED state
    BY DEF ProcessFrame, pairs
  <1> QED
    BY <1>3, <1>9, <1>10

\* The parts of the metadata are sequences.
LEMMA MetadataUnits ==
    ASSUME NEW a, NEW b, NEW c
    PROVE  /\ \E S : Magic \in Seq(S)
           /\ \E S : StreamInfo(a, b, c) \in Seq(S)
           /\ \E S : <<UserBlocks[1]>> \in Seq(S)
           /\ \E S : <<UserBlocks[2]>> \in Seq(S)
  <1>1. \A u : <<u>> \in Seq({u})
    OBVIOUS
  <1>2. \A t, u, v, w : <<t, u, v, w>> \in Seq({t, u, v, w})
    OBVIOUS
  <1>3. Magic \in Seq({Unit("magic", 0)})
    BY <1>1 DEF Magic
  <1>4. \E S : StreamInfo(a, b, c) \in Seq(S)
    BY <1>2 DEF StreamInfo
  <1> QED
    BY <1>1, <1>3, <1>4

\* Where and what update_metadata_ writes: 3 units of STREAMINFO
LEMMA UpdatesAre ==
    /\ Len(Updates) = 3
    /\ Updates[1].at = streaminfo_offset + 3 /\ Updates[1].unit = Unit("md5", info.md5)
    /\ Updates[2].at = streaminfo_offset + 2 /\ Updates[2].unit = Unit("total", info.total)
    /\ Updates[3].at = streaminfo_offset + 1
    /\ Updates[3].unit = Unit("framesizes", <<info.min, info.max>>)
  BY DEF Updates

\* Every step keeps the types.
LEMMA TypeStep == LosslessInv /\ LosslessInv' /\ TypeInv /\ [Next]_vars => TypeInv'
  <1> SUFFICES ASSUME LosslessInv, LosslessInv', TypeInv, [Next]_vars PROVE TypeInv'
    OBVIOUS
  <1>1. SamplesTyped'
    BY SamplesStep DEF TypeInv
  <1> USE DEF TypeInv, frameVars, historyVars, outputVars, clientVars
  <1>2. encode \in Encodes
    BY DEF LosslessInv
  <1>3. ASSUME UNCHANGED <<encode, frame_count, current_frame_number, info, cardVars,
                           streaminfo_offset, update>>,
               pc' \in Places \ {"overwrite"}, state' \in States
        PROVE  TypeInv'
    BY <1>1, <1>3 DEF FramesTyped, CardInv, cardVars, room, looseVars
  <1> USE DEF looseVars
  <1>4. CASE Open
    <2>1. /\ pc' \in {"magic", "finish"}
          /\ state' \in {"OK"} \cup OutOfMemory \cup {"UNINITIALIZED", "IO_ERROR"}
          /\ UNCHANGED <<encode, frame_count, current_frame_number, info, cardVars,
                         streaminfo_offset, update>>
      BY <1>4 DEF Open
    <2> QED
      BY <1>3, <2>1 DEF Places, States
  <1>5. ASSUME NEW here, NEW next \in Places \ {"overwrite"}, NEW S, NEW units \in Seq(S),
               WriteMetadata(here, units, next), streaminfo_offset' \in Nat
        PROVE  TypeInv'
    <2>1. /\ UNCHANGED <<encode, frame_count, current_frame_number, info, update>>
          /\ pc' \in {next, "finish"} /\ state' \in OutOfMemory \cup {"CLIENT_ERROR", state}
          /\ WriteCallback(units, 0) \/ UNCHANGED cardVars
      BY <1>5 DEF WriteMetadata, WriteFrame
    <2>2. CardInv'
      <3>1. CASE WriteCallback(units, 0)
        BY <1>2, <1>5, <2>1, <3>1, FrameKeepsCard
      <3>2. CASE UNCHANGED cardVars
        BY <2>1, <3>2 DEF CardInv, cardVars, room
      <3> QED
        BY <2>1, <3>1, <3>2
    <2>3. pc' \in Places \ {"overwrite"} /\ state' \in States
      BY <1>5, <2>1 DEF Places, States
    <2> QED
      BY <1>1, <1>5, <2>1, <2>2, <2>3 DEF FramesTyped
  <1>6. CASE WriteMagic
    BY <1>5, <1>6, MetadataUnits DEF WriteMagic, Places
  <1>7. CASE WriteStreamInfo
    <2>1. fp \in Nat
      <3>1. PICK S : file \in Seq(S)
        BY DEF CardInv
      <3> QED
        BY <3>1 DEF CardInv
    <2>2. streaminfo_offset' \in Nat
      BY <1>7, <2>1 DEF WriteStreamInfo
    <2> QED
      BY <1>5, <1>7, <2>2, MetadataUnits DEF WriteStreamInfo, Places
  <1>8. CASE WriteUserBlocks
    BY <1>5, <1>8, MetadataUnits DEF WriteUserBlocks, Places
  <1>9. CASE ReadBlock \/ AllRead
    <2>1. /\ UNCHANGED <<encode, frame_count, current_frame_number, info, cardVars, state,
                         streaminfo_offset, update>>
          /\ pc' \in {"process", "finish"}
      BY <1>9 DEF ReadBlock, AllRead
    <2> QED
      BY <1>3, <2>1 DEF Places
  <1>10. ASSUME NEW left_right, NEW ms, NEW input, NEW size \in Nat,
                Stereo(left_right), size <= Len(left_right[1]),
                ProcessFrame(left_right, ms, input, size),
                UNCHANGED <<encode, streaminfo_offset, update>>,
                pc' \in Places \ {"overwrite"}
         PROVE  TypeInv'
    <2>1. state' \in States /\ FramesTyped' /\ CardInv'
      BY <1>2, <1>10, FrameTypes
    <2> QED
      BY <1>1, <1>10, <2>1
  <1>11. CASE Turn
    <2>1. /\ Stereo(LeftRight) /\ Len(LeftRight[1]) = Buffered + TurnSize
          /\ Buffered \in Nat /\ TurnSize \in Nat
      BY <1>11, TurnTakes
    <2>2. /\ UNCHANGED <<encode, streaminfo_offset, update>>
          /\ pc' \in Places \ {"overwrite"}
      BY <1>11, TurnDoes DEF Places
    <2>3. \/ /\ UNCHANGED <<frame_count, current_frame_number, info, cardVars>>
             /\ state' \in States
          \/ /\ Buffered + TurnSize > Blocksize
             /\ ProcessFrame(LeftRight, MidAndSide, fifo \o Taken, Blocksize)
      BY <1>11, TurnDoes DEF States
    <2>4. CASE Buffered + TurnSize > Blocksize
               /\ ProcessFrame(LeftRight, MidAndSide, fifo \o Taken, Blocksize)
      <3>1. Blocksize \in Nat /\ Blocksize <= Len(LeftRight[1])
        BY <2>1, <2>4, EncoderAssumption
      <3> QED
        BY <1>10, <2>1, <2>2, <2>4, <3>1
    <2> QED
      BY <1>3, <2>2, <2>3, <2>4
  <1>12. CASE Finish
    <2>1. /\ UNCHANGED <<encode, streaminfo_offset, update>>
          /\ pc' \in Places \ {"overwrite"}
      BY <1>12 DEF Finish, Places
    <2>2. Stereo(signal) /\ Buffered \in Nat /\ Buffered <= Len(signal[1])
      BY DEF SamplesTyped, Stereo, Buffered
    <2>3. \/ UNCHANGED <<frame_count, current_frame_number, info, cardVars, state>>
          \/ ProcessFrame(signal, mid_side, fifo, Buffered)
      BY <1>12 DEF Finish
    <2> QED
      BY <1>3, <1>10, <2>1, <2>2, <2>3
  <1>13. ASSUME NEW next, Called(next), CardInv', update' \in 1..4,
                next \in Places, next = "overwrite" => update' \in 1..3
         PROVE  TypeInv'
    <2>1. /\ UNCHANGED <<encode, frame_count, current_frame_number, info, streaminfo_offset>>
          /\ pc' \in {next, "close"} /\ state' \in {"CLIENT_ERROR", state}
      BY <1>13 DEF Called
    <2>2. pc' \in Places /\ state' \in States /\ (pc' = "overwrite" => update' \in 1..3)
      BY <1>13, <2>1 DEF Places, States
    <2> QED
      BY <1>1, <1>13, <2>1, <2>2 DEF FramesTyped
  <1>14. CASE Seek
    <2>1. update \in 1..3 /\ UNCHANGED <<encode, update>> /\ Called("overwrite")
      BY <1>14, UpdatesAre DEF Seek, Called
    <2>2. Updates[update].at \in Nat
      BY <2>1, UpdatesAre
    <2>3. CardInv'
      <3>1. CASE UNCHANGED cardVars
        BY <2>1, <3>1 DEF CardInv, cardVars, room
      <3>2. CASE FLseek(Updates[update].at)
        BY <1>2, <2>1, <2>2, <3>2, SeekKeepsCard
      <3> QED
        BY <1>14, <3>1, <3>2 DEF Seek
    <2> QED
      BY <1>13, <2>1, <2>3 DEF Places
  <1>15. CASE Overwrite
    <2>1. update \in 1..3 /\ UNCHANGED encode /\ update' = update + 1 /\ Called("seek")
      BY <1>15 DEF Overwrite, Called
    <2>2. CardInv'
      <3>1. CASE UNCHANGED cardVars
        BY <2>1, <3>1 DEF CardInv, cardVars, room
      <3>2. CASE FWrite(<<Updates[update].unit>>)
        <4>1. <<Updates[update].unit>> \in Seq({Updates[update].unit})
          OBVIOUS
        <4> QED
          BY <1>2, <2>1, <3>2, <4>1, WriteKeepsCard
      <3> QED
        BY <1>15, <3>1, <3>2 DEF Overwrite
    <2> QED
      BY <1>13, <2>1, <2>2 DEF Places
  <1>16. CASE Updated \/ Close
    <2>1. /\ UNCHANGED <<encode, frame_count, current_frame_number, info, cardVars,
                         streaminfo_offset, update>>
          /\ pc' \in {"close", "returned"} /\ state' \in {"UNINITIALIZED", state}
      BY <1>16 DEF Updated, Close
    <2> QED
      BY <1>3, <2>1 DEF Places, States
  <1>17. CASE UNCHANGED vars
    <2>1. UNCHANGED <<encode, pc, state, frame_count, current_frame_number, info, cardVars,
                      streaminfo_offset, update>>
      BY <1>17 DEF vars
    <2> QED
      BY <1>1, <2>1 DEF FramesTyped, CardInv, cardVars, room
  <1> QED
    BY <1>4, <1>6, <1>7, <1>8, <1>9, <1>11, <1>12, <1>14, <1>15, <1>16, <1>17
       DEF Next, Go, Returned

\* The types hold at first.
LEMMA TypeInit == Init => TypeInv
  <1> SUFFICES ASSUME Init PROVE TypeInv
    OBVIOUS
  <1>1. LosslessInv /\ Live
    BY LosslessInit DEF Init, Live
  <1>2. SamplesTyped
    <2>1. Unused
      BY DEF Init, Unused, Empty
    <2> QED
      BY <1>1, <2>1, LiveTypes
  <1>3. FramesTyped
    <2>1. NoMd5 \in Seq(Pair)
      BY EmptySeq DEF NoMd5
    <2>2. info = [total |-> 0, min |-> NoFramesize, max |-> 0, md5 |-> NoMd5]
          /\ frame_count = 0 /\ current_frame_number = 0
      BY DEF Init
    <2> QED
      BY <2>1, <2>2, EncoderAssumption DEF FramesTyped
  <1>4. CardInv
    <2>1. file = <<>> /\ fp = 0 /\ broken = FALSE /\ encode \in Encodes
      BY DEF Init
    <2>2. room \in Nat
      BY <2>1, EncoderAssumption DEF room
    <2>3. file \in Seq({}) /\ Len(file) = 0
      BY <2>1, EmptySeq
    <2>4. \E S : file \in Seq(S)
      BY <2>3
    <2>5. Len(file) = 0 /\ fp = 0 /\ broken \in BOOLEAN
      BY <2>1, <2>3
    <2>6. fp \in 0..Len(file) /\ Len(file) <= room
      BY <2>2, <2>5
    <2> QED
      BY <2>4, <2>5, <2>6 DEF CardInv
  <1>5. pc = "open" /\ state = "UNINITIALIZED" /\ streaminfo_offset = 0 /\ update = 1
    BY DEF Init
  <1> QED
    BY <1>2, <1>3, <1>4, <1>5 DEF TypeInv, Places, States

\* The encoder's state has its types: the buffers never hold more than a block between
\* calls, those of middle and side keep the length of those of left and right, also when
\* a call fails in the middle of them, the file never outgrows the card, and
\* update_metadata_ stays in STREAMINFO.
THEOREM TypeCorrect == Spec => []TypeOK
  <1>1. ErrorInv /\ TypeInv => TypeOK
    <2> SUFFICES ASSUME ErrorInv, TypeInv PROVE TypeOK
      OBVIOUS
    <2>1. ok \in BOOLEAN /\ error \in BOOLEAN /\ broken \in BOOLEAN /\ failed \in BOOLEAN
      BY DEF ErrorInv, TypeInv, CardInv
    <2>2. Len(Updates) = 3
      BY UpdatesAre
    <2>3. \A c \in Channels : signal[c] \in Seq(Int) /\ Len(signal[c]) <= Blocksize
      BY DEF TypeInv, SamplesTyped, Stereo, Buffered, Channels
    <2>4. fp \in 0..Len(file) /\ Len(file) <= room
      BY DEF TypeInv, CardInv
    <2>5. update \in 1..(Len(Updates) + 1)
      BY <2>2 DEF TypeInv
    <2> QED
      BY <2>1, <2>3, <2>4, <2>5 DEF TypeOK, TypeInv, Places, States, SamplesTyped, FramesTyped
  <1>2. Init => ErrorInv
    BY DEF Init, ErrorInv
  <1> QED
    BY <1>1, <1>2, ErrorStep, TypeInit, TypeStep, InductiveLossless, PTL DEF Spec

-------------------------------------------------------------------------------
(* Frames, STREAMINFO and the file *)

\* A frame that is taken is passed on whole, with its samples in the MD5, or the encoder
\* is not OK any more and that is known.
FrameTaken(left_right, ms, n) ==
    \E assignment \in Assignments, bytes \in FrameSizes :
       LET frame == FrameOf(left_right, ms, n, assignment, bytes)
       IN /\ state' = "OK" /\ ~broken' /\ failed' = (failed \/ broken')
          /\ WriteFrame(FrameUnits(frame), n)
          /\ current_frame_number' = current_frame_number + 1
          /\ info' = [total |-> info.total + n, md5 |-> info.md5 \o SubSeq(Pairs(left_right), 1, n),
                      min |-> Min({bytes, info.min}), max |-> Max({bytes, info.max})]
          /\ frames' = Append(frames, frame)
          /\ audio' = audio \o SubSeq(Pairs(left_right), 1, n)

FrameLost ==
    /\ state' # "OK" /\ (failed' = TRUE \/ (broken' /\ failed' = (failed \/ broken')))
    /\ broken' \/ UNCHANGED outputVars
    /\ UNCHANGED <<current_frame_number, info, historyVars>>

\* process_frame_ passes the frame on whole, with what it was made of, or is known to have
\* failed.
LEMMA FrameOutcome ==
    ASSUME NEW left_right, NEW ms, NEW n \in Nat, state = "OK",
           Stereo(left_right), n <= Len(left_right[1]), Joint(left_right, ms),
           ProcessFrame(left_right, ms, Pairs(left_right), n)
    PROVE  FrameTaken(left_right, ms, n) \/ FrameLost
  <1> DEFINE input == Pairs(left_right)
             frame(assignment, bytes) == FrameOf(left_right, ms, n, assignment, bytes)
             pairs == [i \in 1..n |-> <<left_right[1][i], left_right[2][i]>>]
  <1>1. SubSeq(input, 1, n) = pairs
    <2>1. /\ input \in Seq(Pair) /\ Len(input) = Len(left_right[1])
          /\ \A i \in 1..Len(left_right[1]) : input[i] = <<left_right[1][i], left_right[2][i]>>
      BY PairsProperties
    <2>2. n \in 0..Len(input) /\ Len(left_right[1]) \in Nat
      BY <2>1
    <2> HIDE DEF input
    <2>3. /\ SubSeq(input, 1, n) \in Seq(Pair) /\ Len(SubSeq(input, 1, n)) = n
          /\ \A i \in 1..n : SubSeq(input, 1, n)[i] = input[i]
      BY <2>1, <2>2, FrontOf
    <2>4. SubSeq(input, 1, n) \in [1..n -> Pair]
      BY <2>3, LenProperties
    <2>5. \A i \in 1..n : SubSeq(input, 1, n)[i] = <<left_right[1][i], left_right[2][i]>>
      BY <2>1, <2>2, <2>3
    <2> QED
      BY <2>4, <2>5
  <1>2. ASSUME NEW assignment \in Assignments, NEW bytes \in FrameSizes
        PROVE  Decoded(frame(assignment, bytes)) = pairs
    <2>1. Decoded(FrameOf(left_right, ms, n, assignment, bytes))
              = [i \in 1..n |-> <<left_right[1][i], left_right[2][i]>>]
      BY FramesGiveBack
    <2> QED
      BY <2>1
  <1> HIDE DEF pairs, frame
  <1>3. \/ state' \in OutOfMemory /\ failed' = TRUE
           /\ UNCHANGED <<current_frame_number, info, historyVars, outputVars>>
        \/ \E assignment \in Assignments, bytes \in FrameSizes :
              \/ Decoded(frame(assignment, bytes)) # SubSeq(input, 1, n)
              \/ /\ WriteFrame(FrameUnits(frame(assignment, bytes)), n)
                 /\ failed' = (failed \/ broken')
                 /\ IF broken'
                    THEN /\ state' = "CLIENT_ERROR"
                         /\ UNCHANGED <<current_frame_number, info, historyVars>>
                    ELSE /\ current_frame_number' = current_frame_number + 1
                         /\ info' = [total |-> info.total + n, md5 |-> info.md5 \o pairs,
                                     min |-> Min({bytes, info.min}),
                                     max |-> Max({bytes, info.max})]
                         /\ frames' = Append(frames, frame(assignment, bytes))
                         /\ audio' = audio \o Decoded(frame(assignment, bytes))
                         /\ UNCHANGED state
    BY DEF ProcessFrame, pairs, frame
  <1>4. CASE state' \in OutOfMemory /\ failed' = TRUE
             /\ UNCHANGED <<current_frame_number, info, historyVars, outputVars>>
    BY <1>4 DEF FrameLost, OutOfMemory
  <1>5. ASSUME NEW assignment \in Assignments, NEW bytes \in FrameSizes,
               WriteFrame(FrameUnits(frame(assignment, bytes)), n),
               failed' = (failed \/ broken'), broken', state' = "CLIENT_ERROR",
               UNCHANGED <<current_frame_number, info, historyVars>>
        PROVE  FrameLost
    BY <1>5 DEF FrameLost
  <1>6. ASSUME NEW assignment \in Assignments, NEW bytes \in FrameSizes,
               WriteFrame(FrameUnits(frame(assignment, bytes)), n),
               failed' = (failed \/ broken'), ~broken',
               current_frame_number' = current_frame_number + 1,
               info' = [total |-> info.total + n, md5 |-> info.md5 \o pairs,
                        min |-> Min({bytes, info.min}), max |-> Max({bytes, info.max})],
               frames' = Append(frames, frame(assignment, bytes)),
               audio' = audio \o pairs, UNCHANGED state
        PROVE  FrameTaken(left_right, ms, n)
    <2> HIDE DEF input
    <2>1. WriteFrame(FrameUnits(FrameOf(left_right, ms, n, assignment, bytes)), n)
          /\ frames' = Append(frames, FrameOf(left_right, ms, n, assignment, bytes))
      BY <1>6 DEF frame
    <2>2. SubSeq(Pairs(left_right), 1, n) = pairs
      BY <1>1 DEF input
    <2> QED
      BY <1>6, <2>1, <2>2 DEF FrameTaken
  <1> QED
    BY <1>1, <1>2, <1>3, <1>4, <1>5, <1>6

\* The frames that were passed on, one by one, and what STREAMINFO will say of them
Blocks(fs) == [i \in 1..Len(fs) |-> FrameUnits(fs[i])]
Sizes(fs) == {fs[i].bytes : i \in 1..Len(fs)}
Flattened(fs) == \E S : Blocks(fs) \in Seq(Seq(S)) /\ FlattenSeq(Blocks(fs)) \in Seq(S)

Numbered(fs) ==
    \A i \in 1..Len(fs) : fs[i].number = i - 1 /\ fs[i].bytes \in FrameSizes /\ fs[i].size \in Nat

Measured ==
    /\ info.min \in Sizes(frames) \cup {NoFramesize} /\ info.max \in Sizes(frames) \cup {0}
    /\ Len(frames) > 0 => info.min \in Sizes(frames) /\ info.max \in Sizes(frames)
    /\ \A n \in Sizes(frames) : info.min <= n /\ n <= info.max

Setup == {"open", "magic", "streaminfo", "blocks", "padding"}
Ending == {"seek", "overwrite", "close", "returned"}

\* Every frame but the last one, which finish makes, is a whole block.
Whole ==
    /\ pc \in Setup => Len(frames) = 0
    /\ \A i \in 1..Len(frames) : i < Len(frames) \/ pc \notin Ending => frames[i].size = Blocksize

Books ==
    /\ \E S : frames \in Seq(S)
    /\ Numbered(frames) /\ Flattened(frames) /\ Measured
    /\ current_frame_number = Len(frames)
    /\ audio \in Seq(Pair) /\ info.total = Len(audio) /\ info.md5 = audio

\* One frame more
OneMore(fs, frame, more) ==
    /\ \E T : more \in Seq(T)
    /\ Len(more) = Len(fs) + 1 /\ Len(fs) \in Nat
    /\ \A i \in 1..Len(fs) : more[i] = fs[i]
    /\ more[Len(fs) + 1] = frame
    /\ Flattened(more)
    /\ FlattenSeq(Blocks(more)) = FlattenSeq(Blocks(fs)) \o FrameUnits(frame)

\* Units of one frame more are joined behind those of the frames before.
LEMMA OneFrameMore ==
    ASSUME NEW S, NEW fs \in Seq(S), Flattened(fs), NEW frame, frame.bytes \in Nat,
           NEW more, more = Append(fs, frame)
    PROVE  OneMore(fs, frame, more)
  <1> DEFINE n == Len(fs)
  <1>1. /\ more \in Seq(S \cup {frame}) /\ Len(more) = n + 1 /\ n \in Nat
        /\ \A i \in 1..n : more[i] = fs[i]
        /\ more[n + 1] = frame
    <2>1. fs \in Seq(S \cup {frame})
      BY SeqMonotonic
    <2> QED
      BY <2>1, AppendProperties
  <1>2. PICK T : Blocks(fs) \in Seq(Seq(T)) /\ FlattenSeq(Blocks(fs)) \in Seq(T)
    BY DEF Flattened
  <1>3. PICK U : FrameUnits(frame) \in Seq(U)
    BY UnitsOfFrame
  <1> DEFINE R == T \cup U
             s == Blocks(fs)
             t == Blocks(more)
  <1>4. Seq(T) \subseteq Seq(R) /\ Seq(U) \subseteq Seq(R)
    <2>1. \A q \in Seq(T) : q \in Seq(R)
      BY SeqMonotonic
    <2>2. \A q \in Seq(U) : q \in Seq(R)
      BY SeqMonotonic
    <2> QED
      BY <2>1, <2>2
  <1>5. s \in Seq(Seq(R)) /\ FlattenSeq(s) \in Seq(R) /\ FrameUnits(frame) \in Seq(R)
    <2>1. Blocks(fs) \in Seq(Seq(R))
      BY <1>2, <1>4, SeqMonotonic
    <2> QED
      BY <1>2, <1>3, <1>4, <2>1
  <1> HIDE DEF R
  <1>6. Len(s) = n /\ \A i \in 1..n : s[i] = FrameUnits(fs[i])
    <2>1. DOMAIN s = 1..n
      BY DEF Blocks
    <2>2. DOMAIN s = 1..Len(s) /\ Len(s) \in Nat
      BY <1>5, LenProperties
    <2>3. Len(s) = n
      BY <1>1, <2>1, <2>2
    <2> QED
      BY <2>3 DEF Blocks
  <1>7. t = [i \in 1..(n + 1) |-> FrameUnits(more[i])]
    BY <1>1 DEF Blocks
  <1> HIDE DEF s
  <1>8. \A i \in 1..(n + 1) : FrameUnits(more[i]) \in Seq(R)
    <2> TAKE i \in 1..(n + 1)
    <2>1. CASE i \in 1..n
      <3>1. s[i] \in Seq(R)
        BY <1>5, <1>6, <2>1
      <3>2. s[i] = FrameUnits(more[i])
        BY <1>1, <1>6, <2>1
      <3> QED
        BY <3>1, <3>2
    <2>2. CASE i = n + 1
      BY <1>1, <1>5, <2>2
    <2> QED
      BY <1>1, <2>1, <2>2
  <1>9. t \in Seq(Seq(R)) /\ Len(t) = n + 1
    <2>1. t \in [1..(n + 1) -> Seq(R)]
      BY <1>7, <1>8
    <2>2. n + 1 \in Nat
      BY <1>1
    <2> HIDE DEF t
    <2> QED
      BY <2>1, <2>2, SeqDef
  <1>10. \A i \in 1..Len(s) : t[i] = s[i]
    BY <1>1, <1>6, <1>7
  <1>11. t[n + 1] = FrameUnits(frame)
    BY <1>1, <1>7
  <1> HIDE DEF t, n
  <1>12. FlattenSeq(t) = FlattenSeq(s) \o t[Len(t)] /\ FlattenSeq(t) \in Seq(R)
    BY <1>5, <1>6, <1>9, <1>10, FlattenOneMore
  <1>13. Flattened(more)
    BY <1>9, <1>12 DEF Flattened, t
  <1> QED
    BY <1>1, <1>9, <1>11, <1>12, <1>13 DEF s, t, n, OneMore

\* A frame that is passed on is told of by STREAMINFO.
LEMMA FrameBooks ==
    ASSUME Books, NEW left_right, NEW ms, NEW n \in Nat, Stereo(left_right),
           n <= Len(left_right[1]), FrameTaken(left_right, ms, n)
    PROVE  /\ Books' /\ Len(frames) \in Nat /\ Len(frames') = Len(frames) + 1
           /\ \A i \in 1..Len(frames) : frames'[i] = frames[i]
           /\ frames'[Len(frames) + 1].size = n
           /\ WriteFrame(FrameUnits(frames'[Len(frames) + 1]), n)
           /\ FlattenSeq(Blocks(frames')) =
                  FlattenSeq(Blocks(frames)) \o FrameUnits(frames'[Len(frames) + 1])
  <1>1. PICK assignment \in Assignments, bytes \in FrameSizes :
          LET frame == FrameOf(left_right, ms, n, assignment, bytes)
          IN /\ WriteFrame(FrameUnits(frame), n)
             /\ current_frame_number' = current_frame_number + 1
             /\ info' = [total |-> info.total + n,
                         md5 |-> info.md5 \o SubSeq(Pairs(left_right), 1, n),
                         min |-> Min({bytes, info.min}), max |-> Max({bytes, info.max})]
             /\ frames' = Append(frames, frame)
             /\ audio' = audio \o SubSeq(Pairs(left_right), 1, n)
    BY DEF FrameTaken
  <1> DEFINE frame == FrameOf(left_right, ms, n, assignment, bytes)
             m == Len(frames)
             taken == SubSeq(Pairs(left_right), 1, n)
  <1>2. frame.bytes = bytes /\ frame.size = n /\ frame.number = current_frame_number
    BY DEF FrameOf
  <1>3. bytes \in Nat /\ bytes > 0 /\ bytes < NoFramesize /\ NoFramesize \in Nat
    BY EncoderAssumption
  <1>4. WriteFrame(FrameUnits(frame), n) /\ frames' = Append(frames, frame)
    BY <1>1
  <1> HIDE DEF frame
  <1>5. PICK S : frames \in Seq(S)
    BY DEF Books
  <1>6. /\ \E T : frames' \in Seq(T)
        /\ Len(frames') = m + 1 /\ m \in Nat
        /\ \A i \in 1..m : frames'[i] = frames[i]
        /\ frames'[m + 1] = frame
        /\ Flattened(frames')
        /\ FlattenSeq(Blocks(frames')) = FlattenSeq(Blocks(frames)) \o FrameUnits(frame)
    <2>1. Flattened(frames) /\ frame.bytes \in Nat
      BY <1>2, <1>3 DEF Books
    <2>2. frames' = Append(frames, frame) /\ frames \in Seq(S)
      BY <1>4, <1>5
    <2>3. OneMore(frames, frame, frames')
      BY <2>1, <2>2, OneFrameMore
    <2> QED
      BY <2>3 DEF OneMore
  <1> HIDE DEF m
  <1>7. current_frame_number = m
    BY DEF Books, m
  <1>8. Numbered(frames')
    <2> SUFFICES ASSUME NEW i \in 1..(m + 1)
                 PROVE  /\ frames'[i].number = i - 1 /\ frames'[i].bytes \in FrameSizes
                        /\ frames'[i].size \in Nat
      BY <1>6 DEF Numbered
    <2>1. CASE i \in 1..m
      BY <1>6, <2>1 DEF Books, Numbered, m
    <2>2. CASE i = m + 1
      BY <1>2, <1>6, <1>7, <2>2
    <2> QED
      BY <1>6, <2>1, <2>2
  <1>9. Sizes(frames') = Sizes(frames) \cup {bytes}
    <2>1. Sizes(frames') \subseteq Sizes(frames) \cup {bytes}
      <3> SUFFICES ASSUME NEW i \in 1..(m + 1) PROVE frames'[i].bytes \in Sizes(frames) \cup {bytes}
        BY <1>6 DEF Sizes
      <3>1. CASE i \in 1..m
        BY <1>6, <3>1 DEF Sizes, m
      <3>2. CASE i = m + 1
        BY <1>2, <1>6, <3>2
      <3> QED
        BY <1>6, <3>1, <3>2
    <2>2. Sizes(frames) \subseteq Sizes(frames')
      <3> SUFFICES ASSUME NEW i \in 1..m PROVE frames[i].bytes \in Sizes(frames')
        BY DEF Sizes, m
      <3>0. m \in Nat
        BY <1>6
      <3>1. i \in 1..(m + 1) /\ frames[i] = frames'[i]
        BY <1>6, <3>0
      <3> QED
        BY <1>6, <3>1 DEF Sizes
    <2>3. bytes \in Sizes(frames')
      <3>1. m + 1 \in 1..(m + 1) /\ frames'[m + 1].bytes = bytes
        BY <1>2, <1>6
      <3> QED
        BY <1>6, <3>1 DEF Sizes
    <2> QED
      BY <2>1, <2>2, <2>3
  <1>10. Measured'
    <2> DEFINE least == info.min
               most == info.max
               sizes == Sizes(frames)
    <2>1. sizes \subseteq Nat
      <3> SUFFICES ASSUME NEW i \in 1..m PROVE frames[i].bytes \in Nat
        BY DEF Sizes, m
      <3> QED
        BY EncoderAssumption DEF Books, Numbered, m
    <2>2. /\ least \in sizes \cup {NoFramesize} /\ most \in sizes \cup {0}
          /\ \A k \in sizes : least <= k /\ k <= most
          /\ m > 0 => least \in sizes /\ most \in sizes
      BY DEF Books, Measured, m
    <2>3. m = 0 => sizes = {}
      BY DEF Sizes, m
    <2>4. info'.min = Min({bytes, least}) /\ info'.max = Max({bytes, most})
      BY <1>1
    <2> HIDE DEF least, most, sizes
    <2>5. least \in Nat /\ most \in Nat /\ least \in Int /\ most \in Int /\ bytes \in Int
      BY <1>3, <2>1, <2>2
    <2>6. info'.min \in {bytes, least} /\ info'.min <= bytes /\ info'.min <= least
      BY <2>4, <2>5, LeastOfTwo
    <2>7. info'.max \in {bytes, most} /\ info'.max >= bytes /\ info'.max >= most
      BY <2>4, <2>5, GreatestOfTwo
    <2>8. info'.min \in sizes \cup {bytes} /\ info'.max \in sizes \cup {bytes}
      <3>1. CASE m = 0
        BY <1>3, <2>2, <2>3, <2>6, <2>7, <3>1
      <3>2. CASE m # 0
        BY <1>6, <2>2, <2>6, <2>7, <3>2
      <3> QED
        BY <3>1, <3>2
    <2>9. ASSUME NEW k \in sizes \cup {bytes} PROVE info'.min <= k /\ k <= info'.max
      <3>1. k \in Nat /\ info'.min \in Nat /\ info'.max \in Nat
        BY <1>3, <2>1, <2>5, <2>6, <2>7
      <3>2. CASE k = bytes
        BY <2>6, <2>7, <3>2
      <3>3. CASE k \in sizes
        BY <2>2, <2>5, <2>6, <2>7, <3>1, <3>3
      <3> QED
        BY <3>2, <3>3
    <2>10. Sizes(frames)' = sizes \cup {bytes}
      BY <1>9 DEF sizes, Sizes
    <2> QED
      BY <2>8, <2>9, <2>10 DEF Measured
  <1>11. taken \in Seq(Pair) /\ Len(taken) = n
    <2>1. Pairs(left_right) \in Seq(Pair) /\ n \in 0..Len(Pairs(left_right))
      <3>1. Pairs(left_right) \in Seq(Pair) /\ Len(Pairs(left_right)) = Len(left_right[1])
        BY PairsProperties
      <3>2. Len(Pairs(left_right)) \in Nat
        BY <3>1
      <3> QED
        BY <3>1, <3>2
    <2> QED
      BY <2>1, FrontOf
  <1>12. audio' \in Seq(Pair) /\ info'.total = Len(audio') /\ info'.md5 = audio'
    <2>1. audio \in Seq(Pair) /\ info.total = Len(audio) /\ info.md5 = audio
      BY DEF Books
    <2>2. audio' = audio \o taken /\ info'.total = info.total + n /\ info'.md5 = info.md5 \o taken
      BY <1>1
    <2> HIDE DEF taken
    <2>3. audio \o taken \in Seq(Pair) /\ Len(audio \o taken) = Len(audio) + Len(taken)
      BY <1>11, <2>1, ConcatProperties
    <2> QED
      BY <1>11, <2>1, <2>2, <2>3
  <1>13. Books'
    <2>1. Numbered(frames)' /\ Flattened(frames)'
      BY <1>6, <1>8 DEF Numbered, Flattened, Blocks, FrameUnits, Unit
    <2>2. current_frame_number' = Len(frames')
      BY <1>1, <1>6, <1>7
    <2> QED
      BY <1>6, <1>10, <1>12, <2>1, <2>2 DEF Books
  <1> QED
    BY <1>2, <1>4, <1>6, <1>13 DEF m

\* A step between the frames keeps the books.
LEMMA BooksKept ==
    /\ Books /\ Whole /\ UNCHANGED <<current_frame_number, info, historyVars>>
    /\ pc' \in Setup => pc \in Setup
    /\ pc \in Ending => pc' \in Ending
    => Books' /\ Whole'
  <1> SUFFICES ASSUME Books, Whole, UNCHANGED <<current_frame_number, info, historyVars>>,
                      pc' \in Setup => pc \in Setup, pc \in Ending => pc' \in Ending
               PROVE  Books' /\ Whole'
    OBVIOUS
  <1>1. UNCHANGED <<frames, audio, info, current_frame_number>>
    BY DEF historyVars
  <1>2. Books'
    BY <1>1 DEF Books, Numbered, Flattened, Blocks, FrameUnits, Unit, Measured, Sizes
  <1> QED
    BY <1>1, <1>2 DEF Whole

\* What a frame does to the books, in the loop and in finish
LEMMA BooksOfFrame ==
    ASSUME Books, Whole, NEW left_right, NEW ms, NEW n \in Nat, Stereo(left_right),
           n <= Len(left_right[1]), Joint(left_right, ms), state = "OK",
           ProcessFrame(left_right, ms, Pairs(left_right), n),
           pc \notin Setup \cup Ending, pc' \notin Setup,
           pc' \in Ending \/ n = Blocksize
    PROVE  Books' /\ Whole'
  <1>1. FrameTaken(left_right, ms, n) \/ FrameLost
    BY FrameOutcome
  <1>2. CASE FrameLost
    <2>1. UNCHANGED <<current_frame_number, info, historyVars>>
      BY <1>2 DEF FrameLost
    <2> QED
      BY <2>1, BooksKept
  <1>3. CASE FrameTaken(left_right, ms, n)
    <2> DEFINE m == Len(frames)
    <2>1. /\ Books' /\ m \in Nat /\ Len(frames') = m + 1
          /\ \A i \in 1..m : frames'[i] = frames[i]
          /\ frames'[m + 1].size = n
      BY <1>3, FrameBooks
    <2>2. \A i \in 1..m : frames[i].size = Blocksize
      BY DEF Whole
    <2> HIDE DEF m
    <2>3. ASSUME NEW i \in 1..(m + 1), i < m + 1 \/ pc' \notin Ending
          PROVE  frames'[i].size = Blocksize
      <3>1. CASE i \in 1..m
        BY <2>1, <2>2, <3>1
      <3>2. CASE i = m + 1
        BY <2>1, <2>3, <3>2
      <3> QED
        BY <2>1, <3>1, <3>2
    <2> QED
      BY <2>1, <2>3 DEF Whole
  <1> QED
    BY <1>1, <1>2, <1>3

\* Every step keeps the books, and frames before the last one are whole blocks.
LEMMA BooksStep ==
    LosslessInv /\ TypeInv /\ Books /\ Whole /\ [Next]_vars => Books' /\ Whole'
  <1> SUFFICES ASSUME LosslessInv, TypeInv, Books, Whole, [Next]_vars PROVE Books' /\ Whole'
    OBVIOUS
  <1> USE DEF frameVars, clientVars
  <1>1. CASE Open
    BY <1>1, BooksKept DEF Open, Setup, Ending
  <1>2. ASSUME NEW here \in Setup, NEW units, NEW next,
               WriteMetadata(here, units, next)
        PROVE  Books' /\ Whole'
    <2>1. UNCHANGED <<current_frame_number, info, historyVars>> /\ pc \in Setup /\ pc \notin Ending
      BY <1>2 DEF WriteMetadata, Setup, Ending
    <2> QED
      BY <2>1, BooksKept
  <1>3. CASE WriteMagic \/ WriteStreamInfo \/ WriteUserBlocks
    BY <1>2, <1>3 DEF WriteMagic, WriteStreamInfo, WriteUserBlocks, Setup
  <1>4. CASE ReadBlock \/ AllRead
    BY <1>4, BooksKept DEF ReadBlock, AllRead, Setup, Ending
  <1>5. CASE Turn
    <2>1. /\ state = "OK" /\ Stereo(LeftRight) /\ Len(LeftRight[1]) = Buffered + TurnSize
          /\ Buffered \in Nat /\ TurnSize \in Nat
          /\ Joint(LeftRight, MidAndSide) /\ Pairs(LeftRight) = fifo \o Taken
      BY <1>5, TurnTakes
    <2>2. /\ pc \notin Setup \cup Ending /\ pc' \notin Setup
          /\ \/ UNCHANGED <<current_frame_number, info, historyVars>>
             \/ /\ Buffered + TurnSize > Blocksize
                /\ ProcessFrame(LeftRight, MidAndSide, fifo \o Taken, Blocksize)
      BY <1>5, TurnDoes DEF Setup, Ending
    <2>3. CASE UNCHANGED <<current_frame_number, info, historyVars>>
      BY <2>2, <2>3, BooksKept
    <2>4. CASE /\ Buffered + TurnSize > Blocksize
               /\ ProcessFrame(LeftRight, MidAndSide, fifo \o Taken, Blocksize)
      <3>1. Blocksize \in Nat /\ Blocksize <= Len(LeftRight[1])
        BY <2>1, <2>4, EncoderAssumption
      <3>2. ProcessFrame(LeftRight, MidAndSide, Pairs(LeftRight), Blocksize)
        BY <2>1, <2>4
      <3> QED
        BY <2>1, <2>2, <3>1, <3>2, BooksOfFrame
    <2> QED
      BY <2>2, <2>3, <2>4
  <1>6. CASE Finish
    <2>1. pc \notin Setup \cup Ending /\ pc' \notin Setup /\ pc' \in Ending
      BY <1>6 DEF Finish, Setup, Ending
    <2>2. CASE UNCHANGED frameVars
      BY <2>1, <2>2, BooksKept
    <2>3. CASE state = "OK" /\ ProcessFrame(signal, mid_side, fifo, Buffered)
      <3>1. Carried
        BY <2>3 DEF LosslessInv, Live
      <3>2. /\ Stereo(signal) /\ Joint(signal, mid_side) /\ Buffered \in Nat
            /\ Buffered <= Len(signal[1]) /\ fifo = Pairs(signal)
        BY <3>1 DEF Carried, Stereo, Buffered
      <3>3. ProcessFrame(signal, mid_side, Pairs(signal), Buffered)
        BY <2>3, <3>2
      <3> QED
        BY <2>1, <2>3, <3>2, <3>3, BooksOfFrame
    <2> QED
      BY <1>6, <2>2, <2>3 DEF Finish
  <1>7. CASE Seek \/ Overwrite
    BY <1>7, BooksKept DEF Seek, Overwrite, Called, Setup, Ending
  <1>8. CASE Updated \/ Close
    BY <1>8, BooksKept DEF Updated, Close, Setup, Ending
  <1>9. CASE UNCHANGED vars
    BY <1>9, BooksKept DEF vars, Setup, Ending
  <1> QED
    BY <1>1, <1>3, <1>4, <1>5, <1>6, <1>7, <1>8, <1>9 DEF Next, Go, Returned

\* At first there is no frame.
LEMMA BooksInit == Init => Books /\ Whole
  <1> SUFFICES ASSUME Init PROVE Books /\ Whole
    OBVIOUS
  <1>1. /\ frames = <<>> /\ audio = <<>> /\ current_frame_number = 0
        /\ info.total = 0 /\ info.min = NoFramesize /\ info.max = 0 /\ info.md5 = <<>>
    BY DEF Init, NoMd5
  <1>2. Len(frames) = 0 /\ frames \in Seq({}) /\ audio \in Seq(Pair) /\ Len(audio) = 0
    BY <1>1, EmptySeq
  <1>3. Blocks(frames) = <<>>
    <2>1. Blocks(frames) = [i \in 1..0 |-> FrameUnits(frames[i])]
      BY <1>2 DEF Blocks
    <2>2. 1..0 = {}
      OBVIOUS
    <2> QED
      BY <2>1, <2>2
  <1>4. Flattened(frames)
    <2>1. FlattenSeq(<<>>) = <<>>
      BY DEF FlattenSeq
    <2>2. <<>> \in Seq(Seq({})) /\ <<>> \in Seq({})
      BY EmptySeq
    <2> QED
      BY <1>3, <2>1, <2>2 DEF Flattened
  <1>5. Numbered(frames) /\ Sizes(frames) = {}
    BY <1>2 DEF Numbered, Sizes
  <1>6. Measured
    BY <1>1, <1>2, <1>5 DEF Measured
  <1> QED
    BY <1>1, <1>2, <1>4, <1>5, <1>6 DEF Books, Whole

-------------------------------------------------------------------------------
(* An encode in which nothing fails *)

AllInFrames == Buffered = 0 /\ audio = SubSeq(song, 1, at)

\* The encoder is OK and all that was read is in the frames when finish has made the last
\* of them.
QuietInv ==
    /\ broken => failed
    /\ error => failed
    /\ ~failed => /\ pc \in {"open", "returned"} \/ state = "OK"
                  /\ pc # "process" => buffer = <<>>
                  /\ pc \in Ending => AllInFrames

\* With nothing buffered the frames hold all that was read.
LEMMA AllIsRead ==
    LosslessInv /\ state = "OK" /\ Buffered = 0 /\ buffer = <<>> => audio = SubSeq(song, 1, at)
  <1> SUFFICES ASSUME LosslessInv, state = "OK", Buffered = 0, buffer = <<>>
               PROVE  audio = SubSeq(song, 1, at)
    OBVIOUS
  <1>1. Input /\ Carried
    BY DEF LosslessInv, Live
  <1>2. Given = SubSeq(song, 1, at)
    <2>1. at \in Int /\ Len(buffer) = 0
      BY <1>1 DEF Input
    <2> QED
      BY <2>1 DEF Given
  <1>3. fifo = <<>>
    <2>1. Len(fifo) = 0 /\ fifo \in Seq(Pair)
      BY <1>1, PairsProperties DEF Carried, Buffered
    <2> QED
      BY <2>1, EmptySeq
  <1>4. audio \o <<>> = audio
    BY <1>1, ConcatEmptySeq DEF Carried
  <1> QED
    BY <1>1, <1>2, <1>3, <1>4 DEF Carried

\* Every step keeps an encode without errors so.
LEMMA QuietStep ==
    /\ ErrorInv /\ TypeInv /\ LosslessInv /\ LosslessInv' /\ QuietInv /\ [Next]_vars
    => QuietInv'
  <1> SUFFICES ASSUME ErrorInv, TypeInv, LosslessInv, LosslessInv', QuietInv, [Next]_vars
               PROVE  QuietInv'
    OBVIOUS
  <1> USE DEF frameVars, clientVars, historyVars, outputVars, cardVars
  <1>1. failed \in BOOLEAN /\ broken \in BOOLEAN /\ error \in BOOLEAN
    BY DEF ErrorInv, TypeInv, CardInv
  <1>3. CASE Open
    <2>1. /\ pc = "open" /\ UNCHANGED <<broken, error, buffer>>
          /\ \/ state' = "OK" /\ pc' = "magic" /\ UNCHANGED failed
             \/ failed' = TRUE
      BY <1>3 DEF Open
    <2>2. CASE failed' = TRUE
      BY <2>2 DEF QuietInv
    <2>3. CASE state' = "OK" /\ pc' = "magic" /\ UNCHANGED failed
      <3>1. ~failed => buffer = <<>>
        BY <2>1 DEF QuietInv
      <3> QED
        BY <1>1, <2>1, <2>3, <3>1 DEF QuietInv, Ending
    <2> QED
      BY <2>1, <2>2, <2>3
  <1>4. ASSUME NEW here, NEW units, NEW next \in BeforeTurns,
               WriteMetadata(here, units, next)
        PROVE  QuietInv'
    <2>1. broken' => state' # "OK"
      BY <1>1, <1>4 DEF WriteMetadata, QuietInv, WriteFrame, OutOfMemory
    <2>2. /\ UNCHANGED <<error, buffer>>
          /\ state' # "OK" => failed' = TRUE
          /\ state' = "OK" => UNCHANGED failed
          /\ pc' \in {next, "finish"} /\ pc = here
      BY <1>4 DEF WriteMetadata
    <2>3. pc' \notin Ending /\ pc' # "process"
      BY <1>4, <2>2 DEF Ending, BeforeTurns
    <2>4. failed => failed'
      BY <1>1, <2>2
    <2>5. ~failed' => buffer' = <<>>
      <3>1. state' = "OK" => pc' = next
        BY <1>4 DEF WriteMetadata
      <3> QED
        BY <1>4, <2>2, <3>1 DEF LosslessInv, Live
    <2> QED
      BY <1>1, <2>1, <2>2, <2>3, <2>4, <2>5 DEF QuietInv
  <1>5. CASE WriteMagic \/ WriteStreamInfo \/ WriteUserBlocks
    BY <1>4, <1>5 DEF WriteMagic, WriteStreamInfo, WriteUserBlocks, BeforeTurns
  <1>6. CASE ReadBlock \/ AllRead
    BY <1>1, <1>6 DEF ReadBlock, AllRead, QuietInv, Ending
  <1>7. ASSUME NEW left_right, NEW ms, NEW n \in Nat, state = "OK",
               Stereo(left_right), n <= Len(left_right[1]), Joint(left_right, ms),
               ProcessFrame(left_right, ms, Pairs(left_right), n)
        PROVE  /\ broken' => failed'
               /\ ~failed' => state' = "OK" /\ ~failed
    <2>1. FrameTaken(left_right, ms, n) \/ FrameLost
      BY <1>7, FrameOutcome
    <2>2. CASE FrameTaken(left_right, ms, n)
      BY <1>1, <2>2 DEF FrameTaken
    <2>3. CASE FrameLost
      BY <1>1, <2>3 DEF FrameLost
    <2> QED
      BY <2>1, <2>2, <2>3
  <1>8. CASE Turn
    <2>1. /\ state = "OK" /\ Stereo(LeftRight) /\ Len(LeftRight[1]) = Buffered + TurnSize
          /\ Buffered \in Nat /\ TurnSize \in Nat
          /\ Joint(LeftRight, MidAndSide) /\ Pairs(LeftRight) = fifo \o Taken
      BY <1>8, TurnTakes
    <2>2. /\ \/ failed' = TRUE
             \/ UNCHANGED <<broken, failed, state>>
             \/ /\ Buffered + TurnSize > Blocksize
                /\ ProcessFrame(LeftRight, MidAndSide, fifo \o Taken, Blocksize)
          /\ UNCHANGED error /\ pc' \in {"finish", "read", "process"}
      BY <1>8, TurnDoes
    <2>3. ASSUME Buffered + TurnSize > Blocksize,
                 ProcessFrame(LeftRight, MidAndSide, fifo \o Taken, Blocksize)
          PROVE  (broken' => failed') /\ (~failed' => state' = "OK" /\ ~failed)
      <3>1. Blocksize \in Nat /\ Blocksize <= Len(LeftRight[1])
        BY <2>1, <2>3, EncoderAssumption
      <3>2. ProcessFrame(LeftRight, MidAndSide, Pairs(LeftRight), Blocksize)
        BY <2>1, <2>3
      <3> QED
        BY <1>7, <2>1, <3>1, <3>2
    <2>4. (broken' => failed') /\ (~failed' => state' = "OK" /\ ~failed)
      BY <1>1, <2>1, <2>2, <2>3 DEF QuietInv
    <2>5. pc' = "read" => buffer' = <<>>
      BY <1>8 DEF Turn
    <2>6. pc' = "finish" => state' # "OK"
      BY <1>8 DEF Turn
    <2> QED
      BY <1>1, <2>2, <2>4, <2>5, <2>6 DEF QuietInv, Ending
  <1>9. CASE Finish
    <2>1. pc = "finish" /\ pc' = "seek" /\ UNCHANGED <<encode, buffer, at>>
      BY <1>9 DEF Finish
    <2>2. \/ /\ state = "OK" /\ Buffered > 0
             /\ ProcessFrame(signal, mid_side, fifo, Buffered)
             /\ error' = (state' # "OK") /\ (state' = "OK" => signal' = Empty)
          \/ /\ ~(state = "OK" /\ Buffered > 0)
             /\ UNCHANGED <<state, signal, audio, broken, error, failed>>
      BY <1>9 DEF Finish
    <2>3. Buffered \in Nat
      BY DEF TypeInv, SamplesTyped, Stereo, Buffered
    <2>4. /\ broken' => failed'
          /\ error' => failed'
          /\ ~failed' => state' = "OK" /\ ~failed /\ Buffered' = 0
      <3>1. CASE /\ state = "OK" /\ Buffered > 0
                 /\ ProcessFrame(signal, mid_side, fifo, Buffered)
                 /\ error' = (state' # "OK") /\ (state' = "OK" => signal' = Empty)
        <4>1. Carried
          BY <3>1 DEF LosslessInv, Live
        <4>2. /\ Stereo(signal) /\ Joint(signal, mid_side) /\ Buffered \in Nat
              /\ Buffered <= Len(signal[1]) /\ fifo = Pairs(signal)
          BY <2>3, <4>1 DEF Carried, Stereo, Buffered
        <4>3. ProcessFrame(signal, mid_side, Pairs(signal), Buffered)
          BY <3>1, <4>2
        <4>4. (broken' => failed') /\ (~failed' => state' = "OK" /\ ~failed)
          BY <1>7, <3>1, <4>2, <4>3
        <4>5. signal' = Empty => Buffered' = 0
          BY DEF Empty, Buffered, Channels
        <4> QED
          BY <3>1, <4>4, <4>5
      <3>2. CASE /\ ~(state = "OK" /\ Buffered > 0)
                 /\ UNCHANGED <<state, signal, audio, broken, error, failed>>
        BY <2>1, <2>3, <3>2 DEF QuietInv, Buffered
      <3> QED
        BY <2>2, <3>1, <3>2
    <2>5. ~failed' => buffer' = <<>>
      BY <2>1, <2>4 DEF QuietInv
    <2>6. ~failed' => audio' = SubSeq(song', 1, at')
      <3>1. (LosslessInv /\ state = "OK" /\ Buffered = 0 /\ buffer = <<>>
                => audio = SubSeq(song, 1, at))'
        BY AllIsRead, PTL
      <3> QED
        BY <2>4, <2>5, <3>1
    <2>7. ~failed' => AllInFrames'
      BY <2>4, <2>6 DEF AllInFrames
    <2> QED
      BY <2>1, <2>4, <2>5, <2>7 DEF QuietInv
  <1>10. ASSUME NEW next, Called(next), next \in Ending, pc \in Ending \ {"returned"}
         PROVE  QuietInv'
    <2>1. /\ UNCHANGED <<encode, buffer, at, signal, audio>> /\ failed' = (failed \/ broken')
          /\ pc' \in Ending
          /\ IF broken' THEN TRUE ELSE UNCHANGED <<state, error>>
      BY <1>10 DEF Called, Ending
    <2>2. AllInFrames' <=> AllInFrames
      BY <2>1 DEF AllInFrames, Buffered, song
    <2>3. /\ ~failed' => ~failed /\ ~broken' /\ UNCHANGED <<state, error>>
          /\ broken' => failed'
      BY <1>1, <2>1
    <2> QED
      BY <1>1, <1>10, <2>1, <2>2, <2>3 DEF QuietInv, Ending
  <1>11. CASE Seek \/ Overwrite
    BY <1>10, <1>11 DEF Seek, Overwrite, Ending
  <1>12. CASE Updated \/ Close
    <2>1. pc \in Ending \ {"returned"} /\ pc' \in {"close", "returned"}
          /\ UNCHANGED <<broken, error, failed, buffer, signal, audio, at, encode>>
          /\ (pc' = "close" => UNCHANGED state)
      BY <1>12 DEF Updated, Close, Ending
    <2>2. AllInFrames' <=> AllInFrames
      BY <2>1 DEF AllInFrames, Buffered, song
    <2> QED
      BY <2>1, <2>2 DEF QuietInv, Ending
  <1>13. CASE UNCHANGED vars
    BY <1>13 DEF vars, QuietInv, AllInFrames, Buffered, song
  <1> QED
    BY <1>3, <1>5, <1>6, <1>8, <1>9, <1>11, <1>12, <1>13 DEF Next, Go, Returned

\* At first nothing has failed.
LEMMA QuietInit == Init => QuietInv
  BY DEF Init, QuietInv, Ending

-------------------------------------------------------------------------------
(* The file *)

Header(framesizes, total, md5) == Magic \o StreamInfo(framesizes, total, md5) \o UserBlocks

\* The metadata is 7 units, 3 of which update_metadata_ completes.
LEMMA HeaderIs ==
    ASSUME NEW a, NEW b, NEW c
    PROVE  /\ \E S : Header(a, b, c) \in Seq(S)
           /\ \E S : Magic \o StreamInfo(a, b, c) \in Seq(S)
           /\ Len(Header(a, b, c)) = 7
           /\ Header(a, b, c)[1] = Unit("magic", 0)
           /\ Header(a, b, c)[2] = Unit("streaminfo", Blocksize)
           /\ Header(a, b, c)[3] = Unit("framesizes", a)
           /\ Header(a, b, c)[4] = Unit("total", b)
           /\ Header(a, b, c)[5] = Unit("md5", c)
           /\ Header(a, b, c)[6] = Unit("vorbis_comment", 0)
           /\ Header(a, b, c)[7] = Unit("padding", 0)
  <1> DEFINE m == Unit("magic", 0)
             s == Unit("streaminfo", Blocksize)
             f == Unit("framesizes", a)
             t == Unit("total", b)
             h == Unit("md5", c)
             v == Unit("vorbis_comment", 0)
             p == Unit("padding", 0)
             S == {m, s, f, t, h, v, p}
             start == Magic \o StreamInfo(a, b, c)
  <1>1. Magic = <<m>> /\ StreamInfo(a, b, c) = <<s, f, t, h>> /\ UserBlocks = <<v, p>>
    BY DEF Magic, StreamInfo, UserBlocks
  <1>2. m \in S /\ s \in S /\ f \in S /\ t \in S /\ h \in S /\ v \in S /\ p \in S
    OBVIOUS
  <1> HIDE DEF m, s, f, t, h, v, p, S
  <1>3. /\ Magic \in Seq(S) /\ Len(Magic) = 1
        /\ StreamInfo(a, b, c) \in Seq(S) /\ Len(StreamInfo(a, b, c)) = 4
        /\ UserBlocks \in Seq(S) /\ Len(UserBlocks) = 2
    BY <1>1, <1>2
  <1>4. /\ start \in Seq(S) /\ Len(start) = 5
        /\ \A i \in 1..5 : start[i] = IF i <= 1 THEN Magic[i] ELSE StreamInfo(a, b, c)[i - 1]
    <2>1. /\ start \in Seq(S) /\ Len(start) = Len(Magic) + Len(StreamInfo(a, b, c))
          /\ \A i \in 1..(Len(Magic) + Len(StreamInfo(a, b, c))) :
                start[i] = IF i <= Len(Magic) THEN Magic[i]
                           ELSE StreamInfo(a, b, c)[i - Len(Magic)]
      BY <1>3, ConcatProperties
    <2>2. Len(Magic) + Len(StreamInfo(a, b, c)) = 5 /\ Len(Magic) = 1
      BY <1>3
    <2> HIDE DEF start
    <2> QED
      BY <2>1, <2>2
  <1>5. start[1] = m /\ start[2] = s /\ start[3] = f /\ start[4] = t /\ start[5] = h
    <2>1. \A i \in 1..5 : start[i] = IF i <= 1 THEN <<m>>[i] ELSE <<s, f, t, h>>[i - 1]
      BY <1>1, <1>4
    <2> HIDE DEF start
    <2> QED
      BY <2>1
  <1> HIDE DEF start
  <1>6. Header(a, b, c) = start \o UserBlocks
    BY DEF Header, start
  <1>7. /\ start \o UserBlocks \in Seq(S) /\ Len(start \o UserBlocks) = 7
        /\ \A i \in 1..7 : (start \o UserBlocks)[i] = IF i <= 5 THEN start[i] ELSE <<v, p>>[i - 5]
    <2>1. /\ start \o UserBlocks \in Seq(S)
          /\ Len(start \o UserBlocks) = Len(start) + Len(UserBlocks)
          /\ \A i \in 1..(Len(start) + Len(UserBlocks)) :
                (start \o UserBlocks)[i] = IF i <= Len(start) THEN start[i]
                                           ELSE UserBlocks[i - Len(start)]
      BY <1>3, <1>4, ConcatProperties
    <2>2. Len(start) + Len(UserBlocks) = 7 /\ Len(start) = 5
      BY <1>3, <1>4
    <2> QED
      BY <1>1, <2>1, <2>2
  <1> DEFINE all == start \o UserBlocks
  <1>8. \A i \in 1..7 : all[i] = IF i <= 5 THEN start[i] ELSE <<v, p>>[i - 5]
    BY <1>7
  <1>9. all \in Seq(S) /\ Len(all) = 7
    BY <1>7
  <1> HIDE DEF all
  <1>10. /\ all[1] = m /\ all[2] = s /\ all[3] = f /\ all[4] = t /\ all[5] = h
         /\ all[6] = v /\ all[7] = p
    BY <1>5, <1>8
  <1>11. Header(a, b, c) = all
    BY <1>6 DEF all
  <1>12. \E T : Magic \o StreamInfo(a, b, c) \in Seq(T)
    BY <1>4 DEF start
  <1> QED
    BY <1>9, <1>10, <1>11, <1>12 DEF m, s, f, t, h, v, p

\* One user block after the other is both.
LEMMA UserBlocksAre ==
    ASSUME NEW S, NEW w \in Seq(S)
    PROVE  (w \o <<UserBlocks[1]>>) \o <<UserBlocks[2]>> = w \o UserBlocks
  <1> DEFINE v == UserBlocks[1]
             p == UserBlocks[2]
             R == S \cup {v, p}
  <1>1. UserBlocks = <<v, p>>
    BY DEF UserBlocks
  <1>2. v \in R /\ p \in R /\ w \in Seq(R)
    BY SeqMonotonic
  <1> HIDE DEF v, p, R
  <1>3. <<v>> \in Seq(R) /\ <<p>> \in Seq(R)
    BY <1>2
  <1>4. (w \o <<v>>) \o <<p>> = w \o (<<v>> \o <<p>>)
    BY <1>2, <1>3, ConcatAssociative
  <1>5. <<v>> \o <<p>> = <<v, p>>
    <2> DEFINE one == <<v>>
               two == <<p>>
    <2>1. one \in Seq(R) /\ two \in Seq(R)
      BY <1>3
    <2>2. Len(one) = 1 /\ one[1] = v /\ Len(two) = 1 /\ two[1] = p
      OBVIOUS
    <2> HIDE DEF one, two
    <2>3. /\ one \o two \in Seq(R) /\ Len(one \o two) = Len(one) + Len(two)
          /\ \A i \in 1..(Len(one) + Len(two)) :
                (one \o two)[i] = IF i <= Len(one) THEN one[i] ELSE two[i - Len(one)]
      BY <2>1, ConcatProperties
    <2> DEFINE both == one \o two
    <2>4. both \in Seq(R) /\ Len(both) = 2 /\ both[1] = v /\ both[2] = p
      BY <2>2, <2>3
    <2> HIDE DEF both
    <2>5. both = <<v, p>>
      <3>1. DOMAIN both = 1..2 /\ both \in [1..2 -> R]
        BY <2>4, LenProperties
      <3> QED
        BY <1>2, <2>4, <3>1
    <2> QED
      BY <2>5 DEF one, two, both
  <1> QED
    BY <1>1, <1>4, <1>5 DEF v, p

\* A card with room units keeps of w what it has room for.
Kept(f, w) ==
    /\ Len(f) = IF room <= Len(w) THEN room ELSE Len(w)
    /\ \A i \in 1..Len(f) : f[i] = w[i]

\* f_write at the end of the file
LEMMA Appended ==
    ASSUME CardInv, encode \in Encodes, UNCHANGED encode, NEW S, NEW w \in Seq(S),
           NEW units \in Seq(S), Kept(file, w), fp = Len(file), FWrite(units), ~broken'
    PROVE  Kept(file', w \o units) /\ fp' = Len(file')
  <1>1. PICK T : file \in Seq(T)
    BY DEF CardInv
  <1> DEFINE R == S \cup T
             l == Len(file)
             n == Fits(units)
             more == w \o units
  <1>2. file \in Seq(R) /\ units \in Seq(R) /\ w \in Seq(R)
    BY <1>1, SeqMonotonic
  <1> HIDE DEF R
  <1>3. l \in Nat /\ l <= room /\ room \in Nat /\ Len(w) \in Nat /\ Len(units) \in Nat
    BY <1>1, EncoderAssumption DEF CardInv, room
  <1>4. /\ n \in 0..Len(units) /\ n = IF Len(units) <= room - l THEN Len(units) ELSE room - l
    BY FitsIs
  <1>5. file' = Over(file, l, units, n) /\ fp' = l + n
    <2>1. broken \in BOOLEAN
      BY DEF CardInv
    <2>2. CASE broken /\ UNCHANGED cardVars
      BY <2>2 DEF cardVars
    <2> QED
      BY <2>1, <2>2, WriteIsOver
  <1>6. /\ Len(file') = l + n
        /\ \A i \in 1..(l + n) : file'[i] = IF i <= l THEN file[i] ELSE units[i - l]
    <2>1. l \in 0..Len(file) /\ n \in 0..Len(units)
      BY <1>3, <1>4
    <2> HIDE DEF l, n
    <2>2. /\ Len(file') = IF l + n <= Len(file) THEN Len(file) ELSE l + n
          /\ \A i \in 1..Len(file') :
                file'[i] = IF i <= l \/ i > l + n THEN file[i] ELSE units[i - l]
      <3>1. PICK q \in 0..Len(file) : q = l
        BY <2>1
      <3>2. PICK m \in 0..Len(units) : m = n
        BY <2>1
      <3>3. file \in Seq(R) /\ units \in Seq(R)
        BY <1>2
      <3>4. WritesOver(Over(file, q, units, m), file, q, units, m)
        BY ONLY <3>1, <3>2, <3>3, WrittenOver
      <3>5. WritesOver(file', file, l, units, n)
        BY <1>5, <3>1, <3>2, <3>4
      <3> QED
        BY <3>5 DEF WritesOver
    <2>3. Len(file') = l + n
      BY <1>3, <1>4, <2>2 DEF l
    <2> QED
      BY <1>3, <1>4, <2>2, <2>3
  <1>7. /\ Len(more) = Len(w) + Len(units)
        /\ \A i \in 1..(Len(w) + Len(units)) :
              more[i] = IF i <= Len(w) THEN w[i] ELSE units[i - Len(w)]
    BY <1>2, ConcatProperties
  <1>8. l = (IF room <= Len(w) THEN room ELSE Len(w)) /\ \A i \in 1..l : file[i] = w[i]
    BY DEF Kept
  <1> HIDE DEF l, n, more
  <1>9. Len(file') = IF room <= Len(more) THEN room ELSE Len(more)
    <2> DEFINE k == Len(w)
               u == Len(units)
    <2>1. k \in Nat /\ u \in Nat /\ l = (IF room <= k THEN room ELSE k)
          /\ n = (IF u <= room - l THEN u ELSE room - l)
          /\ Len(file') = l + n /\ Len(more) = k + u
      BY <1>3, <1>4, <1>6, <1>7, <1>8
    <2> HIDE DEF k, u
    <2> QED
      BY <1>3, <2>1
  <1>10. ASSUME NEW i \in 1..(l + n) PROVE file'[i] = more[i]
    <2>1. CASE i <= l
      <3>1. i \in 1..l /\ i <= Len(w) /\ i \in 1..(Len(w) + Len(units))
        BY <1>3, <1>4, <1>8, <2>1
      <3>2. file'[i] = file[i] /\ file[i] = w[i] /\ more[i] = w[i]
        BY <1>6, <1>7, <1>8, <2>1, <3>1
      <3> QED
        BY <3>2
    <2>2. CASE i > l
      <3>1. n > 0
        BY <1>3, <1>4, <2>2
      <3>2. l = Len(w)
        BY <1>3, <1>4, <1>8, <3>1
      <3>3. i \in 1..(Len(w) + Len(units)) /\ ~(i <= Len(w))
        BY <1>3, <1>4, <2>2, <3>2
      <3> QED
        BY <1>3, <1>4, <1>6, <1>7, <2>2, <3>2, <3>3
    <2> QED
      BY <1>3, <1>4, <2>1, <2>2
  <1>11. Kept(file', more)
    BY <1>6, <1>9, <1>10 DEF Kept
  <1> QED
    BY <1>5, <1>6, <1>11 DEF more

\* f_write of one unit in the middle of the file, or behind the end of a full card
LEMMA Replaced ==
    ASSUME CardInv, encode \in Encodes, UNCHANGED encode, NEW S, NEW w \in Seq(S),
           NEW new \in Seq(S), NEW unit \in S, NEW p \in Nat, p < Len(w),
           Len(new) = Len(w), \A i \in 1..Len(w) : new[i] = IF i = p + 1 THEN unit ELSE w[i],
           Kept(file, w), fp = IF p <= Len(file) THEN p ELSE Len(file),
           FWrite(<<unit>>), ~broken'
    PROVE  Kept(file', new)
  <1>1. PICK T : file \in Seq(T)
    BY DEF CardInv
  <1> DEFINE R == S \cup T
             l == Len(file)
             k == Len(w)
             units == <<unit>>
             n == Fits(units)
  <1>2. file \in Seq(R) /\ units \in Seq(R) /\ units \in Seq(S) /\ Len(units) = 1 /\ units[1] = unit
    BY <1>1, SeqMonotonic
  <1> HIDE DEF R, units
  <1>3. l \in Nat /\ l <= room /\ room \in Nat /\ k \in Nat /\ fp \in 0..l
    BY <1>1, EncoderAssumption DEF CardInv, room
  <1>4. n = IF 1 <= room - fp THEN 1 ELSE room - fp
    BY <1>2, FitsIs
  <1>5. file' = Over(file, fp, units, n)
    <2>1. broken \in BOOLEAN
      BY DEF CardInv
    <2>2. FWrite(units)
      BY DEF units
    <2>3. CASE broken /\ UNCHANGED cardVars
      BY <2>3 DEF cardVars
    <2> QED
      BY <2>1, <2>2, <2>3, WriteIsOver
  <1>6. /\ Len(file') = IF fp + n <= l THEN l ELSE fp + n
        /\ \A i \in 1..Len(file') :
              file'[i] = IF i <= fp \/ i > fp + n THEN file[i] ELSE units[i - fp]
    <2>1. n \in 0..Len(units) /\ fp \in 0..Len(file)
      BY <1>2, <1>3, <1>4
    <2> HIDE DEF n
    <2>2. WritesOver(Over(file, fp, units, n), file, fp, units, n)
      <3>1. PICK q \in 0..Len(file) : q = fp
        BY <2>1
      <3>2. PICK m \in 0..Len(units) : m = n
        BY <2>1
      <3>3. file \in Seq(R) /\ units \in Seq(R)
        BY <1>2
      <3>4. WritesOver(Over(file, q, units, m), file, q, units, m)
        BY ONLY <3>1, <3>2, <3>3, WrittenOver
      <3> QED
        BY <3>1, <3>2, <3>4
    <2> QED
      <3>1. WritesOver(file', file, fp, units, n)
        BY <1>5, <2>2
      <3> QED
        BY <3>1 DEF WritesOver, l
  <1>7. l = (IF room <= k THEN room ELSE k) /\ \A i \in 1..l : file[i] = w[i] /\ i \in 1..k
    BY <1>3 DEF Kept
  <1>8. \A i \in 1..k : new[i] = IF i = p + 1 THEN unit ELSE w[i]
    OBVIOUS
  <1>9. p < k /\ fp = (IF p <= l THEN p ELSE l)
    OBVIOUS
  <1> HIDE DEF l, k, n
  <1>10. Len(file') = l /\ (p < l => fp = p /\ n = 1) /\ (~(p < l) => fp = l /\ n = 0)
    <2>1. CASE p < l
      <3>1. fp = p
        BY <1>3, <1>9, <2>1
      <3>2. n = 1
        BY <1>3, <1>4, <2>1, <3>1
      <3>3. Len(file') = IF fp + n <= l THEN l ELSE fp + n
        BY <1>6
      <3> QED
        BY <1>3, <2>1, <3>1, <3>2, <3>3
    <2>2. CASE ~(p < l)
      <3>1. l = room
        BY <1>3, <1>7, <1>9, <2>2
      <3>2. fp = l
        BY <1>3, <1>9, <2>2
      <3>3. n = 0
        BY <1>3, <1>4, <3>1, <3>2
      <3>4. Len(file') = IF fp + n <= l THEN l ELSE fp + n
        BY <1>6
      <3> QED
        BY <1>3, <2>2, <3>2, <3>3, <3>4
    <2> QED
      BY <2>1, <2>2
  <1>11. ASSUME NEW i \in 1..l PROVE file'[i] = new[i]
    <2>1. CASE i = p + 1
      <3>1. p < l
        BY <1>3, <2>1
      <3>2. ~(i <= fp \/ i > fp + n) /\ i - fp = 1
        BY <1>3, <1>10, <2>1, <3>1
      <3>3. file'[i] = units[i - fp]
        BY <1>6, <1>10, <3>2
      <3> QED
        BY <1>2, <1>7, <1>8, <2>1, <3>2, <3>3
    <2>2. CASE i # p + 1
      <3>1. i <= fp \/ i > fp + n
        BY <1>3, <1>10, <2>2
      <3> QED
        BY <1>6, <1>7, <1>8, <1>10, <2>2, <3>1
    <2> QED
      BY <2>1, <2>2
  <1>12. Len(new) = k
    BY DEF k
  <1> QED
    BY <1>7, <1>10, <1>11, <1>12 DEF Kept

\* The song and how it is encoded stay; what failed or broke stays so.
LEMMA EncodeStays ==
    failed \in BOOLEAN /\ broken \in BOOLEAN /\ [Next]_vars
        => UNCHANGED encode /\ (failed => failed') /\ (broken => broken')
  <1> SUFFICES ASSUME failed \in BOOLEAN, broken \in BOOLEAN, [Next]_vars
               PROVE  UNCHANGED encode /\ (failed => failed') /\ (broken => broken')
    OBVIOUS
  <1> USE DEF outputVars, cardVars
  <1>1. ASSUME NEW units, FWrite(units) PROVE broken => broken'
    BY <1>1 DEF FWrite, cardVars
  <1>2. ASSUME NEW units, NEW samples, WriteFrame(units, samples) PROVE broken => broken'
    BY <1>1, <1>2 DEF WriteFrame, WriteCallback
  <1>3. ASSUME NEW left_right, NEW ms, NEW input, NEW size,
               ProcessFrame(left_right, ms, input, size)
        PROVE  (failed => failed') /\ (broken => broken')
    BY <1>2, <1>3 DEF ProcessFrame
  <1>4. CASE Open \/ ReadBlock \/ AllRead \/ Updated \/ Close
    BY <1>4 DEF Open, ReadBlock, AllRead, Updated, Close
  <1>5. ASSUME NEW here, NEW units, NEW next, WriteMetadata(here, units, next)
        PROVE  UNCHANGED encode /\ (failed => failed') /\ (broken => broken')
    BY <1>2, <1>5 DEF WriteMetadata
  <1>6. CASE WriteMagic \/ WriteStreamInfo \/ WriteUserBlocks
    BY <1>5, <1>6 DEF WriteMagic, WriteStreamInfo, WriteUserBlocks
  <1>7. CASE Turn
    BY <1>3, <1>7, TurnDoes
  <1>8. CASE Finish
    BY <1>3, <1>8 DEF Finish
  <1>9. ASSUME NEW p, FLseek(p) PROVE broken => broken'
    BY <1>9 DEF FLseek
  <1>10. CASE Seek \/ Overwrite
    BY <1>1, <1>9, <1>10 DEF Seek, Overwrite, Called
  <1>11. CASE UNCHANGED vars
    BY <1>11 DEF vars
  <1> QED
    BY <1>4, <1>6, <1>7, <1>8, <1>10, <1>11 DEF Next, Go, Returned

\* STREAMINFO, as far as update_metadata_ has completed it, and what the file was given
Heading == Header(IF update > 3 THEN <<info.min, info.max>> ELSE <<0, 0>>,
                  IF update > 2 THEN info.total ELSE Len(song),
                  IF update > 1 THEN info.md5 ELSE NoMd5)

Stored ==
    CASE pc \in {"open", "magic"} -> <<>>
      [] pc = "streaminfo" -> Magic
      [] pc = "blocks" -> Magic \o StreamInfo(<<0, 0>>, Len(song), NoMd5)
      [] pc = "padding" ->
             (Magic \o StreamInfo(<<0, 0>>, Len(song), NoMd5)) \o <<UserBlocks[1]>>
      [] OTHER -> Heading \o FlattenSeq(Blocks(frames))

\* The file is what the card has room for of it; its end is where the next frame goes,
\* or the place in STREAMINFO where update_metadata_ writes.
FileHolds ==
    /\ Kept(file, Stored)
    /\ pc \notin Ending => fp = Len(file) /\ update = 1
    /\ pc = "overwrite" => fp = IF 5 - update <= Len(file) THEN 5 - update ELSE Len(file)
    /\ pc \in {"close", "returned"} => update = 4
    /\ pc \notin {"open", "magic", "streaminfo"} =>
          streaminfo_offset = IF room = 0 THEN 0 ELSE 1

FileInv == writemode = "card" /\ ~failed => FileHolds

\* What the file was given is a sequence.
LEMMA StoredIsSeq ==
    Books => /\ \E S : Stored \in Seq(S)
             /\ \E S : FlattenSeq(Blocks(frames)) \in Seq(S) /\ Heading \in Seq(S)
  <1> SUFFICES ASSUME Books
               PROVE  /\ \E S : Stored \in Seq(S)
                      /\ \E S : FlattenSeq(Blocks(frames)) \in Seq(S) /\ Heading \in Seq(S)
    OBVIOUS
  <1>1. PICK S : FlattenSeq(Blocks(frames)) \in Seq(S)
    BY DEF Books, Flattened
  <1>2. PICK T : Heading \in Seq(T)
    BY HeaderIs DEF Heading
  <1>3. FlattenSeq(Blocks(frames)) \in Seq(S \cup T) /\ Heading \in Seq(S \cup T)
    BY <1>1, <1>2, SeqMonotonic
  <1>4. Heading \o FlattenSeq(Blocks(frames)) \in Seq(S \cup T)
    BY <1>3, ConcatProperties
  <1>5. PICK U : Magic \o StreamInfo(<<0, 0>>, Len(song), NoMd5) \in Seq(U)
    BY HeaderIs
  <1>6. PICK V : <<UserBlocks[1]>> \in Seq(V)
    BY MetadataUnits
  <1>7. (Magic \o StreamInfo(<<0, 0>>, Len(song), NoMd5)) \o <<UserBlocks[1]>> \in Seq(U \cup V)
    <2> DEFINE start == Magic \o StreamInfo(<<0, 0>>, Len(song), NoMd5)
               block == <<UserBlocks[1]>>
    <2> HIDE DEF start, block
    <2>1. start \in Seq(U \cup V) /\ block \in Seq(U \cup V)
      BY <1>5, <1>6, SeqMonotonic DEF start, block
    <2>2. start \o block \in Seq(U \cup V)
      BY <2>1, ConcatProperties
    <2> QED
      BY <2>2 DEF start, block
  <1>8. PICK W : Magic \in Seq(W)
    BY MetadataUnits
  <1>9. <<>> \in Seq({})
    BY EmptySeq
  <1>10. \/ Stored = <<>> \/ Stored = Magic
         \/ Stored = Magic \o StreamInfo(<<0, 0>>, Len(song), NoMd5)
         \/ Stored = (Magic \o StreamInfo(<<0, 0>>, Len(song), NoMd5)) \o <<UserBlocks[1]>>
         \/ Stored = Heading \o FlattenSeq(Blocks(frames))
    BY DEF Stored
  <1>11. \E R : Stored \in Seq(R)
    BY <1>4, <1>5, <1>7, <1>8, <1>9, <1>10
  <1> QED
    BY <1>3, <1>11

\* What is written at the end of the file is stored.
LEMMA StoresMore ==
    ASSUME Books, CardInv, encode \in Encodes, UNCHANGED encode, FileHolds, fp = Len(file),
           writemode = "card", NEW S, NEW units \in Seq(S), NEW samples,
           WriteFrame(units, samples), ~broken'
    PROVE  Kept(file', Stored \o units) /\ fp' = Len(file')
  <1>1. PICK T : Stored \in Seq(T)
    BY StoredIsSeq
  <1>2. Stored \in Seq(S \cup T) /\ units \in Seq(S \cup T)
    BY <1>1, SeqMonotonic
  <1>3. FWrite(units)
    BY DEF WriteFrame, WriteCallback
  <1>4. Kept(file, Stored)
    BY DEF FileHolds
  <1> QED
    BY <1>2, <1>3, <1>4, Appended

\* A step that writes nothing
LEMMA FileKept ==
    ASSUME FileHolds, UNCHANGED <<encode, file, fp, streaminfo_offset, update, frames, info>>,
           pc \notin Setup, pc' \notin Setup, pc \in Ending => pc' \in Ending,
           pc' # "overwrite", pc' \in {"close", "returned"} => update = 4
    PROVE  FileHolds'
  <1>1. Stored = Heading \o FlattenSeq(Blocks(frames))
    BY DEF Stored, Setup
  <1>2. Stored' = Heading' \o FlattenSeq(Blocks(frames'))
    BY DEF Stored, Setup, Blocks, FrameUnits, Unit
  <1>3. Heading' = Heading
    BY DEF Heading, Header, StreamInfo, Unit, NoMd5, Magic, UserBlocks, song
  <1>4. Kept(file', Stored') <=> Kept(file, Stored)
    BY <1>1, <1>2, <1>3 DEF Kept
  <1>5. room' = room /\ pc \notin {"open", "magic", "streaminfo"}
    BY DEF room, Setup
  <1>6. Kept(file, Stored)' <=> Kept(file', Stored')
    BY <1>5 DEF Kept
  <1> QED
    BY <1>4, <1>5, <1>6 DEF FileHolds

\* Until finish STREAMINFO is what init wrote.
LEMMA HeadingStays ==
    UNCHANGED encode /\ update = 1 /\ update' = 1
        => /\ Heading = Header(<<0, 0>>, Len(song), NoMd5)
           /\ Heading' = Header(<<0, 0>>, Len(song), NoMd5)
  BY DEF Heading, Header, StreamInfo, Unit, NoMd5, Magic, UserBlocks, song

\* A frame goes to the end of the file.
LEMMA FileOfFrame ==
    ASSUME FileHolds, Books, CardInv, encode \in Encodes, UNCHANGED <<encode, streaminfo_offset>>,
           writemode = "card", update' = update, failed' = FALSE, state = "OK",
           pc \notin Setup \cup Ending, pc' \notin Setup \cup {"overwrite", "close", "returned"},
           NEW left_right, NEW ms, NEW n \in Nat, Stereo(left_right),
           n <= Len(left_right[1]), Joint(left_right, ms),
           ProcessFrame(left_right, ms, Pairs(left_right), n)
    PROVE  FileHolds'
  <1>1. FrameTaken(left_right, ms, n) \/ FrameLost
    BY FrameOutcome
  <1>2. FrameTaken(left_right, ms, n) /\ ~broken'
    BY <1>1 DEF FrameTaken, FrameLost
  <1> DEFINE frame == frames'[Len(frames) + 1]
             units == FrameUnits(frame)
             flat == FlattenSeq(Blocks(frames))
  <1>3. /\ Books' /\ Len(frames) \in Nat /\ Len(frames') = Len(frames) + 1
        /\ WriteFrame(units, n)
        /\ FlattenSeq(Blocks(frames')) = flat \o units
    BY <1>2, FrameBooks
  <1>4. PICK S : units \in Seq(S)
    <2>1. Numbered(frames')
      BY <1>3 DEF Books, Numbered
    <2>2. Len(frames) + 1 \in 1..Len(frames')
      BY <1>3
    <2>3. frame.bytes \in Nat
      BY <2>1, <2>2, EncoderAssumption DEF Numbered
    <2> HIDE DEF frame
    <2> QED
      BY <2>3, UnitsOfFrame
  <1> HIDE DEF frame, units, flat
  <1>5. fp = Len(file) /\ update = 1
    BY DEF FileHolds
  <1>6. Kept(file', Stored \o units) /\ fp' = Len(file')
    BY <1>2, <1>3, <1>4, <1>5, StoresMore
  <1>7. Stored' = Stored \o units
    <2>1. Stored = Heading \o flat
      BY DEF Stored, Setup, flat
    <2>2. Stored' = Heading' \o FlattenSeq(Blocks(frames'))
      BY DEF Stored, Setup, Blocks, FrameUnits, Unit
    <2>3. Heading' = Heading
      BY <1>5, HeadingStays
    <2>4. PICK T : flat \in Seq(T) /\ Heading \in Seq(T)
      BY StoredIsSeq DEF flat
    <2> DEFINE R == S \cup T
    <2>5. flat \in Seq(R) /\ Heading \in Seq(R) /\ units \in Seq(R)
      BY <1>4, <2>4, SeqMonotonic
    <2> HIDE DEF R
    <2>6. Heading \o (flat \o units) = (Heading \o flat) \o units
      BY SMTT(30), <2>5, ConcatAssociative
    <2> QED
      BY <1>3, <2>1, <2>2, <2>3, <2>6
  <1>8. room' = room /\ pc \notin {"open", "magic", "streaminfo"}
    BY DEF room, Setup
  <1>9. Kept(file, Stored)'
    BY <1>6, <1>7, <1>8 DEF Kept
  <1> QED
    BY <1>5, <1>6, <1>8, <1>9 DEF FileHolds

\* A block of metadata goes to the end of the file.
LEMMA FileOfMetadata ==
    ASSUME FileHolds, Books, CardInv, encode \in Encodes, UNCHANGED encode,
           writemode = "card", failed' = FALSE, failed = FALSE,
           NEW here \in Setup, NEW units, NEW next, NEW S, units \in Seq(S),
           WriteMetadata(here, units, next)
    PROVE  /\ Kept(file', Stored \o units) /\ fp' = Len(file') /\ update' = 1
           /\ UNCHANGED <<frames, info>> /\ pc' = next /\ pc = here /\ state' \notin OutOfMemory
  <1>1. /\ state' = "OK" /\ pc' = next /\ pc = here
        /\ UNCHANGED <<update, frames, info>>
    BY DEF WriteMetadata, frameVars, historyVars
  <1>2. state' \notin OutOfMemory
    BY <1>1 DEF OutOfMemory
  <1>3. WriteFrame(units, 0) /\ ~broken'
    BY <1>1, <1>2 DEF WriteMetadata
  <1>4. fp = Len(file) /\ update = 1
    BY <1>1 DEF FileHolds, Ending, Setup
  <1>5. Kept(file', Stored \o units) /\ fp' = Len(file')
    BY <1>3, <1>4, StoresMore
  <1> QED
    BY <1>1, <1>2, <1>4, <1>5

\* The metadata is written, block by block.
LEMMA FileOfHeader ==
    ASSUME FileHolds, Books, Whole, CardInv, encode \in Encodes, UNCHANGED encode,
           writemode = "card", failed' = FALSE, failed = FALSE,
           WriteMagic \/ WriteStreamInfo \/ WriteUserBlocks
    PROVE  FileHolds'
  <1> DEFINE start == Magic \o StreamInfo(<<0, 0>>, Len(song), NoMd5)
  <1>0. room' = room /\ song' = song
    BY DEF room, song
  <1>1. ASSUME NEW stored, Kept(file', stored), Stored' = stored, fp' = Len(file'),
               update' = 1, pc' \in Setup \cup {"read"},
               pc' \notin {"open", "magic", "streaminfo"} =>
                  streaminfo_offset' = IF room = 0 THEN 0 ELSE 1
        PROVE  FileHolds'
    <2>1. Kept(file, Stored)'
      BY <1>0, <1>1 DEF Kept
    <2>2. pc' \notin {"overwrite", "close", "returned"}
      BY <1>1 DEF Setup
    <2> QED
      BY <1>0, <1>1, <2>1, <2>2 DEF FileHolds
  <1>2. PICK T : start \in Seq(T)
    BY HeaderIs
  <1>3. start' = start
    BY <1>0 DEF Magic, StreamInfo, Unit, NoMd5
  <1>4. CASE WriteMagic
    <2>1. PICK S : Magic \in Seq(S)
      BY MetadataUnits
    <2>2. WriteMetadata("magic", Magic, "streaminfo") /\ "magic" \in Setup
      BY <1>4 DEF WriteMagic, Setup
    <2>3. /\ Kept(file', Stored \o Magic) /\ fp' = Len(file') /\ update' = 1
          /\ pc' = "streaminfo" /\ pc = "magic"
      BY <2>1, <2>2, FileOfMetadata
    <2>4. Stored = <<>> /\ Stored' = Magic
      BY <2>3 DEF Stored, Magic, Unit
    <2>5. <<>> \o Magic = Magic
      BY <2>1, ConcatEmptySeq
    <2> QED
      BY <1>1, <2>3, <2>4, <2>5 DEF Setup
  <1>5. CASE WriteStreamInfo
    <2> DEFINE units == StreamInfo(<<0, 0>>, Len(song), NoMd5)
    <2>1. PICK S : units \in Seq(S)
      BY MetadataUnits
    <2>2. WriteMetadata("streaminfo", units, "blocks") /\ "streaminfo" \in Setup
      BY <1>5 DEF WriteStreamInfo, Setup
    <2> HIDE DEF units
    <2>3. /\ Kept(file', Stored \o units) /\ fp' = Len(file') /\ update' = 1
          /\ pc' = "blocks" /\ pc = "streaminfo" /\ state' \notin OutOfMemory
      BY <2>1, <2>2, FileOfMetadata
    <2>4. Stored = Magic /\ Stored' = start'
      BY <2>3 DEF Stored
    <2>5. streaminfo_offset' = fp
      BY <1>5, <2>3 DEF WriteStreamInfo
    <2>6. fp = IF room = 0 THEN 0 ELSE 1
      <3>1. fp = Len(file) /\ Kept(file, Magic)
        BY <2>3, <2>4 DEF FileHolds, Ending
      <3>2. Len(Magic) = 1 /\ room \in Nat
        BY EncoderAssumption DEF Magic, room
      <3> QED
        BY <3>1, <3>2 DEF Kept
    <2>7. Stored \o units = start
      BY <2>4 DEF units
    <2>8. Kept(file', start)
      BY <2>3, <2>7
    <2>9. Stored' = start
      BY <1>3, <2>4
    <2> HIDE DEF start
    <2> QED
      BY <1>1, <2>3, <2>5, <2>6, <2>8, <2>9 DEF Setup
  <1>6. CASE WriteUserBlocks
    <2> DEFINE first == <<UserBlocks[1]>>
               second == <<UserBlocks[2]>>
    <2>1. PICK S : first \in Seq(S)
      BY MetadataUnits
    <2>2. PICK U : second \in Seq(U)
      BY MetadataUnits
    <2>3. /\ UNCHANGED streaminfo_offset
          /\ \/ WriteMetadata("blocks", first, "padding")
             \/ WriteMetadata("padding", second, "read")
      BY <1>6 DEF WriteUserBlocks
    <2>4. (start \o first) \o second = Header(<<0, 0>>, Len(song), NoMd5)
      BY <1>2, UserBlocksAre DEF Header
    <2>5. first' = first /\ second' = second
      BY DEF UserBlocks, Unit
    <2> HIDE DEF first, second, start
    <2>6. CASE WriteMetadata("blocks", first, "padding")
      <3>1. /\ Kept(file', Stored \o first) /\ fp' = Len(file') /\ update' = 1
            /\ pc' = "padding" /\ pc = "blocks"
        BY <2>1, <2>6, FileOfMetadata DEF Setup
      <3>2. Stored = start
        BY <3>1 DEF Stored, start
      <3>3. Stored' = start \o first
        <4>1. Stored' = start' \o first'
          BY <3>1 DEF Stored, start, first
        <4> QED
          BY <1>3, <2>5, <4>1
      <3>4. Kept(file', start \o first)
        BY <3>1, <3>2
      <3>5. streaminfo_offset' = IF room = 0 THEN 0 ELSE 1
        BY <2>3, <3>1 DEF FileHolds
      <3> QED
        BY <1>1, <3>1, <3>3, <3>4, <3>5 DEF Setup
    <2>7. CASE WriteMetadata("padding", second, "read")
      <3>1. /\ Kept(file', Stored \o second) /\ fp' = Len(file') /\ update' = 1
            /\ pc' = "read" /\ pc = "padding" /\ UNCHANGED frames
        BY <2>2, <2>7, FileOfMetadata DEF Setup
      <3>2. Stored = start \o first
        BY <3>1 DEF Stored, start, first
      <3>3. Stored' = Header(<<0, 0>>, Len(song), NoMd5)
        <4>1. Stored' = Heading' \o FlattenSeq(Blocks(frames'))
          BY <3>1 DEF Stored, Blocks, FrameUnits, Unit
        <4>2. update = 1
          BY <3>1 DEF FileHolds, Ending
        <4>3. Heading' = Header(<<0, 0>>, Len(song), NoMd5)
          BY <3>1, <4>2, HeadingStays
        <4>4. Len(frames) = 0
          BY <3>1 DEF Whole, Setup
        <4>5. FlattenSeq(Blocks(frames)) = <<>>
          <5>1. Blocks(frames) = <<>>
            <6>1. Blocks(frames) = [i \in 1..0 |-> FrameUnits(frames[i])]
              BY <4>4 DEF Blocks
            <6>2. 1..0 = {}
              OBVIOUS
            <6> QED
              BY <6>1, <6>2
          <5>2. FlattenSeq(<<>>) = <<>>
            BY DEF FlattenSeq
          <5> QED
            BY <5>1, <5>2
        <4>6. Header(<<0, 0>>, Len(song), NoMd5) \o <<>> = Header(<<0, 0>>, Len(song), NoMd5)
          BY HeaderIs, ConcatEmptySeq
        <4> QED
          BY <3>1, <4>1, <4>3, <4>5, <4>6
      <3>4. Kept(file', Header(<<0, 0>>, Len(song), NoMd5))
        BY <2>4, <3>1, <3>2
      <3>5. streaminfo_offset' = IF room = 0 THEN 0 ELSE 1
        BY <2>3, <3>1 DEF FileHolds
      <3> QED
        BY <1>1, <3>1, <3>3, <3>4, <3>5 DEF Setup
    <2> QED
      BY <2>3, <2>6, <2>7
  <1> QED
    BY <1>4, <1>5, <1>6

\* f_lseek to a field of STREAMINFO
LEMMA FileOfSeek ==
    ASSUME FileHolds, CardInv, TypeInv, encode \in Encodes, UNCHANGED encode,
           writemode = "card", failed' = FALSE, Seek
    PROVE  FileHolds'
  <1>1. /\ pc = "seek" /\ update \in 1..3
        /\ FLseek(Updates[update].at) /\ ~broken' /\ pc' = "overwrite"
        /\ UNCHANGED <<update, frames, info, streaminfo_offset>>
    <2>1. update \in 1..4 /\ Len(Updates) = 3
      BY UpdatesAre DEF TypeInv
    <2>2. /\ pc = "seek" /\ update <= Len(Updates) /\ FLseek(Updates[update].at)
          /\ Called("overwrite") /\ UNCHANGED update
      BY DEF Seek
    <2>3. ~broken' /\ pc' = "overwrite" /\ UNCHANGED <<frames, info, streaminfo_offset>>
      BY <2>2 DEF Called, frameVars, historyVars
    <2> QED
      BY <2>1, <2>2, <2>3
  <1>2. fp' = Min({Updates[update].at, Len(file)}) /\ UNCHANGED file
    BY <1>1 DEF FLseek
  <1>3. streaminfo_offset = IF room = 0 THEN 0 ELSE 1
    BY <1>1 DEF FileHolds
  <1>4. Updates[update].at = streaminfo_offset + 4 - update
    BY <1>1, UpdatesAre
  <1>5. Len(file) \in Nat /\ Len(file) <= room /\ room \in Nat
    <2>1. PICK T : file \in Seq(T)
      BY DEF CardInv
    <2> QED
      BY <2>1, EncoderAssumption DEF CardInv, room
  <1> DEFINE l == Len(file)
             p == Updates[update].at
  <1>6. p \in Nat /\ l \in Nat /\ p \in Int /\ l \in Int
    BY <1>1, <1>3, <1>4, <1>5
  <1>7. Min({p, l}) = IF 5 - update <= l THEN 5 - update ELSE l
    <2>1. p = (IF room = 0 THEN 0 ELSE 1) + 4 - update
      BY <1>3, <1>4
    <2> HIDE DEF p, l
    <2>2. Min({p, l}) \in {p, l} /\ Min({p, l}) <= p /\ Min({p, l}) <= l
      BY <1>6, LeastOfTwo
    <2>3. l <= room
      BY <1>5 DEF l
    <2> QED
      BY <1>1, <1>5, <1>6, <2>1, <2>2, <2>3
  <1>8. Stored' = Stored
    BY <1>1 DEF Stored, Heading, Header, Magic, StreamInfo, UserBlocks, NoMd5, Unit, song, Blocks,
                FrameUnits
  <1>9. Kept(file, Stored)'
    BY <1>2, <1>8 DEF FileHolds, Kept, room
  <1> QED
    BY <1>1, <1>2, <1>3, <1>7, <1>9 DEF FileHolds, Ending, room

\* A field of STREAMINFO is completed, and nothing else.
LEMMA HeadingCompleted ==
    ASSUME update \in 1..3, update' = update + 1, UNCHANGED <<encode, info>>
    PROVE  /\ Len(Heading) = 7 /\ Len(Heading') = 7
           /\ \A i \in 1..7 :
                 Heading'[i] = IF i = 6 - update THEN Updates[update].unit ELSE Heading[i]
           /\ \E S : Heading \in Seq(S)
           /\ \E S : Heading' \in Seq(S)
  <1> DEFINE a == IF update > 3 THEN <<info.min, info.max>> ELSE <<0, 0>>
             b == IF update > 2 THEN info.total ELSE Len(song)
             c == IF update > 1 THEN info.md5 ELSE NoMd5
             x == IF update' > 3 THEN <<info.min, info.max>> ELSE <<0, 0>>
             y == IF update' > 2 THEN info.total ELSE Len(song)
             z == IF update' > 1 THEN info.md5 ELSE NoMd5
             h == Heading
             k == Heading'
             unit == Updates[update].unit
  <1>1. h = Header(a, b, c) /\ k = Header(x, y, z)
    BY DEF Heading, Header, StreamInfo, Unit, NoMd5, Magic, UserBlocks, song
  <1>2. /\ update = 1 => a = x /\ b = y /\ unit = Unit("md5", z)
        /\ update = 2 => a = x /\ c = z /\ unit = Unit("total", y)
        /\ update = 3 => b = y /\ c = z /\ unit = Unit("framesizes", x)
    BY UpdatesAre
  <1> HIDE DEF a, b, c, x, y, z, h, k, unit
  <1>3. /\ Len(h) = 7 /\ \E S : h \in Seq(S)
        /\ h[1] = Unit("magic", 0) /\ h[2] = Unit("streaminfo", Blocksize)
        /\ h[3] = Unit("framesizes", a) /\ h[4] = Unit("total", b) /\ h[5] = Unit("md5", c)
        /\ h[6] = Unit("vorbis_comment", 0) /\ h[7] = Unit("padding", 0)
    BY <1>1, HeaderIs
  <1>4. /\ Len(k) = 7 /\ \E S : k \in Seq(S)
        /\ k[1] = Unit("magic", 0) /\ k[2] = Unit("streaminfo", Blocksize)
        /\ k[3] = Unit("framesizes", x) /\ k[4] = Unit("total", y) /\ k[5] = Unit("md5", z)
        /\ k[6] = Unit("vorbis_comment", 0) /\ k[7] = Unit("padding", 0)
    BY <1>1, HeaderIs
  <1>5. ASSUME NEW i \in 1..7 PROVE k[i] = IF i = 6 - update THEN unit ELSE h[i]
    <2>1. i \in {1, 2, 3, 4, 5, 6, 7}
      OBVIOUS
    <2>2. CASE update = 1
      BY <1>2, <1>3, <1>4, <2>1, <2>2
    <2>3. CASE update = 2
      BY <1>2, <1>3, <1>4, <2>1, <2>3
    <2>4. CASE update = 3
      BY <1>2, <1>3, <1>4, <2>1, <2>4
    <2> QED
      BY <2>2, <2>3, <2>4
  <1> QED
    BY <1>3, <1>4, <1>5 DEF h, k, unit

\* update_metadata_ writes a field of STREAMINFO.
LEMMA FileOfOverwrite ==
    ASSUME FileHolds, CardInv, TypeInv, Books, encode \in Encodes, UNCHANGED encode,
           writemode = "card", failed' = FALSE, Overwrite
    PROVE  FileHolds'
  <1>1. /\ pc = "overwrite" /\ update \in 1..3 /\ update' = update + 1
        /\ FWrite(<<Updates[update].unit>>) /\ ~broken' /\ pc' = "seek"
        /\ UNCHANGED <<frames, info, streaminfo_offset>>
    <2>1. /\ pc = "overwrite" /\ update' = update + 1 /\ FWrite(<<Updates[update].unit>>)
          /\ Called("seek")
      BY DEF Overwrite
    <2>2. ~broken' /\ pc' = "seek" /\ UNCHANGED <<frames, info, streaminfo_offset>>
      BY <2>1 DEF Called, frameVars, historyVars
    <2> QED
      BY <2>1, <2>2 DEF TypeInv
  <1> DEFINE unit == Updates[update].unit
             flat == FlattenSeq(Blocks(frames))
             h == Heading
             k == Heading'
             w == h \o flat
             new == k \o flat
             p == 5 - update
  <1>2. Stored = w /\ Stored' = new
    <2>1. Stored' = Heading' \o FlattenSeq(Blocks(frames'))
      BY <1>1 DEF Stored, Blocks, FrameUnits, Unit
    <2> QED
      BY <1>1, <2>1 DEF Stored
  <1>3. /\ Len(h) = 7 /\ Len(k) = 7
        /\ \A i \in 1..7 : k[i] = IF i = 6 - update THEN unit ELSE h[i]
        /\ \E S : h \in Seq(S)
        /\ \E S : k \in Seq(S)
    BY <1>1, HeadingCompleted
  <1>4. PICK S : flat \in Seq(S)
    BY StoredIsSeq
  <1>5. PICK T : h \in Seq(T)
    BY <1>3
  <1>6. PICK V : k \in Seq(V)
    BY <1>3
  <1>7. FWrite(<<unit>>)
    BY <1>1
  <1> HIDE DEF unit, flat, h, k
  <1> DEFINE R == (S \cup T) \cup (V \cup {unit})
  <1>8. flat \in Seq(R) /\ h \in Seq(R) /\ k \in Seq(R) /\ unit \in R
    BY <1>4, <1>5, <1>6, SeqMonotonic
  <1> HIDE DEF R
  <1>9. /\ w \in Seq(R) /\ Len(w) = 7 + Len(flat)
        /\ \A i \in 1..(7 + Len(flat)) : w[i] = IF i <= 7 THEN h[i] ELSE flat[i - 7]
    <2>1. /\ h \o flat \in Seq(R) /\ Len(h \o flat) = Len(h) + Len(flat)
          /\ \A i \in 1..(Len(h) + Len(flat)) :
                (h \o flat)[i] = IF i <= Len(h) THEN h[i] ELSE flat[i - Len(h)]
      BY <1>8, ConcatProperties
    <2> QED
      BY <1>3, <2>1
  <1>10. /\ new \in Seq(R) /\ Len(new) = 7 + Len(flat)
         /\ \A i \in 1..(7 + Len(flat)) : new[i] = IF i <= 7 THEN k[i] ELSE flat[i - 7]
    <2>1. /\ k \o flat \in Seq(R) /\ Len(k \o flat) = Len(k) + Len(flat)
          /\ \A i \in 1..(Len(k) + Len(flat)) :
                (k \o flat)[i] = IF i <= Len(k) THEN k[i] ELSE flat[i - Len(k)]
      BY <1>8, ConcatProperties
    <2> QED
      BY <1>3, <2>1
  <1>11. Len(flat) \in Nat /\ p \in Nat /\ p + 1 = 6 - update /\ p < 7
    BY <1>1, <1>8
  <1> HIDE DEF w, new
  <1>12. \A i \in 1..Len(w) : new[i] = IF i = p + 1 THEN unit ELSE w[i]
    <2> SUFFICES ASSUME NEW i \in 1..(7 + Len(flat))
                 PROVE  new[i] = IF i = p + 1 THEN unit ELSE w[i]
      BY <1>9
    <2>1. CASE i <= 7
      <3>1. i \in 1..7
        BY <1>11, <2>1
      <3> QED
        BY <1>3, <1>9, <1>10, <1>11, <2>1, <3>1
    <2>2. CASE ~(i <= 7)
      <3>1. i # p + 1
        BY <1>11, <2>2
      <3> QED
        BY <1>9, <1>10, <2>2, <3>1
    <2> QED
      BY <2>1, <2>2
  <1>13. Kept(file, w) /\ fp = IF p <= Len(file) THEN p ELSE Len(file)
    BY <1>1, <1>2 DEF FileHolds
  <1>14. Len(new) = Len(w) /\ p < Len(w)
    BY <1>9, <1>10, <1>11
  <1> HIDE DEF p
  <1>15. Kept(file', new)
    BY <1>1, <1>7, <1>8, <1>9, <1>10, <1>11, <1>12, <1>13, <1>14, Replaced
  <1>16. Kept(file, Stored)'
    BY <1>2, <1>15 DEF Kept, room
  <1> QED
    BY <1>1, <1>16 DEF FileHolds, Ending, room

\* Every step keeps the file what it should be.
LEMMA FileStep ==
    /\ ErrorInv /\ TypeInv /\ LosslessInv /\ Books /\ Whole /\ QuietInv /\ FileInv /\ [Next]_vars
    => FileInv'
  <1> SUFFICES ASSUME ErrorInv, TypeInv, LosslessInv, Books, Whole, QuietInv, FileInv,
                      [Next]_vars, writemode' = "card", ~failed'
               PROVE  FileHolds'
    BY DEF FileInv
  <1> USE DEF frameVars, clientVars, historyVars, outputVars, cardVars
  <1>1. CardInv /\ encode \in Encodes /\ failed \in BOOLEAN /\ broken \in BOOLEAN
    BY DEF ErrorInv, TypeInv, CardInv, LosslessInv
  <1>2. UNCHANGED encode /\ ~failed
    BY <1>1, EncodeStays
  <1>3. writemode = "card" /\ FileHolds
    BY <1>2 DEF FileInv, writemode
  <1>4. CASE Open
    <2>1. /\ pc = "open" /\ pc' \in {"magic", "finish"} /\ (pc' = "finish" => failed' = TRUE)
          /\ UNCHANGED <<file, fp, update>>
      BY <1>4 DEF Open
    <2>2. pc' = "magic"
      BY <2>1
    <2>3. Stored = <<>> /\ Stored' = <<>>
      BY <2>1, <2>2 DEF Stored
    <2>4. Kept(file, Stored)'
      BY <1>2, <1>3, <2>1, <2>3 DEF FileHolds, Kept, room
    <2> QED
      BY <1>3, <2>1, <2>2, <2>4 DEF FileHolds, Ending
  <1>5. failed' = FALSE
    BY ErrorStep DEF ErrorInv
  <1>6. CASE WriteMagic \/ WriteStreamInfo \/ WriteUserBlocks
    <2>1. failed = FALSE
      BY <1>1, <1>2
    <2> QED
      BY <1>1, <1>2, <1>3, <1>5, <1>6, <2>1, FileOfHeader
  <1>7. CASE ReadBlock \/ AllRead
    <2>1. /\ pc = "read" /\ pc' \in {"process", "finish"}
          /\ UNCHANGED <<encode, file, fp, streaminfo_offset, update, frames, info>>
      BY <1>7 DEF ReadBlock, AllRead
    <2> QED
      BY <1>3, <2>1, FileKept DEF Setup, Ending
  <1>8. CASE Turn
    <2>1. /\ state = "OK" /\ Stereo(LeftRight) /\ Len(LeftRight[1]) = Buffered + TurnSize
          /\ Buffered \in Nat /\ TurnSize \in Nat
          /\ Joint(LeftRight, MidAndSide) /\ Pairs(LeftRight) = fifo \o Taken
      BY <1>8, TurnTakes
    <2>2. /\ \/ failed' = TRUE
             \/ UNCHANGED <<file, fp, frames, info>>
             \/ /\ Buffered + TurnSize > Blocksize
                /\ ProcessFrame(LeftRight, MidAndSide, fifo \o Taken, Blocksize)
          /\ UNCHANGED <<update, streaminfo_offset>>
          /\ pc = "process" /\ pc' \in {"finish", "read", "process"}
      BY <1>8, TurnDoes
    <2>3. CASE UNCHANGED <<file, fp, frames, info>>
      BY <1>2, <1>3, <2>2, <2>3, FileKept DEF Setup, Ending
    <2>4. CASE /\ Buffered + TurnSize > Blocksize
               /\ ProcessFrame(LeftRight, MidAndSide, fifo \o Taken, Blocksize)
      <3>1. Blocksize \in Nat /\ Blocksize <= Len(LeftRight[1])
        BY <2>1, <2>4, EncoderAssumption
      <3>2. ProcessFrame(LeftRight, MidAndSide, Pairs(LeftRight), Blocksize)
        BY <2>1, <2>4
      <3>3. pc \notin Setup \cup Ending /\ pc' \notin Setup \cup {"overwrite", "close", "returned"}
        BY <2>2 DEF Setup, Ending
      <3> QED
        BY <1>1, <1>2, <1>3, <1>5, <2>1, <2>2, <3>1, <3>2, <3>3, FileOfFrame
    <2> QED
      BY <2>2, <2>3, <2>4
  <1>9. CASE Finish
    <2>1. pc = "finish" /\ pc' = "seek" /\ UNCHANGED <<update, streaminfo_offset>>
      BY <1>9 DEF Finish
    <2>2. CASE UNCHANGED <<file, fp, frames, info>>
      BY <1>2, <1>3, <2>1, <2>2, FileKept DEF Setup, Ending
    <2>3. CASE state = "OK" /\ ProcessFrame(signal, mid_side, fifo, Buffered)
      <3>1. Carried
        BY <2>3 DEF LosslessInv, Live
      <3>2. /\ Stereo(signal) /\ Joint(signal, mid_side) /\ Buffered \in Nat
            /\ Buffered <= Len(signal[1]) /\ fifo = Pairs(signal)
        BY <3>1 DEF Carried, Stereo, Buffered
      <3>3. ProcessFrame(signal, mid_side, Pairs(signal), Buffered)
        BY <2>3, <3>2
      <3>4. pc \notin Setup \cup Ending /\ pc' \notin Setup \cup {"overwrite", "close", "returned"}
        BY <2>1 DEF Setup, Ending
      <3> QED
        BY <1>1, <1>2, <1>3, <1>5, <2>1, <2>3, <3>2, <3>3, <3>4, FileOfFrame
    <2> QED
      BY <1>9, <2>2, <2>3 DEF Finish
  <1>10. CASE Seek
    BY <1>1, <1>2, <1>3, <1>5, <1>10, FileOfSeek
  <1>11. CASE Overwrite
    BY <1>1, <1>2, <1>3, <1>5, <1>11, FileOfOverwrite
  <1>12. CASE Updated
    <2>1. pc = "seek" /\ pc' = "close" /\ (state = "OK" => update > Len(Updates))
          /\ UNCHANGED <<encode, file, fp, streaminfo_offset, update, frames, info>>
      BY <1>12 DEF Updated
    <2>2. update = 4
      BY <1>2, <2>1, UpdatesAre DEF QuietInv, TypeInv
    <2> QED
      BY <1>3, <2>1, <2>2, FileKept DEF Setup, Ending
  <1>13. CASE Close
    <2>1. /\ pc = "close" /\ pc' = "returned"
          /\ UNCHANGED <<encode, file, fp, streaminfo_offset, update, frames, info>>
      BY <1>13 DEF Close
    <2>2. update = 4
      BY <1>3, <2>1 DEF FileHolds
    <2> QED
      BY <1>3, <2>1, <2>2, FileKept DEF Setup, Ending
  <1>14. CASE UNCHANGED vars
    <2>1. UNCHANGED <<encode, pc, file, fp, streaminfo_offset, update, frames, info>>
      BY <1>14 DEF vars
    <2>2. Stored' = Stored
      BY <2>1 DEF Stored, Heading, Header, Magic, StreamInfo, UserBlocks, NoMd5, Unit, song,
                  Blocks, FrameUnits
    <2>3. Kept(file, Stored)' <=> Kept(file, Stored)
      BY <2>1, <2>2 DEF Kept, room
    <2> QED
      BY <1>3, <2>1, <2>3 DEF FileHolds, room
  <1> QED
    BY <1>4, <1>6, <1>7, <1>8, <1>9, <1>10, <1>11, <1>12, <1>13, <1>14 DEF Next, Go, Returned

\* At first it is empty.
LEMMA FileInit == Init => FileInv
  <1> SUFFICES ASSUME Init PROVE FileHolds
    BY DEF FileInv
  <1>1. pc = "open" /\ file = <<>> /\ fp = 0 /\ update = 1 /\ encode \in Encodes
    BY DEF Init
  <1>2. Stored = <<>> /\ Len(<<>>) = 0
    BY <1>1 DEF Stored
  <1>3. room \in Nat
    BY <1>1, EncoderAssumption DEF room
  <1>4. Kept(file, Stored)
    BY <1>1, <1>2, <1>3 DEF Kept
  <1> QED
    BY <1>1, <1>2, <1>4 DEF FileHolds, Ending

\* STREAMINFO tells the least and the greatest size of a frame.
LEMMA MeasuredIs ==
    Books => <<info.min, info.max>> =
                 IF Sizes(frames) = {} THEN <<NoFramesize, 0>>
                 ELSE <<Min(Sizes(frames)), Max(Sizes(frames))>>
  <1> SUFFICES ASSUME Books
               PROVE  <<info.min, info.max>> =
                          IF Sizes(frames) = {} THEN <<NoFramesize, 0>>
                          ELSE <<Min(Sizes(frames)), Max(Sizes(frames))>>
    OBVIOUS
  <1> DEFINE sizes == Sizes(frames)
             least == info.min
             most == info.max
  <1>1. Measured /\ sizes \subseteq Nat /\ (Len(frames) > 0 <=> sizes # {})
    <2>1. PICK S : frames \in Seq(S)
      BY DEF Books
    <2>2. Len(frames) \in Nat
      BY <2>1
    <2>3. sizes \subseteq Nat
      BY EncoderAssumption DEF Books, Numbered, Sizes
    <2>4. Len(frames) > 0 => frames[1].bytes \in sizes
      <3>1. Len(frames) > 0 => 1 \in 1..Len(frames)
        BY <2>2
      <3> QED
        BY <3>1 DEF Sizes
    <2>5. sizes # {} => Len(frames) > 0
      BY <2>2 DEF Sizes
    <2> QED
      BY <2>3, <2>4, <2>5 DEF Books
  <1>2. /\ sizes = {} => least = NoFramesize /\ most = 0
        /\ sizes # {} => least \in sizes /\ most \in sizes
        /\ \A n \in sizes : least <= n /\ n <= most
    BY <1>1 DEF Measured
  <1> HIDE DEF sizes, least, most
  <1>3. ASSUME sizes # {} PROVE least = Min(sizes) /\ most = Max(sizes)
    <2>1. ASSUME NEW x \in sizes, \A y \in sizes : x <= y PROVE x = least
      <3>1. x \in Nat /\ least \in Nat /\ x <= least /\ least <= x
        BY <1>1, <1>2, <1>3, <2>1
      <3> QED
        BY <3>1
    <2>2. ASSUME NEW x \in sizes, \A y \in sizes : x >= y PROVE x = most
      <3>1. x \in Nat /\ most \in Nat /\ x >= most /\ most >= x
        BY <1>1, <1>2, <1>3, <2>2
      <3> QED
        BY <3>1
    <2>3. \A y \in sizes : most >= y
      BY <1>1, <1>2, <1>3
    <2>4. least = Min(sizes)
      BY <1>2, <1>3, <2>1 DEF Min
    <2>5. most = Max(sizes)
      BY <1>2, <1>3, <2>2, <2>3 DEF Max
    <2> QED
      BY <2>4, <2>5
  <1> QED
    BY <1>2, <1>3 DEF sizes, least, most

\* What is kept is the beginning.
LEMMA KeptIsFront ==
    ASSUME encode \in Encodes, NEW S, NEW f \in Seq(S), NEW T, NEW w \in Seq(T), Kept(f, w)
    PROVE  f = SubSeq(w, 1, Min({room, Len(w)}))
  <1> DEFINE k == Len(w)
             l == Len(f)
             n == Min({room, k})
  <1>1. room \in Nat /\ k \in Nat /\ l \in Nat
    BY EncoderAssumption DEF room
  <1>2. n = l /\ l <= k
    <2>1. l = IF room <= k THEN room ELSE k
      BY DEF Kept
    <2> HIDE DEF k, l, n
    <2>2. room \in Int /\ k \in Int
      BY <1>1
    <2>3. n \in {room, k} /\ n <= room /\ n <= k
      BY <2>2, LeastOfTwo DEF n
    <2> QED
      BY <1>1, <2>1, <2>3
  <1>3. \A i \in 1..l : f[i] = w[i]
    BY DEF Kept
  <1> DEFINE g == SubSeq(w, 1, l)
  <1>4. g \in Seq(T) /\ Len(g) = l /\ \A i \in 1..l : g[i] = w[i]
    <2>1. l \in 0..Len(w)
      BY <1>1, <1>2
    <2> HIDE DEF l
    <2> QED
      BY <2>1, FrontOf
  <1>5. f = g
    <2>1. f \in [1..l -> S] /\ g \in [1..l -> T]
      BY <1>4, LenProperties
    <2> HIDE DEF g, l
    <2> QED
      BY <1>3, <1>4, <2>1
  <1> QED
    BY <1>2, <1>5

\* The file of an encode without errors is the stream of its frames: the metadata, with
\* a STREAMINFO that update_metadata_ has completed in three writes amid the file, and
\* every frame once, in order, all but the last of them whole blocks; on a full card it
\* is the beginning of that, and no write has gone elsewhere.
THEOREM FileIsAlwaysTheStream == Spec => []FileIsTheStream
  <1>1. LosslessInv /\ TypeInv /\ Books /\ Whole /\ QuietInv /\ FileInv => FileIsTheStream
    <2> SUFFICES ASSUME LosslessInv, TypeInv, Books, Whole, QuietInv, FileInv,
                        pc = "returned", ~failed, writemode = "card"
                 PROVE  /\ file = SubSeq(Stream, 1, Min({room, Len(Stream)}))
                        /\ \A i \in 1..Len(frames) :
                              /\ frames[i].number = i - 1
                              /\ i < Len(frames) => frames[i].size = Blocksize
      BY DEF FileIsTheStream
    <2>1. FileHolds /\ update = 4
      BY DEF FileInv, FileHolds
    <2>2. info.md5 = SubSeq(song, 1, at) /\ info.total = at
      <3>1. audio = SubSeq(song, 1, at)
        BY DEF QuietInv, AllInFrames, Ending
      <3>2. Len(SubSeq(song, 1, at)) = at
        <4>1. song \in Seq(Pair) /\ at \in 0..Len(song)
          BY SongProperties DEF LosslessInv, TypeInv, SamplesTyped
        <4> QED
          BY <4>1, FrontOf
      <3> QED
        BY <3>1, <3>2 DEF Books
    <2>3. Stored = Heading \o FlattenSeq(Blocks(frames))
      BY DEF Stored
    <2>4. Heading = Header(<<info.min, info.max>>, at, SubSeq(song, 1, at))
      BY <2>1, <2>2 DEF Heading
    <2>5. Stored = Stream
      BY <2>3, <2>4, MeasuredIs DEF Stream, Header, Sizes, Blocks
    <2>6. PICK S : file \in Seq(S)
      BY DEF TypeInv, CardInv
    <2>7. PICK T : Stored \in Seq(T)
      BY StoredIsSeq
    <2>8. encode \in Encodes /\ Kept(file, Stored)
      BY <2>1 DEF LosslessInv, FileHolds
    <2>9. file = SubSeq(Stored, 1, Min({room, Len(Stored)}))
      BY <2>6, <2>7, <2>8, KeptIsFront
    <2> QED
      BY <2>5, <2>9 DEF Books, Numbered, Whole
  <1>2. Init => ErrorInv
    BY DEF Init, ErrorInv
  <1> QED
    BY <1>1, <1>2, ErrorStep, TypeInit, TypeStep, BooksInit, BooksStep, QuietInit, QuietStep,
       FileInit, FileStep, InductiveLossless, PTL DEF Spec

-------------------------------------------------------------------------------
(* Progress *)

BytesOf(fs) == [i \in 1..Len(fs) |-> fs[i].bytes]
SamplesOf(fs) == [i \in 1..Len(fs) |-> fs[i].size]

\* The counters with all of fs written, and how many frames they say that is
Counted(fs, number) ==
    [bytes |-> 7 + Total(BytesOf(fs)), samples |-> Total(SamplesOf(fs)), frames |-> number]

HeaderBytes ==
    CASE pc \in {"open", "magic"} -> 0
      [] pc = "streaminfo" -> 1
      [] pc = "blocks" -> 5
      [] pc = "padding" -> 6

\* What is written is counted; a block of metadata counts as a frame, until there is one,
\* and the client is told one frame more.
Counts ==
    /\ pc \in Setup =>
          written = [bytes |-> HeaderBytes, samples |-> 0,
                     frames |-> IF pc \in {"open", "magic"} THEN 0 ELSE 1]
    /\ (pc \notin Setup /\ state = "OK") \/ Len(frames) > 0 =>
          written = Counted(frames, IF Len(frames) = 0 THEN 1 ELSE Len(frames))
    /\ Len(frames) > 0 =>
          progress = Counted(frames, IF Len(frames) = 1 THEN 2 ELSE Len(frames))

ProgressInv == writemode = "card" /\ ~broken => Counts

\* A frame more counts as its bytes and its samples.
LEMMA CountedOneMore ==
    ASSUME Numbered(frames), Numbered(frames'), Len(frames) \in Nat,
           Len(frames') = Len(frames) + 1, \A i \in 1..Len(frames) : frames'[i] = frames[i]
    PROVE  /\ Total(BytesOf(frames)) \in Int /\ Total(SamplesOf(frames)) \in Int
           /\ Total(BytesOf(frames')) = Total(BytesOf(frames)) + frames'[Len(frames) + 1].bytes
           /\ Total(SamplesOf(frames')) = Total(SamplesOf(frames)) + frames'[Len(frames) + 1].size
  <1> DEFINE n == Len(frames)
             b == BytesOf(frames)
             s == SamplesOf(frames)
             c == BytesOf(frames')
             t == SamplesOf(frames')
  <1>1. n \in Nat /\ n + 1 \in 1..(n + 1) /\ \A i \in 1..n : i \in 1..(n + 1)
    OBVIOUS
  <1>2. /\ \A i \in 1..n : frames[i].bytes \in Int /\ frames[i].size \in Int
        /\ \A i \in 1..(n + 1) : frames'[i].bytes \in Int /\ frames'[i].size \in Int
    <2>1. \A i \in 1..n : frames[i].bytes \in FrameSizes /\ frames[i].size \in Nat
      BY DEF Numbered
    <2>2. \A i \in 1..(n + 1) : frames'[i].bytes \in FrameSizes /\ frames'[i].size \in Nat
      BY DEF Numbered
    <2>3. \A x \in FrameSizes : x \in Int
      BY EncoderAssumption
    <2> QED
      BY <2>1, <2>2, <2>3
  <1>3. /\ DOMAIN b = 1..n /\ \A i \in 1..n : b[i] \in Int
        /\ DOMAIN s = 1..n /\ \A i \in 1..n : s[i] \in Int
    BY <1>2 DEF BytesOf, SamplesOf
  <1>4. /\ DOMAIN c = 1..(n + 1) /\ c[n + 1] = frames'[n + 1].bytes
        /\ DOMAIN t = 1..(n + 1) /\ t[n + 1] = frames'[n + 1].size
        /\ \A i \in 1..n : c[i] = b[i] /\ t[i] = s[i]
    BY <1>1 DEF BytesOf, SamplesOf
  <1>5. c[n + 1] \in Int /\ t[n + 1] \in Int
    BY <1>1, <1>2, <1>4
  <1> HIDE DEF n, b, s, c, t
  <1>6. Total(b) \in Int /\ Total(c) = Total(b) + c[n + 1]
    BY <1>1, <1>3, <1>4, <1>5, TotalOneMore
  <1>7. Total(s) \in Int /\ Total(t) = Total(s) + t[n + 1]
    BY <1>1, <1>3, <1>4, <1>5, TotalOneMore
  <1> QED
    BY <1>4, <1>6, <1>7 DEF n, b, s, c, t

\* A step that writes nothing
LEMMA CountsKept ==
    /\ Counts /\ UNCHANGED <<written, progress, frames>>
    /\ pc' \in Setup => pc \in Setup /\ (pc' = pc \/ {pc, pc'} \subseteq {"open", "magic"})
    /\ pc' \notin Setup /\ state' = "OK" => pc \notin Setup /\ state = "OK"
    => Counts'
  <1> SUFFICES ASSUME Counts, UNCHANGED <<written, progress, frames>>,
                      pc' \in Setup => /\ pc \in Setup
                                       /\ pc' = pc \/ {pc, pc'} \subseteq {"open", "magic"},
                      pc' \notin Setup /\ state' = "OK" => pc \notin Setup /\ state = "OK"
               PROVE  Counts'
    OBVIOUS
  <1>1. pc' \in Setup => /\ HeaderBytes' = HeaderBytes
                         /\ pc' \in {"open", "magic"} <=> pc \in {"open", "magic"}
    BY DEF HeaderBytes
  <1>2. \A number : Counted(frames', number) = Counted(frames, number)
    BY DEF Counted
  <1> QED
    BY <1>1, <1>2 DEF Counts, Counted, BytesOf, SamplesOf

\* A frame is counted, and the client is told.
LEMMA CountsOfFrame ==
    ASSUME Counts, Books, writemode = "card", broken' = FALSE, state = "OK",
           pc \notin Setup, pc' \notin Setup,
           NEW left_right, NEW ms, NEW n \in Nat, n > 0, Stereo(left_right),
           n <= Len(left_right[1]), Joint(left_right, ms),
           ProcessFrame(left_right, ms, Pairs(left_right), n)
    PROVE  Counts'
  <1>1. FrameTaken(left_right, ms, n) \/ FrameLost
    BY FrameOutcome
  <1>2. CASE FrameLost
    <2>1. state' # "OK" /\ UNCHANGED <<written, progress, frames>>
      BY <1>2 DEF FrameLost, outputVars, historyVars
    <2> QED
      BY <2>1, CountsKept
  <1>3. CASE FrameTaken(left_right, ms, n)
    <2> DEFINE m == Len(frames)
               frame == frames'[m + 1]
               units == FrameUnits(frame)
               b == Total(BytesOf(frames))
               s == Total(SamplesOf(frames))
    <2>1. /\ Books' /\ m \in Nat /\ Len(frames') = m + 1
          /\ \A i \in 1..m : frames'[i] = frames[i]
          /\ frame.size = n /\ WriteFrame(units, n)
      BY <1>3, FrameBooks
    <2>2. Numbered(frames) /\ Numbered(frames')
      BY <2>1 DEF Books, Numbered
    <2>3. frame.bytes \in Nat
      <3>1. m + 1 \in 1..Len(frames')
        BY <2>1
      <3> QED
        BY <2>2, <3>1, EncoderAssumption DEF Numbered
    <2>4. Len(units) = frame.bytes
      <3>1. PICK S : units \in Seq(S)
        BY <2>3, UnitsOfFrame
      <3>2. DOMAIN units = 1..frame.bytes
        BY DEF FrameUnits
      <3> HIDE DEF units, frame
      <3>3. DOMAIN units = 1..Len(units) /\ Len(units) \in Nat
        BY <3>1, LenProperties
      <3> QED
        BY <2>3, <3>2, <3>3
    <2>5. /\ b \in Int /\ s \in Int
          /\ Total(BytesOf(frames')) = b + frame.bytes
          /\ Total(SamplesOf(frames')) = s + frame.size
      BY <2>1, <2>2, CountedOneMore
    <2>6. written = [bytes |-> 7 + b, samples |-> s, frames |-> IF m = 0 THEN 1 ELSE m]
      BY DEF Counts, Counted
    <2>7. current_frame_number = m
      BY DEF Books
    <2>8. /\ written' = [bytes |-> written.bytes + Len(units), samples |-> written.samples + n,
                         frames |-> Max({written.frames, current_frame_number + 1})]
          /\ progress' = [bytes |-> written.bytes + Len(units), samples |-> written.samples + n,
                          frames |-> written.frames + 1]
      BY <2>1 DEF WriteFrame, WriteCallback, Progress
    <2> HIDE DEF m, frame, units, b, s
    <2>9. Max({written.frames, current_frame_number + 1}) = m + 1
      <3> DEFINE x == written.frames
                 y == current_frame_number + 1
      <3>1. x = (IF m = 0 THEN 1 ELSE m) /\ y = m + 1
        BY <2>6, <2>7
      <3> HIDE DEF x, y
      <3>2. x \in Int /\ y \in Int /\ x <= y
        BY <2>1, <3>1
      <3>3. Max({x, y}) \in {x, y} /\ Max({x, y}) >= x /\ Max({x, y}) >= y
        BY <3>2, GreatestOfTwo
      <3>4. Max({x, y}) = y
        BY <3>2, <3>3
      <3> QED
        BY <3>1, <3>4 DEF x, y
    <2>10. written' = [bytes |-> 7 + Total(BytesOf(frames')),
                       samples |-> Total(SamplesOf(frames')), frames |-> m + 1]
      <3>1. 7 + b + frame.bytes = 7 + (b + frame.bytes)
        BY <2>3, <2>5
      <3> QED
        BY <2>1, <2>4, <2>5, <2>6, <2>8, <2>9, <3>1
    <2>11. progress' = [bytes |-> 7 + Total(BytesOf(frames')),
                        samples |-> Total(SamplesOf(frames')),
                        frames |-> IF m + 1 = 1 THEN 2 ELSE m + 1]
      <3>1. 7 + b + frame.bytes = 7 + (b + frame.bytes)
        BY <2>3, <2>5
      <3>2. (IF m = 0 THEN 1 ELSE m) + 1 = IF m + 1 = 1 THEN 2 ELSE m + 1
        BY <2>1
      <3> QED
        BY <2>1, <2>4, <2>5, <2>6, <2>8, <3>1, <3>2
    <2>12. m + 1 # 0 /\ m + 1 > 0
      BY <2>1
    <2> QED
      BY <2>1, <2>10, <2>11, <2>12 DEF Counts, Counted
  <1> QED
    BY <1>1, <1>2, <1>3

\* A block of metadata is counted.
LEMMA CountsOfMetadata ==
    ASSUME Counts, Books, Whole, writemode = "card", broken' = FALSE, state = "OK",
           NEW here \in Setup \ {"open"}, NEW units, NEW next, NEW k \in Nat, Len(units) = k,
           WriteMetadata(here, units, next)
    PROVE  \/ pc' = "finish" /\ Counts'
           \/ /\ pc' = next /\ pc = here /\ UNCHANGED frames /\ Len(frames) = 0
              /\ written' = [bytes |-> HeaderBytes + k, samples |-> 0, frames |-> 1]
  <1>1. /\ pc = here /\ UNCHANGED frames /\ pc' \in {"finish", next}
        /\ \/ WriteFrame(units, 0) /\ state' = state
           \/ state' \in OutOfMemory /\ UNCHANGED outputVars
        /\ (state' = "OK" => pc' = next) /\ (state' # "OK" => pc' = "finish")
    BY DEF WriteMetadata, frameVars, historyVars
  <1>2. Len(frames) = 0 /\ current_frame_number = 0
    BY <1>1 DEF Whole, Books
  <1>3. CASE state' \in OutOfMemory
    <2>1. state' # "OK" /\ pc' = "finish"
      BY <1>1, <1>3 DEF OutOfMemory
    <2>2. Counts'
      BY <1>1, <1>2, <2>1 DEF Counts, Setup
    <2> QED
      BY <2>1, <2>2
  <1>4. CASE WriteFrame(units, 0) /\ state' = state
    <2>1. written = [bytes |-> HeaderBytes, samples |-> 0,
                     frames |-> IF here = "magic" THEN 0 ELSE 1]
      BY <1>1 DEF Counts, Setup
    <2>2. written' = [bytes |-> written.bytes + Len(units), samples |-> written.samples + 0,
                      frames |-> Max({written.frames, current_frame_number + 1})]
      BY <1>4 DEF WriteFrame
    <2>3. Max({written.frames, current_frame_number + 1}) = 1
      <3> DEFINE x == written.frames
      <3>1. x = IF here = "magic" THEN 0 ELSE 1
        BY <2>1
      <3>2. current_frame_number + 1 = 1
        BY <1>2
      <3> HIDE DEF x
      <3>3. x \in Int /\ 1 \in Int /\ x <= 1
        BY <3>1
      <3>4. Max({x, 1}) \in {x, 1} /\ Max({x, 1}) >= 1
        BY <3>3, GreatestOfTwo
      <3>5. Max({x, 1}) = 1
        BY <3>3, <3>4
      <3> QED
        BY <3>2, <3>5 DEF x
    <2> QED
      BY <1>1, <1>2, <1>4, <2>1, <2>2, <2>3
  <1> QED
    BY <1>1, <1>3, <1>4

\* Every step keeps the counters those of what is in the file.
LEMMA ProgressStep ==
    ErrorInv /\ TypeInv /\ LosslessInv /\ Books /\ Whole /\ ProgressInv /\ [Next]_vars
        => ProgressInv'
  <1> SUFFICES ASSUME ErrorInv, TypeInv, LosslessInv, Books, Whole, ProgressInv, [Next]_vars,
                      writemode' = "card", ~broken'
               PROVE  Counts'
    BY DEF ProgressInv
  <1> USE DEF frameVars, clientVars, historyVars, outputVars, cardVars
  <1>1. CardInv /\ encode \in Encodes /\ failed \in BOOLEAN /\ broken \in BOOLEAN
    BY DEF ErrorInv, TypeInv, CardInv, LosslessInv
  <1>2. UNCHANGED encode /\ ~broken
    BY <1>1, EncodeStays
  <1>3. writemode = "card" /\ Counts
    BY <1>2 DEF ProgressInv, writemode
  <1>4. broken' = FALSE
    BY TypeStep, LosslessStep DEF TypeInv, CardInv
  <1>5. CASE Open
    <2>1. /\ pc = "open" /\ UNCHANGED <<written, progress, frames>>
          /\ pc' \in {"magic", "finish"} /\ (pc' = "finish" => state' # "OK")
      BY <1>5 DEF Open, OutOfMemory
    <2> QED
      BY <1>3, <2>1, CountsKept DEF Setup
  <1>6. ASSUME NEW here \in Setup \ {"open"}, NEW units, NEW next \in Setup \cup {"read"},
               NEW k \in Nat, Len(units) = k, WriteMetadata(here, units, next),
               next # "read" => next \in {"streaminfo", "blocks", "padding"},
               next # "read" /\ pc' = next => HeaderBytes' = HeaderBytes + k,
               next = "read" => HeaderBytes + k = 7
        PROVE  Counts'
    <2>1. pc = here /\ state = "OK"
      BY <1>6 DEF WriteMetadata, LosslessInv, Setup, Running
    <2>2. CASE pc' = next /\ UNCHANGED frames /\ Len(frames) = 0
               /\ written' = [bytes |-> HeaderBytes + k, samples |-> 0, frames |-> 1]
      <3>1. CASE next # "read"
        <4>1. HeaderBytes' = HeaderBytes + k /\ pc' \in {"streaminfo", "blocks", "padding"}
          BY <1>6, <2>2, <3>1
        <4> QED
          BY <2>2, <4>1 DEF Counts, Setup
      <3>2. CASE next = "read"
        <4>1. DOMAIN BytesOf(frames) = {} /\ DOMAIN SamplesOf(frames) = {}
          <5>1. 1..0 = {}
            OBVIOUS
          <5> QED
            BY <2>2, <5>1 DEF BytesOf, SamplesOf
        <4>2. Total(BytesOf(frames)) = 0 /\ Total(SamplesOf(frames)) = 0
          BY <4>1, TotalOfNone
        <4>3. written' = Counted(frames', 1)
          BY <1>6, <2>2, <3>2, <4>2 DEF Counted
        <4> QED
          BY <2>2, <3>2, <4>3 DEF Counts, Setup
      <3> QED
        BY <3>1, <3>2
    <2> QED
      BY <1>3, <1>4, <1>6, <2>1, <2>2, CountsOfMetadata
  <1>7. CASE WriteMagic
    <2> DEFINE units == Magic
    <2>1. WriteMetadata("magic", units, "streaminfo")
      BY <1>7 DEF WriteMagic
    <2>2. Len(units) = 1
      BY DEF Magic
    <2> HIDE DEF units
    <2>3. HeaderBytes = 0 /\ (pc' = "streaminfo" => HeaderBytes' = 1)
      BY <2>1 DEF WriteMetadata, HeaderBytes
    <2>4. "magic" \in Setup \ {"open"} /\ "streaminfo" \in Setup \cup {"read"} /\ 1 \in Nat
      BY DEF Setup
    <2>5. /\ "streaminfo" # "read" /\ "streaminfo" \in {"streaminfo", "blocks", "padding"}
          /\ pc' = "streaminfo" => HeaderBytes' = HeaderBytes + 1
      BY <2>3
    <2> QED
      BY <1>6, <2>1, <2>2, <2>4, <2>5
  <1>8. CASE WriteStreamInfo
    <2> DEFINE units == StreamInfo(<<0, 0>>, Len(song), NoMd5)
    <2>1. WriteMetadata("streaminfo", units, "blocks")
      BY <1>8 DEF WriteStreamInfo
    <2>2. Len(units) = 4
      BY DEF StreamInfo
    <2> HIDE DEF units
    <2>3. HeaderBytes = 1 /\ (pc' = "blocks" => HeaderBytes' = 5)
      BY <2>1 DEF WriteMetadata, HeaderBytes
    <2>4. "streaminfo" \in Setup \ {"open"} /\ "blocks" \in Setup \cup {"read"} /\ 4 \in Nat
      BY DEF Setup
    <2>5. /\ "blocks" # "read" /\ "blocks" \in {"streaminfo", "blocks", "padding"}
          /\ pc' = "blocks" => HeaderBytes' = HeaderBytes + 4
      BY <2>3
    <2> QED
      BY <1>6, <2>1, <2>2, <2>4, <2>5
  <1>9. CASE WriteMetadata("blocks", <<UserBlocks[1]>>, "padding")
    <2> DEFINE units == <<UserBlocks[1]>>
    <2>1. WriteMetadata("blocks", units, "padding")
      BY <1>9
    <2>2. Len(units) = 1
      OBVIOUS
    <2> HIDE DEF units
    <2>3. HeaderBytes = 5 /\ (pc' = "padding" => HeaderBytes' = 6)
      BY <2>1 DEF WriteMetadata, HeaderBytes
    <2>4. "blocks" \in Setup \ {"open"} /\ "padding" \in Setup \cup {"read"} /\ 1 \in Nat
      BY DEF Setup
    <2>5. /\ "padding" # "read" /\ "padding" \in {"streaminfo", "blocks", "padding"}
          /\ pc' = "padding" => HeaderBytes' = HeaderBytes + 1
      BY <2>3
    <2> QED
      BY <1>6, <2>1, <2>2, <2>4, <2>5
  <1>10. CASE WriteMetadata("padding", <<UserBlocks[2]>>, "read")
    <2> DEFINE units == <<UserBlocks[2]>>
    <2>1. WriteMetadata("padding", units, "read")
      BY <1>10
    <2>2. Len(units) = 1
      OBVIOUS
    <2> HIDE DEF units
    <2>3. HeaderBytes = 6
      BY <2>1 DEF WriteMetadata, HeaderBytes
    <2>4. "padding" \in Setup \ {"open"} /\ "read" \in Setup \cup {"read"} /\ 1 \in Nat
      BY DEF Setup
    <2>5. "read" = "read" /\ ~("read" # "read") /\ HeaderBytes + 1 = 7
      BY <2>3
    <2> QED
      BY <1>6, <2>1, <2>2, <2>4, <2>5
  <1>11. CASE ReadBlock \/ AllRead
    <2>1. /\ pc = "read" /\ pc' \in {"process", "finish"}
          /\ UNCHANGED <<state, written, progress, frames>>
      BY <1>11 DEF ReadBlock, AllRead
    <2> QED
      BY <1>3, <2>1, CountsKept DEF Setup
  <1>12. CASE Turn
    <2>1. /\ state = "OK" /\ Stereo(LeftRight) /\ Len(LeftRight[1]) = Buffered + TurnSize
          /\ Buffered \in Nat /\ TurnSize \in Nat
          /\ Joint(LeftRight, MidAndSide) /\ Pairs(LeftRight) = fifo \o Taken
      BY <1>12, TurnTakes
    <2>2. /\ \/ UNCHANGED <<written, progress, frames>>
             \/ /\ Buffered + TurnSize > Blocksize
                /\ ProcessFrame(LeftRight, MidAndSide, fifo \o Taken, Blocksize)
          /\ pc = "process" /\ pc' \in {"finish", "read", "process"}
      BY <1>12, TurnDoes
    <2>3. CASE UNCHANGED <<written, progress, frames>>
      BY <1>3, <2>1, <2>2, <2>3, CountsKept DEF Setup
    <2>4. CASE /\ Buffered + TurnSize > Blocksize
               /\ ProcessFrame(LeftRight, MidAndSide, fifo \o Taken, Blocksize)
      <3>1. Blocksize \in Nat /\ Blocksize > 0 /\ Blocksize <= Len(LeftRight[1])
        BY <2>1, <2>4, EncoderAssumption
      <3>2. ProcessFrame(LeftRight, MidAndSide, Pairs(LeftRight), Blocksize)
        BY <2>1, <2>4
      <3>3. pc \notin Setup /\ pc' \notin Setup
        BY <2>2 DEF Setup
      <3> QED
        BY <1>3, <1>4, <2>1, <3>1, <3>2, <3>3, CountsOfFrame
    <2> QED
      BY <2>2, <2>3, <2>4
  <1>13. CASE Finish
    <2>1. pc \notin Setup /\ pc' \notin Setup
      BY <1>13 DEF Finish, Setup
    <2>2. CASE UNCHANGED <<state, written, progress, frames>>
      BY <1>3, <2>1, <2>2, CountsKept
    <2>3. CASE state = "OK" /\ Buffered > 0 /\ ProcessFrame(signal, mid_side, fifo, Buffered)
      <3>1. Carried
        BY <2>3 DEF LosslessInv, Live
      <3>2. /\ Stereo(signal) /\ Joint(signal, mid_side) /\ Buffered \in Nat
            /\ Buffered <= Len(signal[1]) /\ fifo = Pairs(signal)
        BY <3>1 DEF Carried, Stereo, Buffered
      <3>3. ProcessFrame(signal, mid_side, Pairs(signal), Buffered)
        BY <2>3, <3>2
      <3> QED
        BY <1>3, <1>4, <2>1, <2>3, <3>2, <3>3, CountsOfFrame
    <2> QED
      BY <1>13, <2>2, <2>3 DEF Finish
  <1>14. CASE Seek \/ Overwrite
    <2>1. /\ pc \notin Setup /\ pc' \notin Setup /\ UNCHANGED <<written, progress, frames>>
          /\ (state' = "OK" => state = "OK")
      BY <1>14 DEF Seek, Overwrite, Called, Setup
    <2> QED
      BY <1>3, <2>1, CountsKept
  <1>15. CASE Updated \/ Close
    <2>1. /\ pc \notin Setup /\ pc' \notin Setup /\ UNCHANGED <<written, progress, frames>>
          /\ (state' = "OK" => state = "OK")
      BY <1>15 DEF Updated, Close, Setup
    <2> QED
      BY <1>3, <2>1, CountsKept
  <1>16. CASE UNCHANGED vars
    <2>1. UNCHANGED <<pc, state, written, progress, frames>>
      BY <1>16 DEF vars
    <2> QED
      BY <1>3, <2>1, CountsKept
  <1> QED
    BY <1>5, <1>7, <1>8, <1>9, <1>10, <1>11, <1>12, <1>13, <1>14, <1>15, <1>16
       DEF Next, Go, Returned, WriteUserBlocks

\* At first they are 0.
LEMMA ProgressInit == Init => ProgressInv
  <1> SUFFICES ASSUME Init PROVE Counts
    BY DEF ProgressInv
  <1>1. pc = "open" /\ written = [bytes |-> 0, samples |-> 0, frames |-> 0] /\ Len(frames) = 0
    BY DEF Init
  <1>2. HeaderBytes = 0
    BY <1>1 DEF HeaderBytes
  <1> QED
    BY <1>1, <1>2 DEF Counts, Setup

\* The progress callback is told the bytes and samples of all the frames that are in the
\* file, the one it is called for among them, and of the metadata, and from the second
\* call on the number of these frames.
THEOREM ProgressIsAlwaysTrue == Spec => []ProgressIsTrue
  <1>1. Books /\ ProgressInv => ProgressIsTrue
    <2> SUFFICES ASSUME Books, ProgressInv, writemode = "card", Len(frames) > 0, ~broken
                 PROVE  /\ progress.bytes = Len(Header(<<0, 0>>, 0, NoMd5)) + Total(BytesOf(frames))
                        /\ progress.samples = Total(SamplesOf(frames))
                        /\ (Len(frames) > 1 => progress.frames = Len(frames))
      BY Zenon DEF ProgressIsTrue, Header, Total, BytesOf, SamplesOf
    <2>1. progress = Counted(frames, IF Len(frames) = 1 THEN 2 ELSE Len(frames))
      BY DEF ProgressInv, Counts
    <2>2. Len(Header(<<0, 0>>, 0, NoMd5)) = 7
      BY HeaderIs
    <2>3. Len(frames) > 1 => Len(frames) # 1
      <3> DEFINE n == Len(frames)
      <3>1. n \in Int
        <4>1. PICK S : frames \in Seq(S)
          BY DEF Books
        <4> QED
          BY <4>1
      <3> HIDE DEF n
      <3>2. n > 1 => n # 1
        BY <3>1
      <3> QED
        BY <3>2 DEF n
    <2> QED
      BY <2>1, <2>2, <2>3 DEF Counted
  <1>2. Init => ErrorInv
    BY DEF Init, ErrorInv
  <1> QED
    BY <1>1, <1>2, ErrorStep, TypeInit, TypeStep, BooksInit, BooksStep,
       ProgressInit, ProgressStep, InductiveLossless, PTL DEF Spec
===============================================================================
