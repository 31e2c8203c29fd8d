--------------------------- MODULE BitReaderProofs ----------------------------
(***************************************************************************)
(* The reader with its client and its decoder, for every size of words and *)
(* buffer, every stream and every length of read: the buffer holds the end *)
(* of what the client delivered, there is always room for more, no read    *)
(* passes the end of a metadata block, and whoever reads sees the bits of  *)
(* the stream in order: the reader implements BitStream.  Then, for every  *)
(* parameter and every block, the Rice coded values that are read from     *)
(* registers: they are the ones of the stream, and the reader is left      *)
(* right behind them.                                                      *)
(***************************************************************************)
EXTENDS BitReaderUse, RiceBlock, BitReaderLemmas, WellFoundedInduction,
        SequenceTheorems

Bit == 0..2                             \* 2 for one that was never written
Byte == [1..BitsPerByte -> Bit]

RawParts == [do : {"raw", "bits"}, n : 1..BitsPerWord]
BlockParts == [do : {"block", "inBlock"}, n : Nat]
UnaryParts == [do : {"unary"}, n : {0}]
Parts == RawParts \cup BlockParts \cup UnaryParts

Calls == [want : Int, todo : Seq(Parts), got : Seq(Bit \cup Byte),
          end : {"ok", "limit", "client"}, from : Int]

\* What holds of any use of a reader on a stream
SourceTypes == stream \in Streams /\ fed \in 0..Len(stream) /\ br \in Readers(Byte)

TypeInv ==
    /\ stream \in Streams /\ fed \in 0..Len(stream)
    /\ br \in Readers(Byte) /\ call \in Calls
    /\ lastSync \in 0..Len(stream)
    /\ frame \in {"search", "header", "body", "footer"}
    /\ limitEnd \in Int

BufferInv ==
    /\ Sane(br) /\ Available(br) <= fed
    /\ \A a \in 0..(Available(br) - 1) :
          br.buffer[a] = stream[fed - Available(br) + a + 1]

\* Behind the sync of a frame there is more of the frame in the buffer: that is what
\* makes the rewind behind it one within the buffer.
SyncInv ==
    FramesyncInBuffer(br) =>
        /\ br.last_seen_framesync <= Available(br)
        /\ frame # "search" =>
              fed - Available(br) + br.last_seen_framesync = lastSync
        /\ frame = "header" => br.last_seen_framesync * BitsPerByte <= Consumed(br)
        /\ frame \in {"body", "footer"} => br.last_seen_framesync < Available(br)

InBlockPart(i) == call.todo[i].do = "inBlock"

\* Only the part in hand can have been charged; a frame has no byte blocks.
CallInv ==
    \A i \in 1..Len(call.todo) :
        /\ call.todo[i].do = "bits" => i = 1
        /\ frame # "search" => call.todo[i] \notin BlockParts

Pending ==
    IF call.todo # <<>> /\ Head(call.todo).do = "bits" THEN Head(call.todo).n ELSE 0

\* The limit is no more than what is left to its end once the bits that were charged are
\* read (less when the client failed before they were), and the bytes of a block that is
\* being read are within it.
Within ==
    /\ br.read_limit \in 0..(None - 1)
    /\ Position + Pending + br.read_limit <= limitEnd
    /\ \A i \in 1..Len(call.todo) :
          /\ call.todo[i].do # "unary"
          /\ InBlockPart(i) =>
                \/ i = 1 /\ call.todo[1].n * BitsPerByte <= br.read_limit
                \/ /\ i = 2 /\ call.todo[1].do = "raw"
                   /\ call.todo[1].n + call.todo[2].n * BitsPerByte <= br.read_limit
                \/ /\ i = 2 /\ call.todo[1].do = "bits"
                   /\ call.todo[2].n * BitsPerByte <= br.read_limit

LimitInv ==
    /\ frame # "search" => ~br.read_limit_set
    /\ ~br.read_limit_set => limitEnd = Unlimited
    /\ limitEnd # Unlimited => Within

Inv == TypeInv /\ BufferInv /\ SyncInv /\ CallInv /\ LimitInv

-------------------------------------------------------------------------------
(* What is there to work with *)

LEMMA SourceIsBytes ==
    ASSUME SourceTypes
    PROVE  /\ stream \in Seq([1..BitsPerByte -> {0, 1}]) /\ stream \in Seq(Byte)
           /\ Len(stream) \in Nat /\ fed \in Nat
  <1>1. stream \in Seq([1..BitsPerByte -> {0, 1}])
    BY StreamAssumption DEF SourceTypes
  <1>2. [1..BitsPerByte -> {0, 1}] \subseteq Byte
    BY DEF Byte, Bit
  <1>3. Len(stream) \in Nat
    BY <1>1
  <1>4. stream \in Seq(Byte)
    BY <1>1, <1>2
  <1> QED
    BY <1>1, <1>3, <1>4 DEF SourceTypes

LEMMA StreamIsBytes ==
    ASSUME TypeInv
    PROVE  /\ stream \in Seq([1..BitsPerByte -> {0, 1}]) /\ stream \in Seq(Byte)
           /\ Len(stream) \in Nat /\ fed \in Nat
  BY SourceIsBytes DEF TypeInv, SourceTypes

LEMMA SourcePosition ==
    ASSUME SourceTypes
    PROVE  /\ Available(br) \in Nat /\ Consumed(br) \in Nat /\ Unconsumed(br) \in Int
           /\ Available(br) * BitsPerByte \in Nat /\ fed * BitsPerByte \in Nat
           /\ Unconsumed(br) = Available(br) * BitsPerByte - Consumed(br)
           /\ Position = fed * BitsPerByte - Available(br) * BitsPerByte + Consumed(br)
           /\ Position \in Int
  <1>1. /\ Available(br) \in Nat /\ Consumed(br) \in Nat /\ Unconsumed(br) \in Int
        /\ Unconsumed(br) = Available(br) * BitsPerByte - Consumed(br)
    BY Places DEF SourceTypes
  <1>2. fed \in Nat
    BY SourceIsBytes
  <1>3. Available(br) * BitsPerByte \in Nat /\ fed * BitsPerByte \in Nat
    BY <1>1, <1>2, ReaderAssumption
  <1> QED
    BY <1>1, <1>3 DEF Position

LEMMA PositionIsBits ==
    ASSUME TypeInv
    PROVE  /\ Available(br) \in Nat /\ Consumed(br) \in Nat /\ Unconsumed(br) \in Int
           /\ Available(br) * BitsPerByte \in Nat /\ fed * BitsPerByte \in Nat
           /\ Unconsumed(br) = Available(br) * BitsPerByte - Consumed(br)
           /\ Position = fed * BitsPerByte - Available(br) * BitsPerByte + Consumed(br)
           /\ Position \in Int
  BY SourcePosition DEF TypeInv, SourceTypes

\* Between two bytes of the stream
LEMMA SourceInStream ==
    ASSUME SourceTypes, BufferInv
    PROVE  /\ Unconsumed(br) >= 0 /\ Position >= 0
           /\ Position <= fed * BitsPerByte
           /\ (fed - Available(br)) * BitsPerByte
                  = fed * BitsPerByte - Available(br) * BitsPerByte
  <1>1. fed \in Nat /\ Available(br) \in Nat /\ Available(br) <= fed
    BY SourceIsBytes, SourcePosition DEF BufferInv
  <1>2. Available(br) * BitsPerByte <= fed * BitsPerByte
    BY <1>1, ReaderAssumption
  <1>3. (fed - Available(br)) * BitsPerByte
            = fed * BitsPerByte - Available(br) * BitsPerByte
    BY <1>1, ReaderAssumption
  <1>4. Consumed(br) <= Available(br) * BitsPerByte
    BY DEF BufferInv, Sane
  <1> QED
    BY <1>2, <1>3, <1>4, SourcePosition

LEMMA PositionIsInStream ==
    ASSUME TypeInv, BufferInv
    PROVE  /\ Unconsumed(br) >= 0 /\ Position >= 0
           /\ Position <= fed * BitsPerByte
           /\ (fed - Available(br)) * BitsPerByte
                  = fed * BitsPerByte - Available(br) * BitsPerByte
  BY SourceInStream DEF TypeInv, SourceTypes

\* The reader moves on by n bits of what is there.
Moves(n) ==
    /\ br' \in Readers(Byte) /\ Sane(br')
    /\ br'.buffer = br.buffer /\ br'.words = br.words /\ br'.bytes = br.bytes
    /\ Available(br') = Available(br) /\ Consumed(br') = Consumed(br) + n
    /\ br'.last_seen_framesync = br.last_seen_framesync
    /\ br'.read_limit_set = br.read_limit_set

LEMMA MovingKeepsBuffer ==
    ASSUME TypeInv, BufferInv, SyncInv, NEW n \in Nat, Moves(n),
           UNCHANGED <<stream, fed, lastSync>>,
           frame' = frame \/ (frame = "header" /\ frame' = "body" /\ n > 0)
    PROVE  BufferInv' /\ SyncInv' /\ Position' = Position + n
  <1>1. BufferInv'
    BY DEF Moves, BufferInv
  <1>2. Position' = Position + n
    <2>1. Unconsumed(br)' = Available(br) * BitsPerByte - (Consumed(br) + n)
      BY Places DEF Moves
    <2>2. Position' = fed * BitsPerByte - (Available(br) * BitsPerByte - (Consumed(br) + n))
      BY <2>1 DEF Position
    <2> QED
      BY <2>2, PositionIsBits
  <1>3. SyncInv'
    <2>1. FramesyncInBuffer(br)' = FramesyncInBuffer(br)
      BY DEF FramesyncInBuffer, Moves
    <2>2. br.last_seen_framesync \in Nat
      BY DEF TypeInv, Readers
    <2>3. br.last_seen_framesync * BitsPerByte \in Nat
      BY <2>2, ReaderAssumption
    <2>4. CASE frame' = frame
      <3>1. Consumed(br)' >= Consumed(br)
        BY PositionIsBits DEF Moves
      <3>2. \A m \in Nat : m <= Consumed(br) => m <= Consumed(br)'
        BY <3>1, PositionIsBits DEF Moves
      <3>3. ASSUME FramesyncInBuffer(br), frame = "header"
            PROVE  br.last_seen_framesync * BitsPerByte <= Consumed(br)'
        BY <2>3, <3>2, <3>3 DEF SyncInv
      <3> QED
        BY <2>1, <2>4, <3>3 DEF SyncInv, Moves
    <2>5. CASE frame = "header" /\ frame' = "body" /\ n > 0
      <3>1. ASSUME FramesyncInBuffer(br)
            PROVE  br.last_seen_framesync < Available(br)
        <4>1. br.last_seen_framesync * BitsPerByte <= Consumed(br)
          BY <2>5, <3>1 DEF SyncInv
        <4>2. Consumed(br) + n <= Available(br) * BitsPerByte
          BY DEF Moves, Sane
        <4>3. br.last_seen_framesync * BitsPerByte < Available(br) * BitsPerByte
          BY <2>3, <2>5, <4>1, <4>2, PositionIsBits
        <4>4. \A j, k \in Nat : j * BitsPerByte < k * BitsPerByte => j < k
          BY ReaderAssumption
        <4> QED
          BY <2>2, <4>3, <4>4, PositionIsBits
      <3> QED
        BY <2>1, <2>5, <3>1 DEF SyncInv, Moves
    <2> QED
      BY <2>4, <2>5
  <1> QED
    BY <1>1, <1>2, <1>3

LEMMA SamePlaceMovesNowhere ==
    ASSUME TypeInv, BufferInv, br' \in Readers(Byte), SamePlace(br', br),
           br'.last_seen_framesync = br.last_seen_framesync,
           br'.read_limit_set = br.read_limit_set
    PROVE  Moves(0)
  <1>1. /\ Available(br') = Available(br) /\ Consumed(br') = Consumed(br) /\ Sane(br')
    BY SamePlaceSameMeasures DEF BufferInv
  <1>2. Consumed(br) + 0 = Consumed(br)
    BY PositionIsBits
  <1> QED
    BY <1>1, <1>2 DEF Moves, SamePlace

-------------------------------------------------------------------------------
(* The list of parts *)

LEMMA PartInHand ==
    ASSUME TypeInv, call.todo # <<>>
    PROVE  /\ call.todo \in Seq(Parts) /\ Len(call.todo) \in Nat /\ Len(call.todo) > 0
           /\ Part = call.todo[1] /\ Part \in Parts
           /\ Tail(call.todo) \in Seq(Parts)
           /\ Len(Tail(call.todo)) = Len(call.todo) - 1
           /\ \A i \in 1..(Len(call.todo) - 1) : Tail(call.todo)[i] = call.todo[i + 1]
  <1>1. call.todo \in Seq(Parts)
    BY DEF TypeInv, Calls
  <1> QED
    BY <1>1 DEF Part

LEMMA KindsOfParts ==
    ASSUME NEW p \in Parts
    PROVE  /\ p.do = "raw" \/ p.do = "bits" => p \in RawParts /\ p.n \in 1..BitsPerWord
           /\ p.do = "block" \/ p.do = "inBlock" => p \in BlockParts /\ p.n \in Nat
           /\ p.do = "unary" => p.n = 0
           /\ p \in BlockParts => p.do = "block" \/ p.do = "inBlock"
           /\ p.do \in {"raw", "bits", "block", "inBlock", "unary"}
  BY DEF Parts, RawParts, BlockParts, UnaryParts

LEMMA NewParts ==
    ASSUME NEW n \in 1..BitsPerWord, NEW m \in Nat
    PROVE  /\ Raw(n) \in Parts /\ Raw(n).do = "raw" /\ Raw(n).n = n
           /\ Bits(n) \in Parts /\ Bits(n).do = "bits" /\ Bits(n).n = n
           /\ Block(m) \in Parts /\ Block(m).do = "block" /\ Block(m).n = m
           /\ InBlock(m) \in Parts /\ InBlock(m).do = "inBlock" /\ InBlock(m).n = m
           /\ UnaryPart \in Parts /\ UnaryPart.do = "unary"
           /\ Raw(n) \notin BlockParts /\ Bits(n) \notin BlockParts
           /\ UnaryPart \notin BlockParts
  BY DEF Raw, Bits, Block, InBlock, UnaryPart, Parts, RawParts, BlockParts, UnaryParts

\* The part in hand is replaced by others.
Replaced(parts) ==
    /\ call' \in Calls
    /\ call'.todo = parts \o Tail(call.todo)
    /\ Len(call'.todo) = Len(parts) + Len(call.todo) - 1
    /\ \A i \in 1..Len(parts) : call'.todo[i] = parts[i]
    /\ \A i \in (Len(parts) + 1)..Len(call'.todo) :
          call'.todo[i] = call.todo[i - Len(parts) + 1]

LEMMA Replacing ==
    ASSUME TypeInv, call.todo # <<>>, NEW parts \in Seq(Parts),
           NEW bits \in Seq(Bit \cup Byte),
           call' = Then(parts) \/ call' = Got(bits, parts)
    PROVE  Replaced(parts)
  <1> DEFINE todo == parts \o Tail(call.todo)
  <1>1. todo \in Seq(Parts)
    BY PartInHand
  <1>2. /\ Len(todo) = Len(parts) + Len(call.todo) - 1
        /\ \A i \in 1..Len(parts) : todo[i] = parts[i]
        /\ \A i \in (Len(parts) + 1)..Len(todo) : todo[i] = call.todo[i - Len(parts) + 1]
    <2>1. /\ Tail(call.todo) \in Seq(Parts) /\ Len(call.todo) \in Nat /\ Len(call.todo) > 0
          /\ Len(Tail(call.todo)) = Len(call.todo) - 1
          /\ \A i \in 1..(Len(call.todo) - 1) : Tail(call.todo)[i] = call.todo[i + 1]
      BY PartInHand
    <2>2. Len(parts) \in Nat
      OBVIOUS
    <2>3. Len(todo) = Len(parts) + (Len(call.todo) - 1)
      BY <2>1
    <2>4. \A i \in 1..Len(parts) : todo[i] = parts[i]
      BY <2>1
    <2>5. ASSUME NEW i \in (Len(parts) + 1)..Len(todo)
          PROVE  todo[i] = call.todo[i - Len(parts) + 1]
      <3>1. i - Len(parts) \in 1..(Len(call.todo) - 1)
        BY <2>1, <2>2, <2>3
      <3>2. todo[i] = Tail(call.todo)[i - Len(parts)]
        BY <2>1, <2>2, <2>3
      <3> QED
        BY <2>1, <3>1, <3>2
    <2> QED
      BY <2>1, <2>2, <2>3, <2>4, <2>5
  <1>3. call \in Calls
    BY DEF TypeInv
  <1> HIDE DEF todo
  <1>4. Then(parts) \in Calls /\ Then(parts).todo = todo /\ Then(parts).got = call.got
    <2>1. Then(parts) = [call EXCEPT !.todo = todo]
      BY DEF Then, todo
    <2> QED
      BY <1>1, <1>3, <2>1 DEF Calls
  <1>5. Got(bits, parts) \in Calls /\ Got(bits, parts).todo = todo
    <2> DEFINE t == Then(parts)
               got == call.got \o bits
    <2>1. got \in Seq(Bit \cup Byte)
      BY <1>3 DEF Calls
    <2>2. Got(bits, parts) = [t EXCEPT !.got = got]
      BY <1>4 DEF Got
    <2>3. t \in Calls /\ t.todo = todo
      BY <1>4
    <2> HIDE DEF t, got
    <2> QED
      BY <2>1, <2>2, <2>3 DEF Calls
  <1>6. call' \in Calls /\ call'.todo = todo
    BY <1>4, <1>5
  <1> QED
    BY <1>2, <1>6 DEF Replaced, todo

LEMMA Failing ==
    ASSUME TypeInv, NEW why \in {"limit", "client"}
    PROVE  /\ Failed(why) \in Calls /\ Failed(why).todo = <<>> /\ Failed(why).end = why
  <1> DEFINE f == [call EXCEPT !.todo = <<>>, !.got = <<>>, !.end = why]
  <1>1. /\ call \in Calls /\ <<>> \in Seq(Parts) /\ <<>> \in Seq(Bit \cup Byte)
        /\ why \in {"ok", "limit", "client"}
    BY DEF TypeInv
  <1>2. Failed(why) = f
    BY DEF Failed
  <1>3. f \in Calls
    BY <1>1 DEF Calls
  <1>4. f.todo = <<>> /\ f.end = why
    BY <1>1 DEF Calls
  <1> QED
    BY <1>2, <1>3, <1>4

-------------------------------------------------------------------------------
(* The bits that come next *)

\* The bit of the stream at which the buffer begins
Base == (fed - Available(br)) * BitsPerByte

LEMMA SourceBase ==
    ASSUME SourceTypes, BufferInv
    PROVE  /\ Base \in Nat /\ Available(br) * BitsPerByte \in Nat
           /\ Base + Available(br) * BitsPerByte = fed * BitsPerByte
           /\ Position = Base + Consumed(br) /\ Consumed(br) \in Nat
           /\ Consumed(br) + Unconsumed(br) = Available(br) * BitsPerByte
  <1>1. /\ fed \in Nat /\ Available(br) \in Nat /\ Available(br) <= fed
        /\ Available(br) * BitsPerByte \in Nat /\ fed * BitsPerByte \in Nat
        /\ Consumed(br) \in Nat
    BY SourceIsBytes, SourcePosition DEF BufferInv
  <1>2. Base = fed * BitsPerByte - Available(br) * BitsPerByte
    BY SourceInStream DEF Base
  <1>3. \A n \in Nat : n * BitsPerByte \in Nat
    BY ReaderAssumption
  <1>4. Base \in Nat
    BY <1>1, <1>3 DEF Base
  <1> QED
    BY <1>1, <1>2, <1>4, SourcePosition

\* The buffer holds the stream bit by bit.
LEMMA SourceBitAt ==
    ASSUME SourceTypes, BufferInv, NEW p \in Nat, p < Available(br) * BitsPerByte
    PROVE  BitAt(br, p) = StreamBit(Base + p) /\ BitAt(br, p) \in {0, 1}
  <1> DEFINE gone == fed - Available(br)
             byte == p \div BitsPerByte
             bit == p % BitsPerByte
  <1>1. /\ fed \in Nat /\ Available(br) \in Nat /\ gone \in Nat
        /\ gone + Available(br) = fed
        /\ stream \in Seq([1..BitsPerByte -> {0, 1}]) /\ fed <= Len(stream)
        /\ Len(stream) \in Nat
    BY SourceIsBytes, SourcePosition DEF BufferInv, SourceTypes
  <1>2. byte \in Nat /\ bit \in 0..(BitsPerByte - 1) /\ p = BitsPerByte * byte + bit
    BY Division, ReaderAssumption
  <1>3. byte < Available(br)
    BY <1>1, DivisionIsMonotonic, ReaderAssumption
  <1> HIDE DEF byte, bit
  <1>4. br.buffer[byte] = stream[gone + byte + 1]
    <2>1. byte \in 0..(Available(br) - 1)
      BY <1>1, <1>2, <1>3
    <2> QED
      BY <2>1 DEF BufferInv
  <1>5. gone + byte + 1 \in 1..Len(stream)
    BY <1>1, <1>2, <1>3
  <1> DEFINE whole == gone + byte
  <1>6. Base + p = BitsPerByte * whole + bit
    <2>1. BitsPerByte * whole = gone * BitsPerByte + BitsPerByte * byte
      BY <1>1, <1>2, ReaderAssumption
    <2>2. gone * BitsPerByte \in Int /\ BitsPerByte * byte \in Int /\ bit \in Int
      BY <1>1, <1>2, ReaderAssumption
    <2>3. Base = gone * BitsPerByte
      BY DEF Base
    <2> HIDE DEF gone, whole
    <2> QED
      BY <1>2, <2>1, <2>2, <2>3
  <1>7. (Base + p) \div BitsPerByte = whole /\ (Base + p) % BitsPerByte = bit
    <2>1. whole \in Nat
      BY <1>1, <1>2
    <2> HIDE DEF whole
    <2>2. /\ (BitsPerByte * whole + bit) \div BitsPerByte = whole
          /\ (BitsPerByte * whole + bit) % BitsPerByte = bit
      BY <1>2, <2>1, DivisionIsUnique, ReaderAssumption
    <2> QED
      BY <1>6, <2>2
  <1>8. stream[gone + byte + 1] \in [1..BitsPerByte -> {0, 1}]
    BY <1>1, <1>5
  <1>9. BitAt(br, p) = br.buffer[byte][bit + 1]
    BY DEF BitAt, byte, bit
  <1>10. bit + 1 \in 1..BitsPerByte
    BY <1>2, ReaderAssumption
  <1>11. StreamBit(Base + p) = stream[gone + byte + 1][bit + 1]
    BY <1>7 DEF StreamBit
  <1> QED
    BY <1>4, <1>8, <1>9, <1>10, <1>11

LEMMA SourceBits ==
    ASSUME SourceTypes, BufferInv, NEW n \in Nat, n <= Unconsumed(br)
    PROVE  /\ NextBits(br, n) \in Seq({0, 1}) /\ Len(NextBits(br, n)) = n
           /\ \A k \in 1..n : NextBits(br, n)[k] = StreamBit(Position + k - 1)
           /\ \A k \in 1..n : Position + k - 1 \in Nat
  <1>1. /\ Base \in Nat /\ Available(br) * BitsPerByte \in Nat
        /\ Position = Base + Consumed(br) /\ Consumed(br) \in Nat
        /\ Consumed(br) + n <= Available(br) * BitsPerByte
    <2>1. Unconsumed(br) \in Int
      BY SourcePosition
    <2> QED
      BY <2>1, SourceBase
  <1>2. ASSUME NEW k \in 1..n
        PROVE  /\ BitAt(br, Consumed(br) + k - 1) \in {0, 1}
               /\ BitAt(br, Consumed(br) + k - 1) = StreamBit(Position + k - 1)
               /\ Position + k - 1 \in Nat
    <2> DEFINE p == Consumed(br) + k - 1
    <2>1. p \in Nat /\ p < Available(br) * BitsPerByte
      BY <1>1
    <2>2. Base + p = Position + k - 1
      BY <1>1
    <2> HIDE DEF p
    <2>3. BitAt(br, p) = StreamBit(Base + p) /\ BitAt(br, p) \in {0, 1}
      BY <2>1, SourceBitAt
    <2>4. Base + p \in Nat
      BY <1>1, <2>1
    <2> QED
      BY <2>2, <2>3, <2>4 DEF p
  <1>3. NextBits(br, n) = [k \in 1..n |-> BitAt(br, Consumed(br) + k - 1)]
    BY DEF NextBits
  <1>4. NextBits(br, n) \in [1..n -> {0, 1}]
    BY <1>2, <1>3
  <1> QED
    BY <1>2, <1>3, <1>4

LEMMA NextBitsAreOfTheStream ==
    ASSUME TypeInv, BufferInv, NEW n \in Nat, n <= Unconsumed(br)
    PROVE  /\ NextBits(br, n) \in Seq({0, 1}) /\ Len(NextBits(br, n)) = n
           /\ \A k \in 1..n : NextBits(br, n)[k] = StreamBit(Position + k - 1)
           /\ \A k \in 1..n : Position + k - 1 \in Nat
  BY SourceBits DEF TypeInv, SourceTypes

LEMMA SourceConsuming ==
    ASSUME SourceTypes, BufferInv, NEW n \in Nat, n <= Unconsumed(br), br' = Consume(br, n)
    PROVE  Moves(n) /\ br'.read_limit = br.read_limit
  BY Consuming DEF SourceTypes, BufferInv, Moves, SameLimit

LEMMA ConsumingMoves ==
    ASSUME TypeInv, BufferInv, NEW n \in Nat, n <= Unconsumed(br), br' = Consume(br, n)
    PROVE  Moves(n) /\ br'.read_limit = br.read_limit
  BY SourceConsuming DEF TypeInv, SourceTypes

-------------------------------------------------------------------------------
(* The parts of a read preserve the invariant *)

AfterRead ==
    /\ frame' = IF frame = "header" /\ call'.todo = <<>> /\ call'.end = "ok"
                THEN "body" ELSE frame
    /\ limitEnd' = IF br'.read_limit = None THEN Unlimited ELSE limitEnd
    /\ UNCHANGED <<stream, lastSync>>

LEMMA LimitKept ==
    ASSUME Inv, AfterRead, br'.read_limit_set = br.read_limit_set,
           limitEnd # Unlimited /\ limitEnd' = limitEnd => Within'
    PROVE  LimitInv'
  BY DEF Inv, TypeInv, LimitInv, AfterRead, Unlimited

LEMMA TypesKept ==
    ASSUME Inv, AfterRead, br' \in Readers(Byte), call' \in Calls, UNCHANGED fed
    PROVE  TypeInv'
  BY DEF Inv, TypeInv, AfterRead, Unlimited

\* The part in hand is limited when there is a limit.
LEMMA LimitIsSet ==
    ASSUME Inv, limitEnd # Unlimited
    PROVE  Limited(br) /\ Within /\ br.read_limit_set
  <1>1. br.read_limit_set /\ Within
    BY DEF Inv, LimitInv
  <1>2. br.read_limit < None
    BY <1>1, ReaderAssumption DEF Within, None
  <1> QED
    BY <1>1, <1>2 DEF Limited

LEMMA OverLimitFails ==
    ASSUME Inv, call.todo # <<>>, AfterRead, UNCHANGED fed,
           br' = InvalidateLimit(br), call' = Failed("limit")
    PROVE  Inv'
  <1>1. /\ br' \in Readers(Byte) /\ SamePlace(br', br)
        /\ br'.last_seen_framesync = br.last_seen_framesync
        /\ br'.read_limit_set = br.read_limit_set /\ br'.read_limit = None
    BY Limiting DEF Inv, TypeInv
  <1>2. call' \in Calls /\ call'.todo = <<>> /\ call'.end = "limit"
    BY Failing DEF Inv
  <1>3. Moves(0)
    BY <1>1, SamePlaceMovesNowhere DEF Inv
  <1>4. frame' = frame
    BY <1>2 DEF AfterRead
  <1>5. BufferInv' /\ SyncInv'
    BY <1>3, <1>4, MovingKeepsBuffer DEF Inv, AfterRead
  <1>6. TypeInv'
    BY <1>1, <1>2, TypesKept
  <1>7. CallInv'
    BY <1>2 DEF CallInv
  <1>8. LimitInv'
    <2>1. limitEnd' = Unlimited
      BY <1>1 DEF AfterRead
    <2> QED
      BY <1>1, <2>1, LimitKept
  <1> QED
    BY <1>5, <1>6, <1>7, <1>8 DEF Inv

LEMMA RawIsCharged ==
    ASSUME Inv, call.todo # <<>>, AfterRead, UNCHANGED fed, DoRaw
    PROVE  Inv'
  <1> DEFINE n == Part.n
             parts == <<Bits(n)>>
  <1>1. /\ Part.do = "raw" /\ Part \in Parts /\ Part = call.todo[1]
        /\ Len(call.todo) \in Nat /\ Len(call.todo) > 0
    BY PartInHand DEF Inv, DoRaw
  <1>2. n \in 1..BitsPerWord /\ n \in Nat
    BY <1>1, KindsOfParts, Sizes
  <1>3. CASE OverLimit(br, n)
    BY <1>3, OverLimitFails DEF DoRaw
  <1>4. CASE ~OverLimit(br, n)
    <2>1. br' = Charge(br, n) /\ call' = Then(parts)
      BY <1>4 DEF DoRaw
    <2>2. /\ br' \in Readers(Byte) /\ SamePlace(br', br)
          /\ br'.last_seen_framesync = br.last_seen_framesync
          /\ br'.read_limit_set = br.read_limit_set
          /\ br'.read_limit = IF Limited(br) THEN br.read_limit - n ELSE br.read_limit
      <3> HIDE DEF n
      <3>1. n \in Int /\ br \in Readers(Byte)
        BY <1>2 DEF Inv, TypeInv
      <3> QED
        BY <2>1, <3>1, Charging
    <2>3. /\ Bits(n) \in Parts /\ Bits(n).do = "bits" /\ Bits(n).n = n
          /\ Bits(n) \notin BlockParts
      BY <1>2, NewParts
    <2> HIDE DEF n
    <2>4. parts \in Seq(Parts) /\ Len(parts) = 1 /\ parts[1] = Bits(n)
      BY <2>3
    <2>5. <<>> \in Seq(Bit \cup Byte)
      OBVIOUS
    <2>6. Replaced(parts)
      BY <2>1, <2>4, <2>5, Replacing DEF Inv
    <2>7. /\ call' \in Calls /\ Len(call'.todo) = Len(call.todo)
          /\ call'.todo[1] = Bits(n)
          /\ \A i \in 2..Len(call.todo) : call'.todo[i] = call.todo[i]
      BY <1>1, <2>4, <2>6 DEF Replaced
    <2> HIDE DEF parts
    <2>8. call'.todo # <<>>
      BY <1>1, <2>7
    <2>9. frame' = frame
      BY <2>8 DEF AfterRead
    <2>10. Moves(0)
      BY <2>2, SamePlaceMovesNowhere DEF Inv
    <2>11. BufferInv' /\ SyncInv' /\ Position' = Position + 0
      BY <2>9, <2>10, MovingKeepsBuffer DEF Inv, AfterRead
    <2>12. Position' = Position /\ Position \in Int
      BY <2>11, PositionIsBits DEF Inv
    <2>13. TypeInv'
      BY <2>2, <2>7, TypesKept
    <2>14. CallInv'
      <3> SUFFICES ASSUME NEW i \in 1..Len(call.todo)
                   PROVE  /\ call'.todo[i].do = "bits" => i = 1
                          /\ frame # "search" => call'.todo[i] \notin BlockParts
        BY <2>7, <2>9 DEF CallInv
      <3>1. CASE i = 1
        BY <2>3, <2>7, <3>1
      <3>2. CASE i # 1
        <4>1. i \in 2..Len(call.todo)
          BY <1>1, <3>2
        <4>2. call'.todo[i] = call.todo[i]
          BY <2>7, <4>1
        <4> QED
          BY <4>2 DEF Inv, CallInv
      <3> QED
        BY <3>1, <3>2
    <2>15. ASSUME limitEnd # Unlimited, limitEnd' = limitEnd PROVE Within'
      <3>1. Limited(br) /\ Within
        BY <2>15, LimitIsSet
      <3>2. br.read_limit >= n /\ br.read_limit \in 0..(None - 1) /\ None \in Int
        BY <1>2, <1>4, <3>1, ReaderAssumption DEF OverLimit, Within, None
      <3>3. br'.read_limit = br.read_limit - n /\ br'.read_limit \in 0..(None - 1)
        BY <1>2, <2>2, <3>1, <3>2
      <3>4. Pending = 0 /\ Pending' = n
        <4>1. Pending = 0
          BY <1>1 DEF Pending, Part
        <4>2. Head(call'.todo) = Bits(n)
          BY <1>1, <2>7, <2>8
        <4> QED
          BY <2>3, <2>8, <4>1, <4>2 DEF Pending
      <3>5. Position' + Pending' + br'.read_limit <= limitEnd'
        <4>1. limitEnd \in Int
          BY DEF Inv, TypeInv
        <4>2. Position + 0 + br.read_limit <= limitEnd
          BY <3>1, <3>4 DEF Within
        <4> QED
          BY <1>2, <2>12, <2>15, <3>2, <3>3, <3>4, <4>1, <4>2
      <3>6. ASSUME NEW i \in 1..Len(call'.todo)
            PROVE  /\ call'.todo[i].do # "unary"
                   /\ InBlockPart(i)' =>
                        /\ i = 2 /\ call'.todo[1].do = "bits"
                        /\ call'.todo[2].n * BitsPerByte <= br'.read_limit
        <4>1. CASE i = 1
          BY <2>3, <2>7, <4>1 DEF InBlockPart
        <4>2. CASE i # 1
          <5>1. i \in 2..Len(call.todo) /\ i \in 1..Len(call.todo)
            BY <1>1, <2>7, <4>2
          <5>2. call'.todo[i] = call.todo[i]
            BY <2>7, <5>1
          <5>3. call.todo[i].do # "unary"
            BY <3>1, <5>1 DEF Within
          <5>4. ASSUME InBlockPart(i)
                PROVE  /\ i = 2
                       /\ call.todo[2].n * BitsPerByte <= br'.read_limit
            <6>1. /\ i = 2
                  /\ n + call.todo[2].n * BitsPerByte <= br.read_limit
              BY <1>1, <3>1, <4>2, <5>1, <5>4 DEF Within, n
            <6>2. call.todo[2] \in Parts
              BY <5>1, <6>1, PartInHand DEF Inv
            <6>3. call.todo[2].n \in Nat
              BY <5>4, <6>1, <6>2, KindsOfParts DEF InBlockPart
            <6>4. call.todo[2].n * BitsPerByte \in Int
              BY <6>3, ReaderAssumption
            <6> QED
              BY <1>2, <3>2, <3>3, <6>1, <6>4
          <5> QED
            BY <2>3, <2>7, <5>2, <5>3, <5>4 DEF InBlockPart
        <4> QED
          BY <4>1, <4>2
      <3> QED
        BY <3>3, <3>5, <3>6 DEF Within
    <2>16. LimitInv'
      BY <2>2, <2>15, LimitKept
    <2> QED
      BY <2>11, <2>13, <2>14, <2>16 DEF Inv
  <1> QED
    BY <1>3, <1>4

\* What holds of every part that leaves others in its place.
LEMMA PartsReplaced ==
    ASSUME Inv, call.todo # <<>>, AfterRead, UNCHANGED fed,
           NEW n \in Nat, Moves(n),
           NEW parts \in Seq(Parts), Replaced(parts),
           frame = "header" /\ call'.todo = <<>> => n > 0,
           \A i \in 1..Len(parts) :
              /\ parts[i].do = "bits" => i = 1
              /\ frame # "search" => parts[i] \notin BlockParts
    PROVE  /\ TypeInv' /\ BufferInv' /\ SyncInv' /\ CallInv'
           /\ Position' = Position + n
  <1>1. br' \in Readers(Byte) /\ call' \in Calls
    BY DEF Moves, Replaced
  <1>2. TypeInv'
    BY <1>1, TypesKept
  <1>3. /\ frame' = frame \/ (frame = "header" /\ frame' = "body" /\ n > 0)
        /\ UNCHANGED <<stream, fed, lastSync>>
        /\ frame' # "search" => frame # "search"
    BY DEF AfterRead
  <1>4. BufferInv' /\ SyncInv' /\ Position' = Position + n
    BY <1>3, MovingKeepsBuffer DEF Inv
  <1>5. CallInv'
    <2> SUFFICES ASSUME NEW i \in 1..Len(call'.todo)
                 PROVE  /\ call'.todo[i].do = "bits" => i = 1
                        /\ frame # "search" => call'.todo[i] \notin BlockParts
      BY <1>3 DEF CallInv
    <2>1. /\ Len(parts) \in Nat /\ Len(call.todo) \in Nat /\ Len(call.todo) > 0
          /\ Len(call'.todo) = Len(parts) + Len(call.todo) - 1
      BY PartInHand DEF Inv, Replaced
    <2>2. CASE i \in 1..Len(parts)
      BY <2>2 DEF Replaced
    <2>3. CASE i \notin 1..Len(parts)
      <3>1. /\ i \in (Len(parts) + 1)..Len(call'.todo)
            /\ i - Len(parts) + 1 \in 2..Len(call.todo)
        BY <2>1, <2>3
      <3>2. call'.todo[i] = call.todo[i - Len(parts) + 1]
        BY <3>1 DEF Replaced
      <3>3. \A j \in 2..Len(call.todo) :
               /\ call.todo[j].do # "bits"
               /\ frame # "search" => call.todo[j] \notin BlockParts
        BY DEF Inv, CallInv
      <3> QED
        BY <3>1, <3>2, <3>3
    <2> QED
      BY <2>2, <2>3
  <1> QED
    BY <1>2, <1>4, <1>5

LEMMA PendingOfPart ==
    ASSUME TypeInv, call.todo # <<>>
    PROVE  /\ call.todo[1].do = "bits" => Pending = call.todo[1].n
           /\ call.todo[1].do # "bits" => Pending = 0
  BY PartInHand DEF Pending, Part

\* Behind the part in hand nothing is charged.
LEMMA NothingPendingBehind ==
    ASSUME Inv, call.todo # <<>>, Replaced(<<>>)
    PROVE  Pending' = 0
  <1>1. /\ Len(call.todo) \in Nat /\ Len(call.todo) > 0
        /\ Len(call'.todo) = Len(call.todo) - 1
        /\ \A i \in 1..Len(call'.todo) : call'.todo[i] = call.todo[i + 1]
    <2>1. Len(<<>>) = 0
      OBVIOUS
    <2>2. Len(call.todo) \in Nat /\ Len(call.todo) > 0
      BY PartInHand DEF Inv
    <2>3. Len(call'.todo) = Len(call.todo) - 1
      BY <2>1, <2>2 DEF Replaced
    <2>4. ASSUME NEW i \in 1..Len(call'.todo) PROVE call'.todo[i] = call.todo[i + 1]
      <3>1. i \in (Len(<<>>) + 1)..Len(call'.todo) /\ i - Len(<<>>) + 1 = i + 1
        BY <2>1, <2>2, <2>3
      <3> QED
        BY <3>1 DEF Replaced
    <2> QED
      BY <2>2, <2>3, <2>4
  <1>2. CASE call'.todo = <<>>
    BY <1>2 DEF Pending
  <1>3. CASE call'.todo # <<>>
    <2>1. call'.todo \in Seq(Parts)
      BY DEF Replaced, Calls
    <2>2. Len(call'.todo) > 0 /\ Head(call'.todo) = call'.todo[1]
      BY <1>3, <2>1
    <2>3. call'.todo[1] = call.todo[2] /\ 2 \in 1..Len(call.todo)
      BY <1>1, <2>2
    <2>4. call.todo[2].do # "bits"
      BY <2>3 DEF Inv, CallInv
    <2> QED
      BY <2>2, <2>3, <2>4 DEF Pending
  <1> QED
    BY <1>2, <1>3

LEMMA BitsAreRead ==
    ASSUME Inv, call.todo # <<>>, AfterRead, UNCHANGED fed, DoBits
    PROVE  Inv'
  <1> DEFINE n == Part.n
             bits == NextBits(br, n)
  <1>1. /\ Part.do = "bits" /\ Part \in Parts /\ Part = call.todo[1]
        /\ Len(call.todo) \in Nat /\ Len(call.todo) > 0
    BY PartInHand DEF Inv, DoBits
  <1>2. n \in 1..BitsPerWord /\ n \in Nat /\ n > 0
    BY <1>1, KindsOfParts, Sizes
  <1>3. n <= Unconsumed(br) /\ br' = Consume(br, n) /\ call' = Got(bits, <<>>)
    BY <1>2, PositionIsBits DEF DoBits, Inv
  <1> HIDE DEF n
  <1>4. Moves(n) /\ br'.read_limit = br.read_limit
    BY <1>2, <1>3, ConsumingMoves DEF Inv
  <1>5. bits \in Seq(Bit \cup Byte)
    <2>1. bits \in Seq({0, 1})
      BY <1>2, <1>3, NextBitsAreOfTheStream DEF Inv
    <2>2. {0, 1} \subseteq Bit \cup Byte
      BY DEF Bit
    <2> HIDE DEF bits
    <2> QED
      BY <2>1, <2>2
  <1> HIDE DEF bits
  <1>6. <<>> \in Seq(Parts)
    OBVIOUS
  <1>7. Replaced(<<>>)
    BY <1>3, <1>5, <1>6, Replacing DEF Inv
  <1>8. \A i \in 1..Len(<<>>) : FALSE
    OBVIOUS
  <1>9. /\ TypeInv' /\ BufferInv' /\ SyncInv' /\ CallInv'
        /\ Position' = Position + n
    BY <1>2, <1>4, <1>6, <1>7, <1>8, PartsReplaced
  <1>10. ASSUME limitEnd # Unlimited, limitEnd' = limitEnd PROVE Within'
    <2>1. Within
      BY <1>10, LimitIsSet
    <2>2. Pending = n /\ Pending' = 0
      BY <1>1, <1>7, PendingOfPart, NothingPendingBehind DEF Inv, n
    <2>3. Position' + Pending' + br'.read_limit <= limitEnd'
      <3>1. Position + n + br.read_limit <= limitEnd
        BY <2>1, <2>2 DEF Within
      <3>2. br.read_limit \in Int /\ Position \in Int
        BY PositionIsBits DEF Inv, TypeInv, Readers
      <3> QED
        BY <1>2, <1>4, <1>9, <1>10, <2>2, <3>1, <3>2
    <2>4. ASSUME NEW i \in 1..Len(call'.todo)
          PROVE  /\ call'.todo[i].do # "unary"
                 /\ InBlockPart(i)' =>
                      i = 1 /\ call'.todo[1].n * BitsPerByte <= br'.read_limit
      <3>1. Len(<<>>) = 0 /\ i - 0 + 1 = i + 1
        OBVIOUS
      <3>2. Len(call'.todo) = Len(call.todo) - 1
        BY <1>1, <1>7, <3>1 DEF Replaced
      <3>3. call'.todo[i] = call.todo[i + 1] /\ i + 1 \in 2..Len(call.todo)
        BY <1>1, <1>7, <3>1, <3>2 DEF Replaced
      <3>4. /\ call.todo[i + 1].do # "unary"
            /\ InBlockPart(i + 1) =>
                 i + 1 = 2 /\ call.todo[2].n * BitsPerByte <= br.read_limit
        BY <1>1, <2>1, <3>3 DEF Within
      <3> QED
        BY <1>4, <3>3, <3>4 DEF InBlockPart
    <2> QED
      BY <1>4, <2>1, <2>3, <2>4 DEF Within
  <1>11. LimitInv'
    BY <1>4, <1>10, LimitKept DEF Moves
  <1> QED
    BY <1>9, <1>11 DEF Inv

\* What the parts of a byte block leave is within the limit when they are.
LEMMA BlockPartsWithin ==
    ASSUME Inv, call.todo # <<>>, call.todo[1] \in BlockParts, Within,
           limitEnd' = limitEnd,
           NEW parts \in Seq(Parts), Replaced(parts),
           Position' \in Int, br'.read_limit \in 0..(None - 1),
           Position' + br'.read_limit <= Position + br.read_limit,
           \A i \in 1..Len(parts) :
              /\ parts[i].do # "unary" /\ parts[i].do # "bits"
              /\ parts[i].do = "inBlock" =>
                    \/ i = 1 /\ parts[1].n * BitsPerByte <= br'.read_limit
                    \/ /\ i = 2 /\ parts[1].do = "raw"
                       /\ parts[1].n + parts[2].n * BitsPerByte <= br'.read_limit
    PROVE  Within'
  <1>1. /\ Len(parts) \in Nat /\ Len(call.todo) \in Nat /\ Len(call.todo) > 0
        /\ Len(call'.todo) = Len(parts) + Len(call.todo) - 1
        /\ call'.todo \in Seq(Parts)
    BY PartInHand DEF Inv, Replaced, Calls
  <1>2. /\ call.todo[1].do = "block" \/ call.todo[1].do = "inBlock"
        /\ call.todo[1].do # "bits" /\ call.todo[1].do # "raw"
    BY DEF BlockParts
  <1>3. \A j \in 2..Len(call.todo) :
           /\ call.todo[j].do # "bits" /\ call.todo[j].do # "unary"
           /\ call.todo[j].do # "inBlock"
    <2> SUFFICES ASSUME NEW j \in 2..Len(call.todo)
                 PROVE  /\ call.todo[j].do # "bits" /\ call.todo[j].do # "unary"
                        /\ call.todo[j].do # "inBlock"
      OBVIOUS
    <2>1. j \in 1..Len(call.todo) /\ j # 1
      BY <1>1
    <2>2. call.todo[j].do # "bits"
      BY <2>1 DEF Inv, CallInv
    <2>3. call.todo[j].do # "unary" /\ ~InBlockPart(j)
      BY <1>2, <2>1 DEF Within
    <2> QED
      BY <2>2, <2>3 DEF InBlockPart
  <1>4. ASSUME NEW i \in 1..Len(call'.todo)
        PROVE  \/ i \in 1..Len(parts) /\ call'.todo[i] = parts[i]
               \/ /\ i \notin 1..Len(parts)
                  /\ call'.todo[i].do # "bits" /\ call'.todo[i].do # "unary"
                  /\ call'.todo[i].do # "inBlock"
    <2>1. CASE i \in 1..Len(parts)
      BY <2>1 DEF Replaced
    <2>2. CASE i \notin 1..Len(parts)
      <3>1. /\ i \in (Len(parts) + 1)..Len(call'.todo)
            /\ i - Len(parts) + 1 \in 2..Len(call.todo)
        BY <1>1, <2>2
      <3>2. call'.todo[i] = call.todo[i - Len(parts) + 1]
        BY <3>1 DEF Replaced
      <3> QED
        BY <1>3, <2>2, <3>1, <3>2
    <2> QED
      BY <2>1, <2>2
  <1>5. Pending = 0
    BY <1>2, PendingOfPart DEF Inv
  <1>6. Pending' = 0
    <2>1. CASE call'.todo = <<>>
      BY <2>1 DEF Pending
    <2>2. CASE call'.todo # <<>>
      <3>1. Len(call'.todo) > 0 /\ Head(call'.todo) = call'.todo[1]
        BY <1>1, <2>2
      <3>3. 1 \in 1..Len(call'.todo)
        BY <3>1
      <3>2. call'.todo[1].do # "bits"
        BY <1>1, <1>4, <3>3
      <3> QED
        BY <3>1, <3>2 DEF Pending
    <2> QED
      BY <2>1, <2>2
  <1>7. Position' + Pending' + br'.read_limit <= limitEnd'
    <2>1. Position + 0 + br.read_limit <= limitEnd
      BY <1>5 DEF Within
    <2>2. br.read_limit \in Int /\ limitEnd \in Int
      BY DEF Inv, TypeInv, Readers
    <2>3. Position \in Int
      BY PositionIsBits DEF Inv
    <2>4. br'.read_limit \in Int
      BY ReaderAssumption DEF None
    <2> QED
      BY <1>6, <2>1, <2>2, <2>3, <2>4
  <1>8. ASSUME NEW i \in 1..Len(call'.todo)
        PROVE  /\ call'.todo[i].do # "unary"
               /\ InBlockPart(i)' =>
                     \/ i = 1 /\ call'.todo[1].n * BitsPerByte <= br'.read_limit
                     \/ /\ i = 2 /\ call'.todo[1].do = "raw"
                        /\ call'.todo[1].n + call'.todo[2].n * BitsPerByte
                              <= br'.read_limit
    <2>1. CASE i \in 1..Len(parts) /\ call'.todo[i] = parts[i]
      <3>1. i = 2 => 1 \in 1..Len(parts) /\ call'.todo[1] = parts[1]
        BY <1>1, <2>1 DEF Replaced
      <3>2. ASSUME InBlockPart(i)'
            PROVE  \/ i = 1 /\ call'.todo[1].n * BitsPerByte <= br'.read_limit
                   \/ /\ i = 2 /\ call'.todo[1].do = "raw"
                      /\ call'.todo[1].n + call'.todo[2].n * BitsPerByte
                            <= br'.read_limit
        <4>1. parts[i].do = "inBlock"
          BY <2>1, <3>2 DEF InBlockPart
        <4>2. CASE i = 1 /\ parts[1].n * BitsPerByte <= br'.read_limit
          BY <2>1, <4>2
        <4>3. CASE /\ i = 2 /\ parts[1].do = "raw"
                   /\ parts[1].n + parts[2].n * BitsPerByte <= br'.read_limit
          BY <2>1, <3>1, <4>3
        <4> QED
          BY <2>1, <4>1, <4>2, <4>3
      <3> QED
        BY <2>1, <3>2
    <2>2. CASE i \notin 1..Len(parts)
      BY <1>4, <2>2 DEF InBlockPart
    <2> QED
      BY <1>4, <2>1, <2>2
  <1> QED
    BY <1>7, <1>8 DEF Within

LEMMA StandsStill ==
    ASSUME Inv, UNCHANGED br
    PROVE  Moves(0) /\ br'.read_limit_set = br.read_limit_set
  <1>1. br' \in Readers(Byte) /\ SamePlace(br', br)
    BY DEF Inv, TypeInv, SamePlace
  <1> QED
    BY <1>1, SamePlaceMovesNowhere DEF Inv

\* A part of a byte block that leaves the reader where it is
LEMMA BlockStands ==
    ASSUME Inv, call.todo # <<>>, AfterRead, UNCHANGED <<fed, br>>,
           call.todo[1] \in BlockParts,
           NEW parts \in Seq(Parts), Replaced(parts),
           \A i \in 1..Len(parts) :
              /\ parts[i].do # "unary" /\ parts[i].do # "bits"
              /\ Limited(br) /\ Within /\ parts[i].do = "inBlock" =>
                    \/ i = 1 /\ parts[1].n * BitsPerByte <= br.read_limit
                    \/ /\ i = 2 /\ parts[1].do = "raw"
                       /\ parts[1].n + parts[2].n * BitsPerByte <= br.read_limit
    PROVE  Inv'
  <1>1. Moves(0) /\ br'.read_limit_set = br.read_limit_set
    BY StandsStill
  <1>2. frame = "search"
    <2>1. 1 \in 1..Len(call.todo)
      BY PartInHand DEF Inv
    <2> QED
      BY <2>1 DEF Inv, CallInv
  <1>3. /\ TypeInv' /\ BufferInv' /\ SyncInv' /\ CallInv' /\ Position' = Position + 0
    BY <1>1, <1>2, PartsReplaced
  <1>4. Position' = Position /\ Position' \in Int
    BY <1>3, PositionIsBits DEF Inv
  <1>5. ASSUME limitEnd # Unlimited, limitEnd' = limitEnd PROVE Within'
    <2>1. Limited(br) /\ Within
      BY <1>5, LimitIsSet
    <2>2. /\ br'.read_limit \in 0..(None - 1)
          /\ Position' + br'.read_limit <= Position + br.read_limit
      BY <1>4, <2>1, ReaderAssumption DEF Within, None
    <2> QED
      BY <1>4, <1>5, <2>1, <2>2, BlockPartsWithin
  <1>6. LimitInv'
    BY <1>1, <1>5, LimitKept
  <1> QED
    BY <1>3, <1>6 DEF Inv

LEMMA BlockBegins ==
    ASSUME Inv, call.todo # <<>>, AfterRead, UNCHANGED fed, DoBlock
    PROVE  Inv'
  <1> DEFINE n == Part.n
             parts == <<InBlock(n)>>
  <1>1. /\ Part.do = "block" /\ Part \in Parts /\ Part = call.todo[1]
    BY PartInHand DEF Inv, DoBlock
  <1>2. n \in Nat /\ call.todo[1] \in BlockParts
    BY <1>1, KindsOfParts
  <1>3. CASE OverLimit(br, n * BitsPerByte)
    BY <1>3, OverLimitFails DEF DoBlock
  <1>4. CASE ~OverLimit(br, n * BitsPerByte)
    <2>1. UNCHANGED br /\ call' = Then(parts)
      BY <1>4 DEF DoBlock
    <2> HIDE DEF n
    <2>2. /\ InBlock(n) \in Parts /\ InBlock(n).do = "inBlock" /\ InBlock(n).n = n
      <3>1. 1 \in 1..BitsPerWord
        BY Sizes
      <3> QED
        BY <1>2, <3>1, NewParts
    <2>3. parts \in Seq(Parts) /\ Len(parts) = 1 /\ parts[1] = InBlock(n)
      BY <2>2
    <2>4. <<>> \in Seq(Bit \cup Byte)
      OBVIOUS
    <2> HIDE DEF parts
    <2>5. Replaced(parts)
      BY <2>1, <2>3, <2>4, Replacing DEF Inv
    <2>6. ASSUME Limited(br), Within PROVE n * BitsPerByte <= br.read_limit
      <3>1. n * BitsPerByte \in Int /\ br.read_limit \in Int
        BY <1>2, ReaderAssumption DEF Inv, TypeInv, Readers
      <3> QED
        BY <1>4, <2>6, <3>1 DEF OverLimit
    <2>7. \A i \in 1..Len(parts) :
              /\ parts[i].do # "unary" /\ parts[i].do # "bits"
              /\ Limited(br) /\ Within /\ parts[i].do = "inBlock" =>
                    i = 1 /\ parts[1].n * BitsPerByte <= br.read_limit
      BY <2>2, <2>3, <2>6
    <2> QED
      BY <1>2, <2>1, <2>3, <2>5, <2>7, BlockStands
  <1> QED
    BY <1>3, <1>4

LEMMA BlockTakesByte ==
    ASSUME Inv, call.todo # <<>>, AfterRead, UNCHANGED fed, DoBlockByte
    PROVE  Inv'
  <1> DEFINE n == Part.n
             parts == <<Raw(BitsPerByte), InBlock(n - 1)>>
  <1>1. /\ Part.do = "inBlock" /\ n > 0 /\ Part \in Parts /\ Part = call.todo[1]
        /\ UNCHANGED br /\ call' = Then(parts)
    BY PartInHand DEF Inv, DoBlockByte
  <1>2. n \in Nat /\ n - 1 \in Nat /\ call.todo[1] \in BlockParts
    <2>1. n \in Nat /\ call.todo[1] \in BlockParts
      BY <1>1, KindsOfParts
    <2> HIDE DEF n
    <2> QED
      BY <1>1, <2>1
  <1>3. BitsPerByte \in 1..BitsPerWord
    <2>1. 1 * BitsPerByte <= BytesPerWord * BitsPerByte
      BY ReaderAssumption
    <2> QED
      BY <2>1, Sizes, ReaderAssumption
  <1> HIDE DEF n
  <1>4. /\ Raw(BitsPerByte) \in Parts /\ Raw(BitsPerByte).do = "raw"
        /\ Raw(BitsPerByte).n = BitsPerByte
        /\ InBlock(n - 1) \in Parts /\ InBlock(n - 1).do = "inBlock"
        /\ InBlock(n - 1).n = n - 1
    BY <1>2, <1>3, NewParts
  <1>5. /\ parts \in Seq(Parts) /\ Len(parts) = 2
        /\ parts[1] = Raw(BitsPerByte) /\ parts[2] = InBlock(n - 1)
    BY <1>4
  <1>6. <<>> \in Seq(Bit \cup Byte)
    OBVIOUS
  <1> HIDE DEF parts
  <1>7. Replaced(parts)
    BY <1>1, <1>5, <1>6, Replacing DEF Inv
  <1>8. ASSUME Limited(br), Within
        PROVE  BitsPerByte + (n - 1) * BitsPerByte <= br.read_limit
    <2>1. 1 \in 1..Len(call.todo)
      BY PartInHand DEF Inv
    <2>2. n * BitsPerByte <= br.read_limit
      BY <1>1, <1>8, <2>1 DEF Within, InBlockPart, n
    <2>3. BitsPerByte + (n - 1) * BitsPerByte = n * BitsPerByte
      BY <1>2, ReaderAssumption
    <2> QED
      BY <2>2, <2>3
  <1>9. \A i \in 1..Len(parts) :
            /\ parts[i].do # "unary" /\ parts[i].do # "bits"
            /\ Limited(br) /\ Within /\ parts[i].do = "inBlock" =>
                  /\ i = 2 /\ parts[1].do = "raw"
                  /\ parts[1].n + parts[2].n * BitsPerByte <= br.read_limit
    <2>1. \A i \in 1..Len(parts) : i = 1 \/ i = 2
      BY <1>5
    <2> QED
      BY <1>4, <1>5, <1>8, <2>1
  <1> QED
    BY <1>1, <1>2, <1>5, <1>7, <1>9, BlockStands

LEMMA BlockEnds ==
    ASSUME Inv, call.todo # <<>>, AfterRead, UNCHANGED fed, DoBlockEnd
    PROVE  Inv'
  <1>1. /\ Part.do = "inBlock" /\ Part \in Parts /\ Part = call.todo[1]
        /\ UNCHANGED br /\ call' = Then(<<>>)
    BY PartInHand DEF Inv, DoBlockEnd
  <1>2. call.todo[1] \in BlockParts
    BY <1>1, KindsOfParts
  <1>3. <<>> \in Seq(Parts) /\ <<>> \in Seq(Bit \cup Byte) /\ 1..Len(<<>>) = {}
    OBVIOUS
  <1>4. Replaced(<<>>)
    BY <1>1, <1>3, Replacing DEF Inv
  <1> QED
    BY <1>1, <1>2, <1>3, <1>4, BlockStands

LEMMA BlockTakesWord ==
    ASSUME Inv, call.todo # <<>>, AfterRead, UNCHANGED fed, DoBlockWord
    PROVE  Inv'
  <1> DEFINE n == Part.n
             parts == <<InBlock(n - BytesPerWord)>>
             bits == NextBits(br, BitsPerWord)
             b == Consume(br, BitsPerWord)
  <1>1. /\ Part.do = "inBlock" /\ Part \in Parts /\ Part = call.todo[1]
        /\ br.consumed_bits = 0 /\ n >= BytesPerWord
        /\ br.consumed_words < br.words
        /\ call' = Got(bits, parts) /\ br' = ChargeWord(b)
    BY PartInHand DEF Inv, DoBlockWord, WholeWords
  <1>2. n \in Nat /\ n - BytesPerWord \in Nat /\ call.todo[1] \in BlockParts
    <2>1. n \in Nat /\ call.todo[1] \in BlockParts
      BY <1>1, KindsOfParts
    <2> HIDE DEF n
    <2> QED
      BY <1>1, <2>1, ReaderAssumption
  <1> HIDE DEF n
  <1>3. BitsPerWord \in Nat /\ BitsPerWord <= Unconsumed(br)
    <2>1. /\ br.words \in Nat /\ br.consumed_words \in Nat /\ br.bytes \in Nat
      BY DEF Inv, TypeInv, Readers
    <2>2. 1 * BitsPerWord <= (br.words - br.consumed_words) * BitsPerWord
      BY <1>1, <2>1, Sizes
    <2>3. br.bytes * BitsPerByte \in Nat
      BY <2>1, ReaderAssumption
    <2>4. (br.words - br.consumed_words) * BitsPerWord \in Int
      BY <2>1, Sizes
    <2> QED
      BY <1>1, <2>2, <2>3, <2>4, Sizes DEF Unconsumed
  <1>4. /\ b \in Readers(Byte) /\ Sane(b) /\ SameLimit(b, br)
        /\ b.buffer = br.buffer /\ b.words = br.words /\ b.bytes = br.bytes
        /\ b.last_seen_framesync = br.last_seen_framesync
        /\ Available(b) = Available(br) /\ Consumed(b) = Consumed(br) + BitsPerWord
    BY <1>3, Consuming DEF Inv, TypeInv, BufferInv
  <1>5. bits \in Seq(Bit \cup Byte)
    <2>1. bits \in Seq({0, 1})
      BY <1>3, NextBitsAreOfTheStream DEF Inv
    <2>2. {0, 1} \subseteq Bit \cup Byte
      BY DEF Bit
    <2> HIDE DEF bits
    <2> QED
      BY <2>1, <2>2
  <1> HIDE DEF b, bits
  <1>6. /\ br' \in Readers(Byte) /\ SamePlace(br', b)
        /\ br'.last_seen_framesync = b.last_seen_framesync
        /\ br'.read_limit_set = b.read_limit_set
        /\ b.read_limit_set /\ b.read_limit \in BitsPerWord..(Wrap - 1) =>
              br'.read_limit = b.read_limit - BitsPerWord
    BY <1>1, <1>4, ChargingAWord
  <1>7. Moves(BitsPerWord) /\ br'.read_limit_set = br.read_limit_set
    BY <1>4, <1>6, SamePlaceSameMeasures DEF Moves, SamePlace, SameLimit
  <1>8. /\ InBlock(n - BytesPerWord) \in Parts
        /\ InBlock(n - BytesPerWord).do = "inBlock"
        /\ InBlock(n - BytesPerWord).n = n - BytesPerWord
    <2>1. 1 \in 1..BitsPerWord
      BY Sizes
    <2> QED
      BY <1>2, <2>1, NewParts
  <1>9. parts \in Seq(Parts) /\ Len(parts) = 1 /\ parts[1] = InBlock(n - BytesPerWord)
    BY <1>8
  <1> HIDE DEF parts
  <1>10. Replaced(parts)
    BY <1>1, <1>5, <1>9, Replacing DEF Inv
  <1>11. frame = "search"
    <2>1. 1 \in 1..Len(call.todo)
      BY PartInHand DEF Inv
    <2> QED
      BY <1>2, <2>1 DEF Inv, CallInv
  <1>12. \A i \in 1..Len(parts) : i = 1 /\ parts[i].do = "inBlock"
    BY <1>8, <1>9
  <1>13. /\ TypeInv' /\ BufferInv' /\ SyncInv' /\ CallInv'
         /\ Position' = Position + BitsPerWord
    BY <1>3, <1>7, <1>9, <1>10, <1>11, <1>12, PartsReplaced
  <1>14. ASSUME limitEnd # Unlimited, limitEnd' = limitEnd PROVE Within'
    <2>1. Limited(br) /\ Within /\ br.read_limit_set
      BY <1>14, LimitIsSet
    <2>2. n * BitsPerByte <= br.read_limit
      <3>1. 1 \in 1..Len(call.todo)
        BY PartInHand DEF Inv
      <3> QED
        BY <1>1, <2>1, <3>1 DEF Within, InBlockPart, n
    <2>3. n * BitsPerByte = BitsPerWord + (n - BytesPerWord) * BitsPerByte
      BY <1>2, ReaderAssumption DEF BitsPerWord
    <2>4. (n - BytesPerWord) * BitsPerByte \in Nat
      BY <1>2, ReaderAssumption
    <2>5. br.read_limit \in BitsPerWord..(Wrap - 1) /\ br.read_limit \in 0..(None - 1)
      BY <2>1, <2>2, <2>3, <2>4, Sizes, ReaderAssumption DEF Within, None
    <2>6. br'.read_limit = br.read_limit - BitsPerWord
      BY <1>4, <1>6, <2>1, <2>5 DEF SameLimit
    <2>7. br'.read_limit \in 0..(None - 1) /\ br.read_limit \in Int
      BY <2>5, <2>6, Sizes, ReaderAssumption DEF None
    <2>8. Position' \in Int /\ Position' + br'.read_limit <= Position + br.read_limit
      <3>1. Position \in Int
        BY PositionIsBits DEF Inv
      <3> QED
        BY <1>3, <1>13, <2>6, <2>7, <3>1
    <2>9. (n - BytesPerWord) * BitsPerByte <= br'.read_limit
      BY <1>3, <2>2, <2>3, <2>4, <2>6, <2>7
    <2> QED
      BY <1>2, <1>8, <1>9, <1>10, <1>12, <1>14, <2>1, <2>7, <2>8, <2>9, BlockPartsWithin
  <1>15. LimitInv'
    BY <1>7, <1>14, LimitKept
  <1> QED
    BY <1>13, <1>15 DEF Inv

LEMMA LeastMember ==
    ASSUME NEW S \in SUBSET Nat, S # {}
    PROVE  LET n == CHOOSE m \in S : \A k \in S : m <= k IN
           n \in S /\ \A k \in S : n <= k
  <1>1. PICK m \in S : \A k \in S : ~(<<k, m>> \in OpToRel(<, Nat))
    BY NatLessThanWellFounded, WFMin
  <1>2. ASSUME NEW k \in S PROVE m <= k
    <2>1. k \in Nat /\ m \in Nat
      OBVIOUS
    <2>2. ~(k < m)
      BY <1>1, <2>1 DEF OpToRel
    <2> QED
      BY <2>1, <2>2
  <1> QED
    BY <1>2

LEMMA UnaryIsRead ==
    ASSUME Inv, call.todo # <<>>, AfterRead, UNCHANGED fed, DoUnary
    PROVE  Inv'
  <1> DEFINE all == Unconsumed(br)
             n == CHOOSE m \in StopBits : \A k \in StopBits : m <= k
  <1>1. /\ Part.do = "unary" /\ Part \in Parts /\ Part = call.todo[1]
        /\ 1 \in 1..Len(call.todo) /\ all > 0 /\ all \in Nat
    BY PartInHand, PositionIsBits DEF Inv, DoUnary
  <1>2. limitEnd = Unlimited
    BY <1>1, LimitIsSet DEF Within
  <1>3. 0 \in Bit \cup Byte /\ 1 \in Bit \cup Byte
    BY DEF Bit
  <1>4. ASSUME NEW k \in Nat PROVE Zeros(k) \in Seq(Bit \cup Byte)
    BY <1>3 DEF Zeros
  <1>5. ASSUME NEW parts \in Seq(Parts), NEW bits \in Seq(Bit \cup Byte),
               NEW k \in Nat, k <= all, k > 0,
               call' = Got(bits, parts), br' = Consume(br, k),
               \A i \in 1..Len(parts) : parts[i] = UnaryPart
        PROVE  Inv'
    <2>1. Moves(k)
      BY <1>5, ConsumingMoves DEF Inv
    <2>2. Replaced(parts)
      BY <1>5, Replacing DEF Inv
    <2>3. UnaryPart.do = "unary" /\ UnaryPart \notin BlockParts
      BY DEF UnaryPart, BlockParts
    <2>4. TypeInv' /\ BufferInv' /\ SyncInv' /\ CallInv'
      BY <1>5, <2>1, <2>2, <2>3, PartsReplaced
    <2>5. LimitInv'
      BY <1>2, <2>1, LimitKept DEF Moves
    <2> QED
      BY <2>4, <2>5 DEF Inv
  <1>6. CASE StopBits = {}
    <2>1. call' = Got(Zeros(all), <<UnaryPart>>) /\ br' = Consume(br, all)
      BY <1>6 DEF DoUnary
    <2>2. UnaryPart \in Parts
      BY DEF UnaryPart, Parts, UnaryParts
    <2>3. /\ <<UnaryPart>> \in Seq(Parts)
          /\ \A i \in 1..Len(<<UnaryPart>>) : <<UnaryPart>>[i] = UnaryPart
      BY <2>2
    <2>4. all <= all
      BY <1>1
    <2> HIDE DEF all
    <2> QED
      BY <1>1, <1>4, <1>5, <2>1, <2>3, <2>4
  <1>7. CASE StopBits # {}
    <2>1. call' = Got(Append(Zeros(n - 1), 1), <<>>) /\ br' = Consume(br, n)
      BY <1>7 DEF DoUnary
    <2>2. StopBits \in SUBSET Nat
      BY <1>1 DEF StopBits
    <2>3. n \in StopBits
      BY <1>7, <2>2, LeastMember
    <2>4. n \in 1..all
      BY <2>3 DEF StopBits
    <2> HIDE DEF n
    <2>5. n \in Nat /\ n - 1 \in Nat /\ n <= all /\ n > 0
      BY <1>1, <2>4
    <2>6. Append(Zeros(n - 1), 1) \in Seq(Bit \cup Byte)
      BY <1>3, <1>4, <2>5
    <2>7. <<>> \in Seq(Parts) /\ \A i \in 1..Len(<<>>) : <<>>[i] = UnaryPart
      OBVIOUS
    <2> QED
      BY <1>5, <2>1, <2>5, <2>6, <2>7
  <1> QED
    BY <1>6, <1>7

-------------------------------------------------------------------------------
(* The client is called *)

LEMMA KeptSame ==
    ASSUME NEW b \in Readers(Byte)
    PROVE  /\ Kept(b) \in Readers(Byte) /\ SamePlace(Kept(b), b)
           /\ SameLimit(Kept(b), b)
           /\ Kept(b).last_seen_framesync = b.last_seen_framesync
  <1>1. CASE frame \in {"header", "body"}
    BY <1>1 DEF Kept, SamePlace, SameLimit
  <1>2. CASE frame \notin {"header", "body"}
    <2>1. <<>> \in Seq(Byte)
      OBVIOUS
    <2>2. Kept(b) = [b EXCEPT !.read_crc16 = <<>>]
      BY <1>2 DEF Kept
    <2>3. LET c == [b EXCEPT !.read_crc16 = <<>>] IN
          /\ c \in Readers(Byte) /\ SamePlace(c, b) /\ SameLimit(c, b)
          /\ c.last_seen_framesync = b.last_seen_framesync
      BY <2>1 DEF Readers, SamePlace, SameLimit
    <2> QED
      BY <2>2, <2>3
  <1> QED
    BY <1>1, <1>2

\* The consumed words are gone, what is left is still the end of what was delivered.
LEMMA SourceShifted ==
    ASSUME SourceTypes, BufferInv
    PROVE  LET b == BeforeRead(br) IN
           /\ b \in Readers(Byte) /\ Sane(b) /\ SameLimit(b, br)
           /\ Available(b) \in Nat /\ Available(b) <= fed
           /\ Unconsumed(b) = Unconsumed(br)
           /\ b.last_seen_framesync = None
           /\ SpaceLeft(b) = BufferBytes - Available(b)
           /\ \A a \in 0..(Available(b) - 1) :
                 b.buffer[a] = stream[fed - Available(b) + a + 1]
  <1> DEFINE b == BeforeRead(br)
             gone == br.consumed_words * BytesPerWord
  <1>1. /\ b \in Readers(Byte) /\ Sane(b) /\ SameLimit(b, br)
        /\ gone \in Nat /\ gone <= Available(br)
        /\ Available(b) = Available(br) - gone
        /\ Unconsumed(b) = Unconsumed(br)
        /\ \A a \in 0..(Available(b) - 1) : b.buffer[a] = br.buffer[a + gone]
        /\ b.last_seen_framesync = None
    BY Shifting DEF SourceTypes, BufferInv
  <1> HIDE DEF b, gone
  <1>2. Available(b) \in Nat /\ SpaceLeft(b) = BufferBytes - Available(b)
    BY <1>1, Places
  <1>3. Available(b) <= fed
    BY <1>1, <1>2, SourcePosition, SourceIsBytes DEF BufferInv
  <1>4. ASSUME NEW a \in 0..(Available(b) - 1)
        PROVE  b.buffer[a] = stream[fed - Available(b) + a + 1]
    <2>1. /\ a + gone \in 0..(Available(br) - 1)
          /\ fed - Available(br) + (a + gone) + 1 = fed - Available(b) + a + 1
      <3>1. Available(br) \in Nat /\ fed \in Nat
        BY SourcePosition, SourceIsBytes
      <3> QED
        BY <1>1, <1>2, <3>1
    <2>2. br.buffer[a + gone] = stream[fed - Available(br) + (a + gone) + 1]
      BY <2>1 DEF BufferInv
    <2> QED
      BY <1>1, <2>1, <2>2
  <1> QED
    BY <1>1, <1>2, <1>3, <1>4 DEF b

LEMMA ShiftedBuffer ==
    ASSUME TypeInv, BufferInv
    PROVE  LET b == BeforeRead(br) IN
           /\ b \in Readers(Byte) /\ Sane(b) /\ SameLimit(b, br)
           /\ Available(b) \in Nat /\ Available(b) <= fed
           /\ Unconsumed(b) = Unconsumed(br)
           /\ b.last_seen_framesync = None
           /\ SpaceLeft(b) = BufferBytes - Available(b)
           /\ \A a \in 0..(Available(b) - 1) :
                 b.buffer[a] = stream[fed - Available(b) + a + 1]
  BY SourceShifted DEF TypeInv, SourceTypes

Gain(n, ok) == IF ok THEN n ELSE 0

\* The client stored n bytes and said whether that was all right; br' differs from what
\* the reader makes of it in nothing that matters here.
Refilled(n, ok) ==
    LET b == BeforeRead(br)
        data == SubSeq(stream, fed + 1, fed + n)
        f == IF ok THEN Filled(b, data) ELSE NotFilled(b, data)
    IN /\ n <= SpaceLeft(b) /\ fed + n <= Len(stream)
       /\ fed' = fed + Gain(n, ok) /\ UNCHANGED stream
       /\ f \in Readers(Byte) =>
             /\ br' \in Readers(Byte) /\ SamePlace(br', f) /\ SameLimit(br', f)
             /\ br'.last_seen_framesync = f.last_seen_framesync

LEMMA SourceRefilled ==
    ASSUME SourceTypes, BufferInv, NEW n \in Nat, NEW ok \in BOOLEAN, Refilled(n, ok)
    PROVE  /\ br' \in Readers(Byte) /\ BufferInv' /\ SameLimit(br', br)
           /\ br'.last_seen_framesync = None
           /\ Position' = Position /\ fed' \in 0..Len(stream)
           /\ Available(br') * BitsPerByte \in Nat
           /\ Consumed(br') = Consumed(BeforeRead(br))
           /\ fed' - Available(br') = fed - Available(BeforeRead(br))
  <1> DEFINE b == BeforeRead(br)
             data == SubSeq(stream, fed + 1, fed + n)
             f == IF ok THEN Filled(b, data) ELSE NotFilled(b, data)
             gain == Gain(n, ok)
  <1>1. /\ b \in Readers(Byte) /\ Sane(b) /\ SameLimit(b, br)
        /\ Available(b) \in Nat /\ Available(b) <= fed
        /\ Unconsumed(b) = Unconsumed(br)
        /\ b.last_seen_framesync = None
        /\ SpaceLeft(b) = BufferBytes - Available(b)
        /\ \A a \in 0..(Available(b) - 1) :
              b.buffer[a] = stream[fed - Available(b) + a + 1]
    BY SourceShifted
  <1>2. /\ n <= SpaceLeft(b) /\ fed + n <= Len(stream)
        /\ fed' = fed + gain
        /\ f \in Readers(Byte) =>
              /\ br' \in Readers(Byte) /\ SamePlace(br', f) /\ SameLimit(br', f)
              /\ br'.last_seen_framesync = f.last_seen_framesync
    BY DEF Refilled
  <1>3. /\ fed \in Nat /\ Len(stream) \in Nat /\ stream \in Seq(Byte)
        /\ BufferBytes \in Nat /\ UNCHANGED stream
    BY SourceIsBytes, Sizes DEF Refilled
  <1> HIDE DEF b
  <1>4. /\ data \in Seq(Byte) /\ Len(data) = n
        /\ \A i \in 1..n : data[i] = stream[fed + i]
    <2>1. fed + 1 \in 1..(Len(stream) + 1) /\ fed + n \in fed..Len(stream)
      BY <1>2, <1>3
    <2>2. Len(data) = n
      BY <1>2, <1>3, <2>1
    <2>3. \A i \in 1..n : data[i] = stream[fed + i]
      <3>1. \A i \in 1..n : data[i] = stream[fed + 1 + i - 1]
        BY <1>2, <1>3, <2>1
      <3>2. \A i \in 1..n : fed + 1 + i - 1 = fed + i
        BY <1>3
      <3> QED
        BY <3>1, <3>2
    <2>4. \A i \in 1..n : fed + i \in 1..Len(stream)
      BY <1>2, <1>3
    <2>5. data \in Seq(Byte)
      BY <1>2, <1>3, <2>1
    <2> QED
      BY <2>2, <2>3, <2>5
  <1> HIDE DEF data
  <1>5. Available(b) + Len(data) <= BufferBytes
    BY <1>1, <1>2, <1>3, <1>4
  <1>6. /\ f \in Readers(Byte) /\ Sane(f) /\ SameLimit(f, b)
        /\ f.last_seen_framesync = b.last_seen_framesync
        /\ Available(f) = Available(b) + gain /\ Consumed(f) = Consumed(b)
        /\ \A a \in 0..(Available(f) - 1) :
              f.buffer[a] = IF a < Available(b) THEN b.buffer[a]
                            ELSE data[a - Available(b) + 1]
    <2>1. CASE ok
      BY <1>1, <1>4, <1>5, <2>1, Filling DEF Gain
    <2>2. CASE ~ok
      <3>1. /\ f \in Readers(Byte) /\ Sane(f) /\ SameLimit(f, b)
            /\ f.last_seen_framesync = b.last_seen_framesync
            /\ Available(f) = Available(b) /\ Consumed(f) = Consumed(b)
            /\ \A a \in 0..(Available(f) - 1) : f.buffer[a] = b.buffer[a]
        BY <1>1, <1>4, <1>5, <2>2, NotFilling
      <3> HIDE DEF f
      <3>2. Available(f) = Available(b) + gain
        BY <1>1, <2>2, <3>1 DEF Gain
      <3>3. \A a \in 0..(Available(f) - 1) : a < Available(b)
        BY <1>1, <3>1
      <3> QED
        BY <3>1, <3>2, <3>3
    <2> QED
      BY <2>1, <2>2
  <1> HIDE DEF f
  <1>7. gain \in Nat /\ gain <= n /\ (gain > 0 => gain = n)
    BY DEF Gain
  <1> HIDE DEF gain
  <1>8. /\ br' \in Readers(Byte) /\ SamePlace(br', f) /\ SameLimit(br', f)
        /\ br'.last_seen_framesync = f.last_seen_framesync
    BY <1>2, <1>6
  <1>9. /\ Available(br') = Available(b) + gain /\ Sane(br') /\ br'.buffer = f.buffer
        /\ Unconsumed(br') = Unconsumed(f) /\ Consumed(br') = Consumed(b)
    BY <1>6, <1>8, SamePlaceSameMeasures DEF SamePlace
  <1>10. BufferInv'
    <2>1. Available(br') <= fed'
      BY <1>1, <1>2, <1>3, <1>7, <1>9
    <2>2. ASSUME NEW a \in 0..(Available(br') - 1)
          PROVE  br'.buffer[a] = stream[fed' - Available(br') + a + 1]
      <3>1. fed' - Available(br') + a + 1 = fed - Available(b) + a + 1 /\ a \in Nat
        BY <1>1, <1>2, <1>3, <1>7, <1>9
      <3>2. a \in 0..(Available(f) - 1)
        BY <1>6, <1>9
      <3>3. CASE a < Available(b)
        <4>1. a \in 0..(Available(b) - 1)
          BY <1>1, <3>1, <3>3
        <4>2. f.buffer[a] = b.buffer[a]
          BY <1>6, <3>2, <3>3
        <4>3. b.buffer[a] = stream[fed - Available(b) + a + 1]
          BY <1>1, <4>1
        <4> QED
          BY <1>9, <3>1, <4>2, <4>3
      <3>4. CASE ~(a < Available(b))
        <4> DEFINE i == a - Available(b) + 1
        <4>1. f.buffer[a] = data[i]
          BY <1>6, <3>2, <3>4
        <4>2. i \in 1..n /\ fed + i = fed - Available(b) + a + 1
          <5>1. gain = 0 \/ gain = n
          BY DEF gain, Gain
        <5>2. Available(b) \in Nat /\ fed \in Nat /\ n \in Nat
          BY <1>1, <1>3
        <5>3. a < Available(b) + gain
          BY <1>6, <3>2, <5>1, <5>2
        <5> QED
          BY <3>1, <3>4, <5>1, <5>2, <5>3
        <4> HIDE DEF i
        <4>3. data[i] = stream[fed + i]
          BY <1>4, <4>2
        <4> QED
          BY <1>9, <3>1, <4>1, <4>2, <4>3
      <3> QED
        BY <3>3, <3>4
    <2> QED
      BY <1>3, <1>9, <2>1, <2>2 DEF BufferInv
  <1>11. Position' = Position
    <2>1. /\ Unconsumed(f) = Available(f) * BitsPerByte - Consumed(f)
          /\ Unconsumed(b) = Available(b) * BitsPerByte - Consumed(b)
          /\ Consumed(b) \in Nat
      BY <1>1, <1>6, Places
    <2>2. /\ (Available(b) + gain) * BitsPerByte
                 = Available(b) * BitsPerByte + gain * BitsPerByte
          /\ (fed + gain) * BitsPerByte = fed * BitsPerByte + gain * BitsPerByte
      BY <1>1, <1>3, <1>7, ReaderAssumption
    <2>3. /\ Available(b) * BitsPerByte \in Int /\ gain * BitsPerByte \in Int
          /\ fed * BitsPerByte \in Int
      BY <1>1, <1>3, <1>7, ReaderAssumption
    <2>4. Unconsumed(br') = Unconsumed(br) + gain * BitsPerByte
      BY <1>1, <1>6, <1>9, <2>1, <2>2, <2>3
    <2>5. fed' * BitsPerByte = fed * BitsPerByte + gain * BitsPerByte
      BY <1>2, <2>2
    <2>6. Unconsumed(br) \in Int
      BY SourcePosition
    <2> QED
      BY <2>3, <2>4, <2>5, <2>6 DEF Position
  <1>12. fed' \in 0..Len(stream)
    BY <1>2, <1>3, <1>7
  <1>13. SameLimit(br', br) /\ br'.last_seen_framesync = None
    BY <1>1, <1>6, <1>8 DEF SameLimit
  <1>14. Available(br') * BitsPerByte \in Nat
    BY <1>1, <1>7, <1>9, ReaderAssumption
  <1>15. fed' - Available(br') = fed - Available(b)
    BY <1>1, <1>2, <1>3, <1>7, <1>9
  <1> QED
    BY <1>8, <1>9, <1>10, <1>11, <1>12, <1>13, <1>14, <1>15 DEF b

LEMMA RefillKeepsBuffer ==
    ASSUME Inv, AfterRead, NEW n \in Nat, NEW ok \in BOOLEAN, Refill(n, ok)
    PROVE  /\ br' \in Readers(Byte) /\ BufferInv' /\ SameLimit(br', br)
           /\ br'.last_seen_framesync = None
           /\ Position' = Position /\ fed' \in 0..Len(stream)
           /\ Available(br') * BitsPerByte \in Nat
           /\ Consumed(br') = Consumed(BeforeRead(br))
           /\ fed' - Available(br') = fed - Available(BeforeRead(br))
  <1>1. Refilled(n, ok)
    <2> DEFINE b == BeforeRead(br)
               data == SubSeq(stream, fed + 1, fed + n)
               f == IF ok THEN Filled(b, data) ELSE NotFilled(b, data)
    <2>1. /\ n <= SpaceLeft(b) /\ fed + n <= Len(stream)
          /\ br' = Kept(f) /\ fed' = fed + Gain(n, ok)
      BY StreamIsBytes DEF Inv, Refill, Gain
    <2>2. UNCHANGED stream
      BY DEF AfterRead
    <2> HIDE DEF b, data, f
    <2>3. f \in Readers(Byte) =>
             /\ br' \in Readers(Byte) /\ SamePlace(br', f) /\ SameLimit(br', f)
             /\ br'.last_seen_framesync = f.last_seen_framesync
      BY <2>1, KeptSame
    <2> QED
      BY <2>1, <2>2, <2>3 DEF Refilled, b, data, f
  <1> QED
    BY <1>1, SourceRefilled DEF Inv, TypeInv, SourceTypes

LEMMA ClientIsCalled ==
    ASSUME Inv, call.todo # <<>>, AfterRead, NEW n \in Nat, NEW ok \in BOOLEAN,
           Refill(n, ok)
    PROVE  Inv'
  <1>1. /\ br' \in Readers(Byte) /\ BufferInv' /\ SameLimit(br', br)
        /\ br'.last_seen_framesync = None
        /\ Position' = Position /\ fed' \in 0..Len(stream)
    BY RefillKeepsBuffer
  <1>2. \/ ok /\ UNCHANGED call
        \/ ~ok /\ call' = Failed("client")
    BY DEF Refill
  <1>3. \/ UNCHANGED call /\ call'.todo # <<>>
        \/ call' \in Calls /\ call'.todo = <<>> /\ call'.end = "client"
    BY <1>2, Failing DEF Inv
  <1>4. call' \in Calls /\ frame' = frame
    BY <1>3 DEF Inv, TypeInv, AfterRead
  <1>5. TypeInv'
    BY <1>1, <1>4 DEF Inv, TypeInv, AfterRead, Unlimited
  <1>6. SyncInv'
    BY <1>1 DEF SyncInv, FramesyncInBuffer
  <1>7. CallInv'
    BY <1>3, <1>4 DEF Inv, CallInv
  <1>8. br'.read_limit_set = br.read_limit_set /\ br'.read_limit = br.read_limit
    BY <1>1 DEF SameLimit
  <1>9. ASSUME limitEnd # Unlimited, limitEnd' = limitEnd PROVE Within'
    <2>1. Within
      BY <1>9, LimitIsSet
    <2>2. CASE UNCHANGED call /\ call'.todo # <<>>
      BY <1>1, <1>8, <1>9, <2>1, <2>2 DEF Within, Pending, InBlockPart
    <2>3. CASE call'.todo = <<>>
      <3>1. Pending' = 0
        BY <2>3 DEF Pending
      <3>2. Pending \in Nat
        <4>1. Part \in Parts /\ Part.n \in Nat
          <5>1. Part \in Parts
            BY PartInHand DEF Inv
          <5>2. \A p \in Parts : p.n \in Nat
            BY KindsOfParts, Sizes
          <5> QED
            BY <5>1, <5>2
        <4> QED
          BY <4>1 DEF Pending, Part
      <3>3. br.read_limit \in Int /\ Position \in Int /\ limitEnd \in Int
        BY PositionIsBits DEF Inv, TypeInv, Readers
      <3>4. Position' + Pending' + br'.read_limit <= limitEnd'
        BY <1>1, <1>8, <1>9, <2>1, <3>1, <3>2, <3>3 DEF Within
      <3>5. 1..Len(call'.todo) = {}
        BY <2>3
      <3> QED
        BY <1>8, <2>1, <3>4, <3>5 DEF Within
    <2> QED
      BY <1>3, <2>2, <2>3
  <1>10. LimitInv'
    BY <1>8, <1>9, LimitKept
  <1> QED
    BY <1>1, <1>5, <1>6, <1>7, <1>10 DEF Inv

LEMMA ReadStepKeepsInv ==
    ASSUME Inv, ReadStep
    PROVE  Inv'
  <1>1. call.todo # <<>> /\ AfterRead
    BY DEF ReadStep, AfterRead
  <1>2. CASE UNCHANGED fed /\ DoRaw
    BY <1>1, <1>2, RawIsCharged
  <1>3. CASE UNCHANGED fed /\ DoBits
    BY <1>1, <1>3, BitsAreRead
  <1>4. CASE UNCHANGED fed /\ DoUnary
    BY <1>1, <1>4, UnaryIsRead
  <1>5. CASE UNCHANGED fed /\ DoBlock
    BY <1>1, <1>5, BlockBegins
  <1>6. CASE UNCHANGED fed /\ DoBlockByte
    BY <1>1, <1>6, BlockTakesByte
  <1>7. CASE UNCHANGED fed /\ DoBlockWord
    BY <1>1, <1>7, BlockTakesWord
  <1>8. CASE UNCHANGED fed /\ DoBlockEnd
    BY <1>1, <1>8, BlockEnds
  <1>9. ASSUME NEW n \in 0..(Capacity * BytesPerWord), NEW ok \in BOOLEAN, Refill(n, ok)
        PROVE  Inv'
    <2>1. n \in Nat
      BY Sizes DEF BufferBytes
    <2> QED
      BY <1>1, <1>9, <2>1, ClientIsCalled
  <1> QED
    BY <1>2, <1>3, <1>4, <1>5, <1>6, <1>7, <1>8, <1>9 DEF ReadStep

-------------------------------------------------------------------------------
(* What the decoder asks for preserves the invariant *)

LEMMA BeginKeepsInv ==
    ASSUME Inv, NEW want \in Int, NEW parts \in Seq(Parts), Begin(want, parts),
           \A i \in 1..Len(parts) :
              /\ parts[i].do # "bits" /\ parts[i].do # "inBlock"
              /\ frame # "search" => parts[i] \notin BlockParts
              /\ br.read_limit_set => parts[i].do # "unary"
    PROVE  Inv'
  <1>1. /\ call.todo = <<>>
        /\ call' = [want |-> want, todo |-> parts, got |-> <<>>, end |-> "ok",
                    from |-> Position]
        /\ UNCHANGED <<stream, fed, br, lastSync, frame, limitEnd>>
    BY DEF Begin, Ready, Between
  <1>2. call' \in Calls /\ call'.todo = parts
    <2>1. Position \in Int /\ <<>> \in Seq(Bit \cup Byte)
      BY PositionIsBits DEF Inv
    <2> QED
      BY <1>1, <2>1 DEF Calls
  <1>3. TypeInv'
    BY <1>1, <1>2 DEF Inv, TypeInv
  <1>4. BufferInv' /\ SyncInv'
    BY <1>1 DEF Inv, BufferInv, SyncInv
  <1>5. CallInv'
    BY <1>1, <1>2 DEF CallInv
  <1>6. ASSUME limitEnd # Unlimited PROVE Within'
    <2>1. Within /\ br.read_limit_set
      BY <1>6, LimitIsSet
    <2>2. Pending = 0
      BY <1>1 DEF Pending
    <2>3. Pending' = 0
      <3>1. CASE parts = <<>>
        BY <1>2, <3>1 DEF Pending
      <3>2. CASE parts # <<>>
        <4>1. Head(parts) = parts[1] /\ 1 \in 1..Len(parts)
          BY <3>2
        <4> QED
          BY <1>2, <3>2, <4>1 DEF Pending
      <3> QED
        BY <3>1, <3>2
    <2>4. Position' = Position
      BY <1>1 DEF Position
    <2>5. Position' + Pending' + br'.read_limit <= limitEnd'
      BY <1>1, <2>1, <2>2, <2>3, <2>4 DEF Within
    <2>6. \A i \in 1..Len(call'.todo) :
             call'.todo[i].do # "unary" /\ ~InBlockPart(i)'
      BY <1>2, <2>1 DEF InBlockPart
    <2> QED
      BY <1>1, <2>1, <2>5, <2>6 DEF Within
  <1>7. LimitInv'
    BY <1>1, <1>6 DEF Inv, LimitInv
  <1> QED
    BY <1>3, <1>4, <1>5, <1>7 DEF Inv

LEMMA ReadsBegin ==
    ASSUME Inv,
           \/ \E bits \in RawLengths : ReadRawUint32(bits)
           \/ \E bits \in LongLengths : ReadRawUint64(bits)
           \/ ReadUnary
    PROVE  Inv'
  <1>1. ASSUME NEW bits \in RawLengths, ReadRawUint32(bits) PROVE Inv'
    <2>1. bits \in 1..BitsPerWord /\ bits \in Int
      BY UseAssumption, Sizes
    <2>2. Raw(bits) \in Parts /\ Raw(bits).do = "raw" /\ Raw(bits) \notin BlockParts
      BY <2>1, NewParts
    <2>3. /\ <<Raw(bits)>> \in Seq(Parts)
          /\ \A i \in 1..Len(<<Raw(bits)>>) : <<Raw(bits)>>[i] = Raw(bits)
      BY <2>2
    <2> QED
      BY <1>1, <2>1, <2>2, <2>3, BeginKeepsInv DEF ReadRawUint32
  <1>2. ASSUME NEW bits \in LongLengths, ReadRawUint64(bits) PROVE Inv'
    <2> DEFINE high == bits - BitsPerWord
               parts == <<Raw(high), Raw(BitsPerWord)>>
    <2>1. /\ high \in 1..BitsPerWord /\ BitsPerWord \in 1..BitsPerWord
          /\ bits \in Int
      BY UseAssumption, Sizes
    <2>2. Begin(bits, parts)
      BY <1>2 DEF ReadRawUint64
    <2> HIDE DEF high
    <2>3. /\ Raw(high) \in Parts /\ Raw(high).do = "raw" /\ Raw(high) \notin BlockParts
          /\ Raw(BitsPerWord) \in Parts /\ Raw(BitsPerWord).do = "raw"
          /\ Raw(BitsPerWord) \notin BlockParts
      BY <2>1, NewParts
    <2>4. /\ parts \in Seq(Parts)
          /\ \A i \in 1..Len(parts) : parts[i] = Raw(high) \/ parts[i] = Raw(BitsPerWord)
      BY <2>3
    <2> HIDE DEF parts
    <2> QED
      BY <2>1, <2>2, <2>3, <2>4, BeginKeepsInv
  <1>3. ASSUME ReadUnary PROVE Inv'
    <2>1. UnaryPart \in Parts /\ UnaryPart.do = "unary" /\ UnaryPart \notin BlockParts
      BY DEF UnaryPart, Parts, UnaryParts, BlockParts
    <2>2. /\ <<UnaryPart>> \in Seq(Parts)
          /\ \A i \in 1..Len(<<UnaryPart>>) : <<UnaryPart>>[i] = UnaryPart
      BY <2>1
    <2>3. Unary \in Int /\ Begin(Unary, <<UnaryPart>>) /\ ~br.read_limit_set
      BY <1>3 DEF ReadUnary, Unary
    <2> QED
      BY <2>1, <2>2, <2>3, BeginKeepsInv
  <1> QED
    BY <1>1, <1>2, <1>3

LEMMA ByteIsPart ==
    /\ BitsPerByte \in 1..BitsPerWord /\ BitsPerByte <= BitsPerWord
    /\ \A k \in 1..BitsPerByte : k \in 1..BitsPerWord
  <1>1. 1 * BitsPerByte <= BytesPerWord * BitsPerByte
    BY ReaderAssumption
  <1>2. BitsPerByte <= BitsPerWord /\ BitsPerByte \in Nat \ {0} /\ BitsPerWord \in Nat
    BY <1>1, Sizes, ReaderAssumption
  <1> QED
    BY <1>2

LEMMA MetadataBegins ==
    ASSUME Inv, Metadata
    PROVE  Inv'
  <1> frame = "search"
    BY DEF Metadata
  <1> DEFINE Asked == {p \in Parts : p.do = "raw" \/ p.do = "block"}
  <1>1. ASSUME NEW want \in Int, NEW parts \in Seq(Parts \cap Asked), Begin(want, parts)
        PROVE  Inv'
    <2>1. parts \in Seq(Parts)
      OBVIOUS
    <2>2. \A i \in 1..Len(parts) : parts[i].do = "raw" \/ parts[i].do = "block"
      OBVIOUS
    <2> QED
      BY <1>1, <2>1, <2>2, BeginKeepsInv
  <1>2. ASSUME NEW nbytes \in BlockLengths, ReadByteBlock(nbytes) PROVE Inv'
    <2>1. nbytes \in Nat /\ 1 \in 1..BitsPerWord
      BY UseAssumption, Sizes
    <2>2. Block(nbytes) \in Parts \cap Asked
      BY <2>1, NewParts
    <2>3. <<Block(nbytes)>> \in Seq(Parts \cap Asked)
      BY <2>2
    <2>4. nbytes * BitsPerByte \in Int
      BY <2>1, ReaderAssumption
    <2> QED
      BY <1>1, <1>2, <2>3, <2>4 DEF ReadByteBlock
  <1>3. ASSUME NEW bits \in SkipLengths, SkipBits(bits) PROVE Inv'
    <2> DEFINE odd == br.consumed_bits % BitsPerByte
               head == IF odd = 0 THEN 0
                       ELSE IF BitsPerByte - odd < bits THEN BitsPerByte - odd ELSE bits
               nbytes == (bits - head) \div BitsPerByte
               tail == (bits - head) % BitsPerByte
               first == IF head > 0 THEN <<Raw(head)>> ELSE <<>>
               whole == IF nbytes > 0 THEN <<Block(nbytes)>> ELSE <<>>
               last == IF tail > 0 THEN <<Raw(tail)>> ELSE <<>>
    <2>1. bits \in Nat /\ br.consumed_bits \in Nat
      BY UseAssumption DEF Inv, TypeInv, Readers
    <2>2. odd \in 0..(BitsPerByte - 1)
      BY <2>1, Division, ReaderAssumption
    <2>3. Begin(bits, first \o whole \o last)
      BY <1>3 DEF SkipBits
    <2> HIDE DEF odd
    <2>4. head \in 0..BitsPerByte /\ bits - head \in Nat
      BY <2>1, <2>2, ReaderAssumption
    <2>5. nbytes \in Nat /\ tail \in 0..(BitsPerByte - 1)
      BY <2>4, Division, ReaderAssumption
    <2> HIDE DEF head, nbytes, tail
    <2>6. first \in Seq(Parts \cap Asked)
      <3>1. CASE head > 0
        <4>1. head \in 1..BitsPerWord
          BY <2>4, <3>1, ByteIsPart
        <4>2. Raw(head) \in Parts \cap Asked
          BY <4>1, NewParts
        <4> QED
          BY <3>1, <4>2
      <3>2. CASE ~(head > 0)
        BY <3>2
      <3> QED
        BY <3>1, <3>2
    <2>7. whole \in Seq(Parts \cap Asked)
      <3>1. CASE nbytes > 0
        <4>1. 1 \in 1..BitsPerWord
          BY Sizes
        <4>2. Block(nbytes) \in Parts \cap Asked
          BY <2>5, <4>1, NewParts
        <4> QED
          BY <3>1, <4>2
      <3>2. CASE ~(nbytes > 0)
        BY <3>2
      <3> QED
        BY <3>1, <3>2
    <2>8. last \in Seq(Parts \cap Asked)
      <3>1. CASE tail > 0
        <4>1. tail \in 1..BitsPerByte
          BY <2>5, <3>1, ReaderAssumption
        <4>2. tail \in 1..BitsPerWord
          BY <4>1, ByteIsPart
        <4>3. Raw(tail) \in Parts \cap Asked
          BY <4>2, NewParts
        <4> QED
          BY <3>1, <4>3
      <3>2. CASE ~(tail > 0)
        BY <3>2
      <3> QED
        BY <3>1, <3>2
    <2> HIDE DEF first, whole, last
    <2>9. first \o whole \o last \in Seq(Parts \cap Asked)
      BY <2>6, <2>7, <2>8
    <2>10. bits \in Int
      BY <2>1
    <2> HIDE DEF Asked
    <2> QED
      BY <1>1, <2>3, <2>9, <2>10, Zenon
  <1>4. ASSUME ReadUint32LittleEndian PROVE Inv'
    <2> DEFINE parts == [i \in 1..BytesPerWord |-> Raw(BitsPerByte)]
    <2>1. Raw(BitsPerByte) \in Parts \cap Asked
      BY ByteIsPart, NewParts
    <2>2. parts \in Seq(Parts \cap Asked)
      BY <2>1, ReaderAssumption
    <2>3. BitsPerWord \in Int /\ Begin(BitsPerWord, parts)
      BY <1>4, Sizes DEF ReadUint32LittleEndian
    <2> QED
      BY <1>1, <2>2, <2>3
  <1> QED
    BY <1>2, <1>3, <1>4 DEF Metadata

\* A reader that is still where it was, and remembers the sync it remembered.
Stands ==
    /\ br' \in Readers(Byte) /\ SamePlace(br', br)
    /\ br'.last_seen_framesync = br.last_seen_framesync

LEMMA StandingKeepsBuffer ==
    ASSUME Inv, Stands, frame' = frame, UNCHANGED <<stream, fed, lastSync>>
    PROVE  BufferInv' /\ SyncInv' /\ Position' = Position
  <1>1. /\ br'.buffer = br.buffer /\ Sane(br') /\ Sane(br)
        /\ Available(br)' = Available(br) /\ Consumed(br)' = Consumed(br)
        /\ Unconsumed(br)' = Unconsumed(br)
    BY SamePlaceSameMeasures DEF Stands, SamePlace, Inv, BufferInv
  <1>2. BufferInv'
    BY <1>1 DEF Inv, BufferInv
  <1>3. SyncInv'
    BY <1>1 DEF Inv, SyncInv, Stands, FramesyncInBuffer
  <1>4. Position' = Position
    BY <1>1 DEF Position
  <1> QED
    BY <1>2, <1>3, <1>4

LEMMA LimitBegins ==
    ASSUME Inv, NEW n \in LimitLengths, BlockLimit(n)
    PROVE  Inv'
  <1> DEFINE limit == n * BitsPerByte
  <1>1. /\ call.todo = <<>> /\ frame = "search" /\ br' = SetLimit(br, limit)
        /\ limitEnd' = Position + limit
        /\ UNCHANGED <<stream, fed, call, lastSync, frame>>
    BY DEF BlockLimit, Ready, Between
  <1>2. limit \in Nat /\ limit < None
    BY UseAssumption, ReaderAssumption
  <1> HIDE DEF limit
  <1>3. Stands /\ br'.read_limit_set = TRUE /\ br'.read_limit = limit
    <2>1. br \in Readers(Byte) /\ limit \in Int
      BY <1>2 DEF Inv, TypeInv
    <2>2. /\ SetLimit(br, limit) \in Readers(Byte) /\ SamePlace(SetLimit(br, limit), br)
          /\ SetLimit(br, limit).last_seen_framesync = br.last_seen_framesync
          /\ SetLimit(br, limit).read_limit_set = TRUE
          /\ SetLimit(br, limit).read_limit = limit
      BY <2>1 DEF SetLimit, Readers, SamePlace
    <2> QED
      BY <1>1, <2>2 DEF Stands
  <1>4. BufferInv' /\ SyncInv' /\ Position' = Position
    BY <1>1, <1>3, StandingKeepsBuffer
  <1>5. Position \in Int /\ limitEnd' \in Int
    BY <1>1, <1>2, PositionIsBits DEF Inv
  <1>6. TypeInv'
    BY <1>1, <1>3, <1>5 DEF Inv, TypeInv, Stands
  <1>7. CallInv'
    BY <1>1 DEF CallInv
  <1>8. Pending' = 0
    BY <1>1 DEF Pending
  <1>9. Within'
    <2>1. None \in Nat
      BY ReaderAssumption DEF None
    <2>2. limit \in 0..(None - 1)
      BY <1>2, <2>1
    <2>3. Position + 0 + limit <= Position + limit
      BY <1>2, <1>5
    <2>4. Position' + Pending' + br'.read_limit <= limitEnd'
      BY <1>1, <1>3, <1>4, <1>8, <2>3
    <2>5. 1..Len(call'.todo) = {}
      BY <1>1
    <2> QED
      BY <1>3, <2>2, <2>4, <2>5 DEF Within
  <1>10. LimitInv'
    BY <1>1, <1>3, <1>9 DEF LimitInv
  <1> QED
    BY <1>4, <1>6, <1>7, <1>10 DEF Inv

LEMMA LimitEnds ==
    ASSUME Inv, GiveUpBlock \/ EndBlock
    PROVE  Inv'
  <1>1. /\ call.todo = <<>>
        /\ br' = InvalidateLimit(br) \/ br' = RemoveLimit(br)
        /\ limitEnd' = Unlimited /\ br.read_limit_set
        /\ UNCHANGED <<stream, fed, call, lastSync, frame>>
    BY DEF GiveUpBlock, EndBlock, Ready, Between
  <1>2. Stands /\ br'.read_limit_set \in BOOLEAN
    <2>1. br \in Readers(Byte) /\ 0 \in Int
      BY DEF Inv, TypeInv
    <2>2. /\ InvalidateLimit(br) \in Readers(Byte) /\ SamePlace(InvalidateLimit(br), br)
          /\ InvalidateLimit(br).last_seen_framesync = br.last_seen_framesync
          /\ RemoveLimit(br) \in Readers(Byte) /\ SamePlace(RemoveLimit(br), br)
          /\ RemoveLimit(br).last_seen_framesync = br.last_seen_framesync
      BY <2>1, Limiting
    <2>3. Stands
      BY <1>1, <2>2 DEF Stands
    <2> QED
      BY <2>3 DEF Stands, Readers
  <1>3. BufferInv' /\ SyncInv'
    BY <1>1, <1>2, StandingKeepsBuffer
  <1>4. TypeInv'
    BY <1>1, <1>2 DEF Inv, TypeInv, Stands, Unlimited
  <1>5. CallInv'
    BY <1>1 DEF CallInv
  <1>6. LimitInv'
    <2>1. frame = "search"
      BY <1>1 DEF Inv, LimitInv, TypeInv
    <2> QED
      BY <1>1, <2>1 DEF LimitInv
  <1> QED
    BY <1>3, <1>4, <1>5, <1>6 DEF Inv

LEMMA SyncIsRemembered ==
    ASSUME Inv, FrameSync
    PROVE  Inv'
  <1> DEFINE b == SetFramesyncLocation(br)
  <1>1. /\ call.todo = <<>> /\ ~br.read_limit_set /\ ByteAligned(br)
        /\ br' = ResetReadCrc16(b, <<>>)
        /\ lastSync' = Position \div BitsPerByte /\ frame' = "header"
        /\ UNCHANGED <<stream, fed, call, limitEnd>>
    BY DEF FrameSync, Ready, Between
  <1>2. /\ b \in Readers(Byte) /\ SamePlace(b, br) /\ SameLimit(b, br)
        /\ b.last_seen_framesync \in Nat
        /\ b.last_seen_framesync * BitsPerByte = Consumed(br)
        /\ b.last_seen_framesync <= Available(br)
    BY <1>1, Remembering DEF Inv, TypeInv, BufferInv
  <1> HIDE DEF b
  <1>3. /\ br' \in Readers(Byte) /\ SamePlace(br', b) /\ SameLimit(br', b)
        /\ br'.last_seen_framesync = b.last_seen_framesync
    <2>1. <<>> \in Seq(Byte)
      OBVIOUS
    <2>2. LET c == ResetReadCrc16(b, <<>>) IN
          /\ c \in Readers(Byte) /\ SamePlace(c, b) /\ SameLimit(c, b)
          /\ c.last_seen_framesync = b.last_seen_framesync
      BY <1>2, <2>1, ResettingCrc
    <2> QED
      BY <1>1, <2>2
  <1> DEFINE at == b.last_seen_framesync
  <1>4. SamePlace(br', br) /\ br'.read_limit_set = FALSE
    BY <1>1, <1>2, <1>3 DEF SamePlace, SameLimit, Inv, TypeInv, Readers
  <1>5. /\ Available(br)' = Available(br) /\ Consumed(br)' = Consumed(br)
        /\ Sane(br') /\ br'.buffer = br.buffer
    BY <1>4, SamePlaceSameMeasures DEF Inv, BufferInv, SamePlace
  <1>6. BufferInv'
    BY <1>1, <1>5 DEF Inv, BufferInv
  <1>7. /\ fed \in Nat /\ fed <= Len(stream) /\ Available(br) \in Nat
        /\ Available(br) <= fed
    BY StreamIsBytes, PositionIsBits DEF Inv, TypeInv, BufferInv
  <1> DEFINE place == (fed - Available(br)) + at
  <1>8. place \in Nat /\ place <= fed
    BY <1>2, <1>7
  <1>9. Position = BitsPerByte * place + 0
    <2>1. Position = (fed - Available(br)) * BitsPerByte + at * BitsPerByte
      BY <1>2, PositionIsBits, PositionIsInStream DEF Inv
    <2>2. \A j, k \in Nat : j * BitsPerByte + k * BitsPerByte = BitsPerByte * (j + k) + 0
      BY ReaderAssumption
    <2>3. fed - Available(br) \in Nat
      BY <1>7
    <2> QED
      BY <1>2, <2>1, <2>2, <2>3
  <1> HIDE DEF place
  <1>10. lastSync' = place
    <2>1. 0 \in 0..(BitsPerByte - 1)
      BY ReaderAssumption
    <2>2. (BitsPerByte * place + 0) \div BitsPerByte = place
      BY <1>8, <2>1, DivisionIsUnique, ReaderAssumption
    <2> QED
      BY <1>1, <1>9, <2>2
  <1>11. SyncInv'
    <2>1. /\ br'.last_seen_framesync <= Available(br)'
          /\ br'.last_seen_framesync * BitsPerByte <= Consumed(br)'
      BY <1>2, <1>3, <1>5, PositionIsBits DEF Inv
    <2>2. fed' - Available(br)' + br'.last_seen_framesync = lastSync'
      BY <1>1, <1>3, <1>5, <1>10 DEF place
    <2>3. frame' \notin {"body", "footer"}
      BY <1>1
    <2> QED
      BY <2>1, <2>2, <2>3 DEF SyncInv
  <1>12. TypeInv'
    <2>1. lastSync' \in 0..Len(stream)
      BY <1>7, <1>8, <1>10, StreamIsBytes DEF Inv
    <2> QED
      BY <1>1, <1>3, <2>1 DEF Inv, TypeInv
  <1>13. CallInv'
    BY <1>1 DEF CallInv
  <1>14. LimitInv'
    BY <1>1, <1>4 DEF Inv, LimitInv
  <1> QED
    BY <1>6, <1>11, <1>12, <1>13, <1>14 DEF Inv

LEMMA CrcIsTaken ==
    ASSUME Inv, FrameCrc
    PROVE  Inv'
  <1>1. /\ frame = "body" /\ br' = GetReadCrc16(br)
        /\ call' = [NoCall EXCEPT !.want = Crc, !.got = br'.read_crc16]
        /\ frame' = "footer"
        /\ UNCHANGED <<stream, fed, lastSync, limitEnd>>
    BY DEF FrameCrc
  <1>2. Stands /\ br'.read_limit_set = br.read_limit_set
    BY <1>1, GetCrcKeepsPlace DEF Stands, Inv, TypeInv, BufferInv, SameLimit
  <1>3. ~br.read_limit_set /\ limitEnd = Unlimited
    BY <1>1 DEF Inv, LimitInv
  <1>4. /\ br'.buffer = br.buffer /\ Sane(br') /\ Available(br)' = Available(br)
    BY <1>2, SamePlaceSameMeasures DEF Stands, SamePlace, Inv, BufferInv
  <1>5. BufferInv'
    BY <1>1, <1>4 DEF Inv, BufferInv
  <1>6. SyncInv'
    BY <1>1, <1>2, <1>4 DEF Inv, SyncInv, Stands, FramesyncInBuffer
  <1>7. call' \in Calls /\ call'.todo = <<>>
    <2>1. call' = [want |-> Crc, todo |-> <<>>, got |-> br'.read_crc16, end |-> "ok",
                   from |-> 0]
      BY <1>1 DEF NoCall
    <2>2. br'.read_crc16 \in Seq(Byte)
      BY <1>2 DEF Stands, Readers
    <2>3. br'.read_crc16 \in Seq(Bit \cup Byte)
      BY <2>2
    <2>4. Crc \in Int /\ <<>> \in Seq(Parts)
      BY DEF Crc
    <2> QED
      BY <2>1, <2>3, <2>4 DEF Calls
  <1>8. TypeInv'
    BY <1>1, <1>2, <1>7 DEF Inv, TypeInv, Stands
  <1>9. CallInv'
    BY <1>7 DEF CallInv
  <1>10. LimitInv'
    BY <1>1, <1>2, <1>3 DEF LimitInv
  <1> QED
    BY <1>5, <1>6, <1>8, <1>9, <1>10 DEF Inv

LEMMA SearchIsResumed ==
    ASSUME Inv, BadHeader \/ GoodFrame
    PROVE  Inv'
  <1>1. /\ call.todo = <<>> /\ frame \in {"header", "footer"} /\ frame' = "search"
        /\ UNCHANGED <<stream, fed, br, call, lastSync, limitEnd>>
    BY DEF BadHeader, GoodFrame, Ready, Between
  <1>2. TypeInv' /\ BufferInv' /\ SyncInv'
    BY <1>1 DEF Inv, TypeInv, BufferInv, SyncInv
  <1>3. CallInv'
    BY <1>1 DEF CallInv
  <1>4. LimitInv'
    BY <1>1 DEF Inv, LimitInv
  <1> QED
    BY <1>2, <1>3, <1>4 DEF Inv

\* After Clear, wherever in the stream the client is
LEMMA ClearedReader ==
    ASSUME TypeInv, NEW b \in Readers(Byte), br' = Clear(b),
           fed' \in 0..Len(stream), lastSync' \in 0..Len(stream),
           call' \in Calls, call'.todo = <<>>, frame' = "search",
           limitEnd' = Unlimited, stream' = stream
    PROVE  Inv'
  <1>1. /\ br' \in Readers(Byte) /\ Sane(br') /\ Available(br') = 0
        /\ br'.read_limit_set = FALSE /\ br'.last_seen_framesync = None
    BY Clearing
  <1>2. TypeInv'
    BY <1>1 DEF TypeInv, Unlimited
  <1>3. BufferInv'
    BY <1>1 DEF BufferInv
  <1>4. SyncInv'
    BY <1>1 DEF SyncInv, FramesyncInBuffer
  <1>5. CallInv'
    BY DEF CallInv
  <1>6. LimitInv'
    BY <1>1 DEF LimitInv
  <1> QED
    BY <1>2, <1>3, <1>4, <1>5, <1>6 DEF Inv

LEMMA FrameIsRewound ==
    ASSUME Inv, BadFrame
    PROVE  Inv'
  <1> DEFINE b == RewindToAfterLastSeenFramesync(br)
  <1>1. /\ call.todo = <<>> /\ frame \in {"body", "footer"} /\ frame' = "search"
        /\ UNCHANGED <<stream, call, lastSync, limitEnd>>
        /\ FramesyncInBuffer(br) => br' = b /\ UNCHANGED fed
        /\ ~FramesyncInBuffer(br) => br' = Clear(b) /\ fed' = lastSync
    BY DEF BadFrame, Between
  <1>2. FramesyncInBuffer(br) => br.last_seen_framesync + 1 <= Available(br)
    <2>1. FramesyncInBuffer(br) => br.last_seen_framesync < Available(br)
      BY <1>1 DEF Inv, SyncInv
    <2>2. br.last_seen_framesync \in Nat /\ Available(br) \in Nat
      BY PositionIsBits DEF Inv, TypeInv, Readers
    <2> QED
      BY <2>1, <2>2
  <1>3. /\ b \in Readers(Byte) /\ Sane(b) /\ SameLimit(b, br)
        /\ b.buffer = br.buffer /\ b.last_seen_framesync = br.last_seen_framesync
        /\ Available(b) = Available(br)
    BY <1>2, Rewinding DEF Inv, TypeInv, BufferInv
  <1> HIDE DEF b
  <1>4. limitEnd = Unlimited /\ ~br.read_limit_set
    BY <1>1 DEF Inv, LimitInv
  <1>5. CASE FramesyncInBuffer(br)
    <2>1. /\ br' = b /\ UNCHANGED fed
      BY <1>1, <1>5
    <2>2. TypeInv'
      BY <1>1, <1>3, <2>1 DEF Inv, TypeInv
    <2>3. BufferInv'
      BY <1>1, <1>3, <2>1 DEF Inv, BufferInv
    <2>4. SyncInv'
      BY <1>1, <1>3, <2>1 DEF Inv, SyncInv, FramesyncInBuffer
    <2>5. CallInv'
      BY <1>1 DEF CallInv
    <2>6. LimitInv'
      BY <1>1, <1>3, <1>4, <2>1 DEF LimitInv, SameLimit
    <2> QED
      BY <2>2, <2>3, <2>4, <2>5, <2>6 DEF Inv
  <1>6. CASE ~FramesyncInBuffer(br)
    <2>1. /\ br' = Clear(b) /\ fed' = lastSync
      BY <1>1, <1>6
    <2>2. /\ fed' \in 0..Len(stream) /\ lastSync' \in 0..Len(stream)
          /\ call' \in Calls /\ call'.todo = <<>> /\ TypeInv
      BY <1>1, <2>1 DEF Inv, TypeInv
    <2> QED
      BY <1>1, <1>3, <1>4, <2>1, <2>2, ClearedReader
  <1> QED
    BY <1>5, <1>6

LEMMA SeekClears ==
    ASSUME Inv, NEW p \in SeekPoints, SeekTo(p)
    PROVE  Inv'
  <1>1. /\ ~br.read_limit_set /\ p <= Len(stream)
        /\ br' = Clear(br) /\ fed' = p /\ lastSync' = 0
        /\ call' = NoCall /\ frame' = "search"
        /\ UNCHANGED <<stream, limitEnd>>
    BY DEF SeekTo
  <1>2. Len(stream) \in Nat /\ p \in Nat
    BY StreamIsBytes, UseAssumption DEF Inv
  <1>3. fed' \in 0..Len(stream) /\ lastSync' \in 0..Len(stream)
    BY <1>1, <1>2
  <1>4. NoCall \in Calls /\ NoCall.todo = <<>>
    BY DEF NoCall, Calls
  <1>5. limitEnd' = Unlimited
    BY <1>1 DEF Inv, LimitInv
  <1>6. br \in Readers(Byte) /\ TypeInv
    BY DEF Inv, TypeInv
  <1> QED
    BY <1>1, <1>3, <1>4, <1>5, <1>6, ClearedReader

LEMMA NewSource ==
    ASSUME stream \in Streams, fed = 0, br = NewReader
    PROVE  /\ SourceTypes /\ BufferInv /\ Len(stream) \in Nat
           /\ br.read_limit_set = FALSE /\ br.last_seen_framesync = None
  <1>1. stream \in Seq([1..BitsPerByte -> {0, 1}])
    BY StreamAssumption
  <1>2. Len(stream) \in Nat
    BY <1>1
  <1>3. /\ br \in Readers(Byte) /\ br.words = 0 /\ br.bytes = 0
        /\ br.consumed_words = 0 /\ br.consumed_bits = 0
        /\ br.read_limit_set = FALSE /\ br.last_seen_framesync = None
    <2>1. Unwritten \in Byte
      BY DEF Unwritten, Byte, Bit
    <2>2. None \in Nat
      BY ReaderAssumption DEF None
    <2>3. [a \in Addr |-> Unwritten] \in [Addr -> Byte]
      BY <2>1
    <2> QED
      BY <2>2, <2>3 DEF NewReader, Readers
  <1>4. Available(br) = 0 /\ Consumed(br) = 0
    BY <1>3, Sizes, ReaderAssumption DEF Available, Consumed
  <1>5. Sane(br)
    BY <1>3, <1>4, Sizes, ReaderAssumption DEF Sane
  <1>6. SourceTypes
    BY <1>2, <1>3 DEF SourceTypes
  <1>7. BufferInv
    BY <1>4, <1>5 DEF BufferInv
  <1> QED
    BY <1>2, <1>3, <1>6, <1>7

LEMMA InitHolds ==
    ASSUME Init
    PROVE  Inv
  <1>1. /\ stream \in Streams /\ fed = 0 /\ br = NewReader /\ call = NoCall
        /\ lastSync = 0 /\ frame = "search" /\ limitEnd = Unlimited
    BY DEF Init
  <1>2. /\ SourceTypes /\ BufferInv /\ Len(stream) \in Nat
        /\ br.read_limit_set = FALSE /\ br.last_seen_framesync = None
    BY <1>1, NewSource
  <1>3. NoCall \in Calls /\ NoCall.todo = <<>>
    BY DEF NoCall, Calls
  <1>4. TypeInv
    BY <1>1, <1>2, <1>3 DEF TypeInv, SourceTypes, Unlimited
  <1>5. SyncInv
    BY <1>2 DEF SyncInv, FramesyncInBuffer
  <1>6. CallInv
    BY <1>1, <1>3 DEF CallInv
  <1>7. LimitInv
    BY <1>1, <1>2 DEF LimitInv
  <1> QED
    BY <1>2, <1>4, <1>5, <1>6, <1>7 DEF Inv

LEMMA NextKeepsInv ==
    ASSUME Inv, [Next]_vars
    PROVE  Inv'
  <1>1. CASE ReadStep
    BY <1>1, ReadStepKeepsInv
  <1>2. CASE \/ \E bits \in RawLengths : ReadRawUint32(bits)
             \/ \E bits \in LongLengths : ReadRawUint64(bits)
             \/ ReadUnary
    BY <1>2, ReadsBegin
  <1>3. CASE Metadata
    BY <1>3, MetadataBegins
  <1>4. CASE \E n \in LimitLengths : BlockLimit(n)
    BY <1>4, LimitBegins
  <1>5. CASE GiveUpBlock \/ EndBlock
    BY <1>5, LimitEnds
  <1>6. CASE FrameSync
    BY <1>6, SyncIsRemembered
  <1>7. CASE BadHeader \/ GoodFrame
    BY <1>7, SearchIsResumed
  <1>8. CASE FrameCrc
    BY <1>8, CrcIsTaken
  <1>9. CASE BadFrame
    BY <1>9, FrameIsRewound
  <1>10. CASE \E p \in SeekPoints : SeekTo(p)
    BY <1>10, SeekClears
  <1>11. CASE UNCHANGED vars
    <2>1. UNCHANGED <<stream, fed, br, call, lastSync, frame, limitEnd>>
      BY <1>11 DEF vars
    <2>2. TypeInv' /\ BufferInv' /\ SyncInv' /\ CallInv'
      BY <2>1 DEF Inv, TypeInv, BufferInv, SyncInv, CallInv
    <2>3. LimitInv'
      BY <2>1 DEF Inv, LimitInv, Within, Pending, Position, InBlockPart
    <2> QED
      BY <2>2, <2>3 DEF Inv
  <1> QED
    BY <1>1, <1>2, <1>3, <1>4, <1>5, <1>6, <1>7, <1>8, <1>9, <1>10, <1>11 DEF Next

-------------------------------------------------------------------------------
(* What holds of every run *)

\* Every run of the reader with its client and its decoder keeps what the proof of the
\* others rests on: the buffer is in order, the remembered sync lies in it, and what is
\* left of a limit is no more than the bytes in front of its end.
THEOREM InductiveInvariant == Spec => []Inv
  <1>1. Init => Inv
    BY InitHolds
  <1>2. Inv /\ [Next]_vars => Inv'
    BY NextKeepsInv
  <1> QED
    BY <1>1, <1>2, PTL DEF Spec

LEMMA InvHoldsStream ==
    ASSUME Inv
    PROVE  BufferHoldsStream
  <1>1. br \in Readers(Byte) /\ Sane(br)
    BY DEF Inv, TypeInv, BufferInv
  <1>2. Available(br) <= Capacity * BytesPerWord
    BY <1>1 DEF Sane, BufferBytes
  <1>3. br.consumed_words <= br.words
    BY <1>1, SaneWords
  <1>4. Unconsumed(br) >= 0
    BY PositionIsInStream DEF Inv
  <1> QED
    BY <1>2, <1>3, <1>4 DEF Inv, BufferInv, SyncInv, BufferHoldsStream

\* The buffer holds the last bytes that the client delivered, in order and each once,
\* through every shift, swap, failure of the client and rewind, no more of them is
\* consumed than there is, and a remembered sync is where it was (bitreader.c,
\* bitreader_read_from_client_ and bitreader_rewind_to_after_last_seen_framesync).
THEOREM BufferAlwaysHoldsStream == Spec => []BufferHoldsStream
  <1>1. Inv => BufferHoldsStream
    BY InvHoldsStream
  <1> QED
    BY <1>1, InductiveInvariant, PTL

\* While a metadata block is read under its limit no read of any kind gets past the end
\* of the block (bitreader.c, read_limit).
THEOREM LimitAlwaysRespected == Spec => []LimitRespected
  <1>1. Inv => LimitRespected
    <2> SUFFICES ASSUME Inv, limitEnd # Unlimited PROVE Position <= limitEnd
      BY DEF LimitRespected
    <2>1. Within
      BY DEF Inv, LimitInv
    <2>2. Pending \in Nat
      <3>1. CASE call.todo # <<>> /\ Head(call.todo).do = "bits"
        BY <3>1, PartInHand, KindsOfParts, Sizes DEF Pending, Part, Inv
      <3> QED
        BY <3>1 DEF Pending
    <2>3. br.read_limit \in Nat /\ Position + Pending + br.read_limit <= limitEnd
      BY <2>1, ReaderAssumption DEF Within, None
    <2>4. Position \in Int /\ limitEnd \in Int
      BY PositionIsBits DEF Inv, TypeInv
    <2> QED
      BY <2>2, <2>3, <2>4
  <1> QED
    BY <1>1, InductiveInvariant, PTL

LEMMA RoomWhenWanting ==
    ASSUME Inv, call.todo # <<>>, WantsMore
    PROVE  SpaceLeft(BeforeRead(br)) > 0
  <1> DEFINE b == BeforeRead(br)
  <1>1. /\ b \in Readers(Byte) /\ Available(b) \in Nat
        /\ Unconsumed(b) = Unconsumed(br) /\ SpaceLeft(b) = BufferBytes - Available(b)
    BY ShiftedBuffer DEF Inv
  <1>2. b.consumed_words = 0 /\ b.consumed_bits = br.consumed_bits
    BY Shifting DEF Inv, TypeInv, BufferInv
  <1>3. br.consumed_bits \in Nat /\ br.consumed_bits < BitsPerWord
    BY DEF Inv, TypeInv, BufferInv, Readers, Sane
  <1>4. Consumed(b) = br.consumed_bits
    BY <1>2, <1>3, Sizes DEF Consumed
  <1>5. Unconsumed(br) = Available(b) * BitsPerByte - br.consumed_bits
    BY <1>1, <1>4, Places
  <1>6. Unconsumed(br) < BitsPerWord
    <2>1. CASE Part.do = "bits" /\ Unconsumed(br) < Part.n
      <3>1. Part.n \in 1..BitsPerWord
        BY <2>1, PartInHand, KindsOfParts DEF Inv
      <3> QED
        BY <2>1, <3>1, PositionIsBits, Sizes DEF Inv
    <2>2. CASE Part.do = "inBlock" /\ WholeWords /\ br.consumed_words >= br.words
      <3>1. br.consumed_bits = 0 /\ br.consumed_words = br.words
        BY <2>2, SaneWords DEF WholeWords, Inv, TypeInv, BufferInv, Readers
      <3>2. /\ br.words \in Nat /\ br.bytes \in Nat /\ br.bytes < BytesPerWord
        BY DEF Inv, TypeInv, BufferInv, Readers, Sane
      <3>3. Unconsumed(br) = br.bytes * BitsPerByte
        <4>1. br.words - br.consumed_words = 0
          BY <3>1, <3>2
        <4>2. br.bytes * BitsPerByte \in Nat /\ 0 * BitsPerWord = 0
          BY <3>2, ReaderAssumption, Sizes
        <4> QED
          BY <3>1, <4>1, <4>2 DEF Unconsumed
      <3>4. br.bytes * BitsPerByte < BytesPerWord * BitsPerByte
        BY <3>2, ReaderAssumption
      <3> QED
        BY <3>3, <3>4 DEF BitsPerWord
    <2>3. CASE Part.do = "unary" /\ Unconsumed(br) = 0
      BY <2>3, Sizes
    <2> QED
      BY <2>1, <2>2, <2>3 DEF WantsMore
  <1>7. Available(b) * BitsPerByte < 2 * BitsPerWord
    <2>1. Available(b) * BitsPerByte \in Nat /\ Unconsumed(br) \in Int
      BY <1>1, ReaderAssumption, PositionIsBits DEF Inv
    <2> HIDE DEF b
    <2> QED
      BY <1>3, <1>5, <1>6, <2>1, Sizes
  <1> HIDE DEF b
  <1>8. 2 * BitsPerWord = (2 * BytesPerWord) * BitsPerByte
    BY ReaderAssumption DEF BitsPerWord
  <1>9. \A j, k \in Nat : j * BitsPerByte < k * BitsPerByte => j < k
    BY ReaderAssumption
  <1>10. Available(b) < 2 * BytesPerWord
    <2>1. 2 * BytesPerWord \in Nat
      BY ReaderAssumption
    <2> QED
      BY <1>1, <1>7, <1>8, <1>9, <2>1
  <1>11. 2 * BytesPerWord <= Capacity * BytesPerWord
    BY UseAssumption, ReaderAssumption
  <1>12. SpaceLeft(b) > 0
    BY <1>1, <1>10, <1>11, ReaderAssumption DEF BufferBytes
  <1> QED
    BY <1>12 DEF b

\* When a function asks the client for more there is room in the buffer, once the consumed
\* words are out of it, for every capacity of two words or more: the read never fails
\* because the buffer is too small (bitreader.c, bitreader_read_from_client_).
THEOREM BufferNeverFull == Spec => []BufferNeverTooSmall
  <1>1. Inv => BufferNeverTooSmall
    BY RoomWhenWanting DEF BufferNeverTooSmall
  <1> QED
    BY <1>1, InductiveInvariant, PTL

-------------------------------------------------------------------------------
(* The parts of a read and what they lead to *)

\* The bits that a part of a read asks for
PartBits(p) == IF p.do \in {"block", "inBlock"} THEN p.n * BitsPerByte ELSE p.n

\* After a bits of a read the parts take it to z; ends says where each of them ends.
Lead(ends, parts, a, z) ==
    /\ ends \in [0..Len(parts) -> Nat]
    /\ ends[0] = a /\ ends[Len(parts)] = z
    /\ \A i \in 1..Len(parts) :
          parts[i].do # "unary" /\ ends[i] = ends[i - 1] + PartBits(parts[i])
Leads(parts, a, z) == \E ends : Lead(ends, parts, a, z)

\* No parts lead nowhere.
LEMMA NoPartsLead ==
    /\ \A a \in Nat : Leads(<<>>, a, a)
    /\ \A a, z : Leads(<<>>, a, z) => a = z
  <1>1. ASSUME NEW a \in Nat PROVE Leads(<<>>, a, a)
    <2> DEFINE ends == [i \in 0..0 |-> a]
    <2>1. Lead(ends, <<>>, a, a)
      BY DEF Lead
    <2> QED
      BY <2>1 DEF Leads
  <1>2. ASSUME NEW a, NEW z, Leads(<<>>, a, z) PROVE a = z
    BY <1>2 DEF Leads, Lead
  <1> QED
    BY <1>1, <1>2

\* One part leads as far as its bits.
LEMMA OnePartLeads ==
    ASSUME NEW p, p.do # "unary", PartBits(p) \in Nat, NEW a \in Nat
    PROVE  Leads(<<p>>, a, a + PartBits(p))
  <1> DEFINE b == PartBits(p)
             ends == [i \in 0..1 |-> IF i = 0 THEN a ELSE a + b]
  <1>1. b \in Nat
    OBVIOUS
  <1> HIDE DEF b
  <1>2. /\ ends \in [0..1 -> Nat] /\ ends[0] = a /\ ends[1] = a + b
    BY <1>1
  <1> HIDE DEF ends
  <1>3. Len(<<p>>) = 1 /\ <<p>>[1] = p
    OBVIOUS
  <1>4. \A i \in 1..1 : <<p>>[i].do # "unary" /\ ends[i] = ends[i - 1] + PartBits(<<p>>[i])
    BY <1>2, <1>3 DEF b
  <1>5. Lead(ends, <<p>>, a, a + b)
    BY <1>2, <1>3, <1>4 DEF Lead
  <1> QED
    BY <1>5 DEF Leads, b

\* Parts behind parts lead on from where those end.
LEMMA JoinedLead ==
    ASSUME NEW S, NEW s \in Seq(S), NEW t \in Seq(S), NEW a, NEW m, NEW z,
           Leads(s, a, m), Leads(t, m, z)
    PROVE  Leads(s \o t, a, z)
  <1>1. PICK e : Lead(e, s, a, m)
    BY DEF Leads
  <1>2. PICK f : Lead(f, t, m, z)
    BY DEF Leads
  <1> DEFINE k == Len(s)
             l == Len(t)
             both == s \o t
             ends == [i \in 0..(k + l) |-> IF i <= k THEN e[i] ELSE f[i - k]]
  <1>3. /\ k \in Nat /\ l \in Nat /\ Len(both) = k + l
        /\ \A i \in 1..(k + l) : both[i] = IF i <= k THEN s[i] ELSE t[i - k]
    OBVIOUS
  <1>4. /\ e \in [0..k -> Nat] /\ e[0] = a /\ e[k] = m
        /\ \A i \in 1..k : s[i].do # "unary" /\ e[i] = e[i - 1] + PartBits(s[i])
    BY <1>1 DEF Lead
  <1>5. /\ f \in [0..l -> Nat] /\ f[0] = m /\ f[l] = z
        /\ \A i \in 1..l : t[i].do # "unary" /\ f[i] = f[i - 1] + PartBits(t[i])
    BY <1>2 DEF Lead
  <1> HIDE DEF k, l, both
  <1>6. ends \in [0..(k + l) -> Nat]
    <2> SUFFICES ASSUME NEW i \in 0..(k + l)
                 PROVE  (IF i <= k THEN e[i] ELSE f[i - k]) \in Nat
      OBVIOUS
    <2>1. CASE i <= k
      BY <1>3, <1>4, <2>1
    <2>2. CASE ~(i <= k)
      <3>1. i - k \in 0..l
        BY <1>3, <2>2
      <3> QED
        BY <1>5, <2>2, <3>1
    <2> QED
      BY <2>1, <2>2
  <1>7. \A i \in 0..(k + l) : ends[i] = IF i <= k THEN e[i] ELSE f[i - k]
    OBVIOUS
  <1> HIDE DEF ends
  <1>8. ends[0] = a
    BY <1>3, <1>4, <1>7
  <1>9. ends[k + l] = z
    <2>1. CASE l = 0
      <3>1. k + l = k /\ k \in 0..(k + l)
        BY <1>3, <2>1
      <3> QED
        BY <1>3, <1>4, <1>5, <1>7, <2>1, <3>1
    <2>2. CASE l # 0
      <3>1. k + l \in 0..(k + l) /\ ~(k + l <= k) /\ (k + l) - k = l
        BY <1>3, <2>2
      <3> QED
        BY <1>5, <1>7, <3>1
    <2> QED
      BY <2>1, <2>2
  <1>10. ASSUME NEW i \in 1..(k + l)
         PROVE  both[i].do # "unary" /\ ends[i] = ends[i - 1] + PartBits(both[i])
    <2>1. i \in 0..(k + l) /\ i - 1 \in 0..(k + l)
      BY <1>3
    <2>2. CASE i <= k
      <3>1. i \in 1..k /\ i - 1 <= k
        BY <1>3, <2>2
      <3>2. ends[i] = e[i] /\ ends[i - 1] = e[i - 1] /\ both[i] = s[i]
        BY <1>3, <1>7, <2>1, <2>2, <3>1
      <3> QED
        BY <1>4, <3>1, <3>2
    <2>3. CASE ~(i <= k)
      <3>1. i - k \in 1..l
        BY <1>3, <2>3
      <3>2. ends[i] = f[i - k] /\ both[i] = t[i - k]
        BY <1>3, <1>7, <2>1, <2>3
      <3>3. ends[i - 1] = f[(i - k) - 1]
        <4>1. CASE i - 1 <= k
          <5>1. i - 1 = k /\ (i - k) - 1 = 0
            BY <1>3, <2>3, <4>1
          <5> QED
            BY <1>4, <1>5, <1>7, <2>1, <4>1, <5>1
        <4>2. CASE ~(i - 1 <= k)
          <5>1. (i - 1) - k = (i - k) - 1
            BY <1>3
          <5> QED
            BY <1>7, <2>1, <4>2, <5>1
        <4> QED
          BY <4>1, <4>2
      <3> QED
        BY <1>5, <3>1, <3>2, <3>3
    <2> QED
      BY <2>2, <2>3
  <1>11. Lead(ends, both, a, z)
    BY <1>3, <1>6, <1>8, <1>9, <1>10 DEF Lead
  <1> QED
    BY <1>11 DEF Leads, both

\* Behind the first part the others lead on to the same end.
LEMMA RestLeads ==
    ASSUME NEW S, NEW s \in Seq(S), s # <<>>, NEW a, NEW z, Leads(s, a, z)
    PROVE  /\ Leads(Tail(s), a + PartBits(s[1]), z)
           /\ s[1].do # "unary" /\ a \in Nat /\ z \in Nat
  <1>1. PICK e : Lead(e, s, a, z)
    BY DEF Leads
  <1> DEFINE k == Len(s)
             rest == Tail(s)
             ends == [i \in 0..(k - 1) |-> e[i + 1]]
  <1>2. /\ k \in Nat /\ k > 0 /\ Len(rest) = k - 1
        /\ \A i \in 1..(k - 1) : rest[i] = s[i + 1]
    OBVIOUS
  <1>3. /\ e \in [0..k -> Nat] /\ e[0] = a /\ e[k] = z
        /\ \A i \in 1..k : s[i].do # "unary" /\ e[i] = e[i - 1] + PartBits(s[i])
    BY <1>1 DEF Lead
  <1> HIDE DEF k, rest
  <1>4. ends \in [0..(k - 1) -> Nat] /\ \A i \in 0..(k - 1) : ends[i] = e[i + 1]
    <2>1. \A i \in 0..(k - 1) : i + 1 \in 0..k
      BY <1>2
    <2> QED
      BY <1>3, <2>1
  <1> HIDE DEF ends
  <1>5. ends[0] = a + PartBits(s[1]) /\ s[1].do # "unary"
    <2>1. 0 \in 0..(k - 1) /\ 1 \in 1..k /\ 0 + 1 = 1 /\ 1 - 1 = 0
      BY <1>2
    <2> QED
      BY <1>3, <1>4, <2>1
  <1>6. ends[k - 1] = z
    <2>1. k - 1 \in 0..(k - 1) /\ (k - 1) + 1 = k
      BY <1>2
    <2> QED
      BY <1>3, <1>4, <2>1
  <1>7. ASSUME NEW i \in 1..(k - 1)
        PROVE  rest[i].do # "unary" /\ ends[i] = ends[i - 1] + PartBits(rest[i])
    <2>1. i \in 0..(k - 1) /\ i - 1 \in 0..(k - 1) /\ i + 1 \in 1..k
          /\ (i - 1) + 1 = i /\ (i + 1) - 1 = i
      BY <1>2
    <2>2. ends[i] = e[i + 1] /\ ends[i - 1] = e[i] /\ rest[i] = s[i + 1]
      BY <1>2, <1>4, <2>1
    <2>3. s[i + 1].do # "unary" /\ e[i + 1] = e[i] + PartBits(s[i + 1])
      BY <1>3, <2>1
    <2> QED
      BY <2>2, <2>3
  <1>8. Lead(ends, rest, a + PartBits(s[1]), z)
    BY <1>2, <1>4, <1>5, <1>6, <1>7 DEF Lead
  <1>9. a \in Nat /\ z \in Nat
    <2>1. 0 \in 0..k /\ k \in 0..k
      BY <1>2
    <2> QED
      BY <1>3, <2>1
  <1> QED
    BY <1>5, <1>8, <1>9 DEF Leads, rest

-------------------------------------------------------------------------------
(* What a step of a read takes *)

\* What the running CRC is made of is what it was.
SameCrc ==
    /\ br'.read_crc16 = br.read_crc16
    /\ br'.crc16_offset = br.crc16_offset /\ br'.crc16_align = br.crc16_align

\* The part in hand takes n bits and leaves parts in its place.
Takes(n, bits, parts) ==
    /\ Part.do # "unary" => \A a \in Nat : Leads(parts, a + n, a + PartBits(Part))
    /\ call'.want = call.want /\ call'.end = call.end /\ call'.from = call.from
    /\ call'.todo = parts \o Tail(call.todo) /\ call'.got = call.got \o bits
    /\ parts \in Seq(Parts) /\ n \in Nat
    /\ bits \in Seq({0, 1}) /\ Len(bits) = n
    /\ \A k \in 1..n : bits[k] = StreamBit(Position + k - 1)
    /\ Moves(n) /\ SameCrc /\ UNCHANGED fed

\* Bits that are consumed are bits further in the stream.
LEMMA MovingOn ==
    ASSUME TypeInv, NEW n \in Nat, Moves(n), UNCHANGED fed
    PROVE  Position' = Position + n
  <1>1. Unconsumed(br)' = Available(br) * BitsPerByte - (Consumed(br) + n)
    BY Places DEF Moves
  <1>2. Position' = fed * BitsPerByte - (Available(br) * BitsPerByte - (Consumed(br) + n))
    BY <1>1 DEF Position
  <1> QED
    BY <1>2, PositionIsBits

\* What a call is when parts take the place of the one in hand
LEMMA FieldsOfCall ==
    ASSUME TypeInv, NEW bits \in Seq(Bit \cup Byte), NEW parts \in Seq(Parts)
    PROVE  /\ Then(parts).want = call.want /\ Then(parts).end = call.end
           /\ Then(parts).from = call.from /\ Then(parts).got = call.got \o <<>>
           /\ Then(parts).todo = parts \o Tail(call.todo)
           /\ Got(bits, parts).want = call.want /\ Got(bits, parts).end = call.end
           /\ Got(bits, parts).from = call.from /\ Got(bits, parts).got = call.got \o bits
           /\ Got(bits, parts).todo = parts \o Tail(call.todo)
           /\ \A why : /\ Failed(why).want = call.want /\ Failed(why).end = why
                       /\ Failed(why).todo = <<>> /\ Failed(why).got = <<>>
                       /\ Failed(why).from = call.from
  <1>1. call \in Calls
    BY DEF TypeInv
  <1>2. call.got \o <<>> = call.got
    BY <1>1 DEF Calls
  <1> DEFINE todo == parts \o Tail(call.todo)
             got == call.got \o bits
  <1>3. Then(parts) = [call EXCEPT !.todo = todo]
    BY DEF Then
  <1> DEFINE t == Then(parts)
  <1> HIDE DEF todo
  <1>4. /\ t.want = call.want /\ t.end = call.end /\ t.from = call.from /\ t.got = call.got
        /\ t.todo = todo /\ DOMAIN t = DOMAIN call
    BY <1>1, <1>3 DEF Calls
  <1>5. Got(bits, parts) = [t EXCEPT !.got = got]
    BY <1>4 DEF Got
  <1> HIDE DEF t, got
  <1>6. LET g == [t EXCEPT !.got = got] IN
        /\ g.want = t.want /\ g.end = t.end /\ g.from = t.from /\ g.todo = t.todo
        /\ g.got = got
    BY <1>1, <1>4 DEF Calls
  <1>7. \A why : /\ Failed(why).want = call.want /\ Failed(why).end = why
                 /\ Failed(why).todo = <<>> /\ Failed(why).got = <<>>
                 /\ Failed(why).from = call.from
    BY <1>1 DEF Failed, Calls
  <1> QED
    BY <1>2, <1>4, <1>5, <1>6, <1>7 DEF t, todo, got

\* The same when the part gets bits
LEMMA CallGot ==
    ASSUME TypeInv, NEW bits \in Seq(Bit \cup Byte), NEW parts \in Seq(Parts),
           call' = Got(bits, parts)
    PROVE  /\ call'.want = call.want /\ call'.end = call.end /\ call'.from = call.from
           /\ call'.got = call.got \o bits /\ call'.todo = parts \o Tail(call.todo)
  BY FieldsOfCall

\* A part that takes nothing
LEMMA TakesNothing ==
    ASSUME TypeInv, Moves(0), SameCrc, UNCHANGED fed, NEW parts \in Seq(Parts),
           call' = Then(parts),
           \A a \in Nat : Leads(parts, a + 0, a + PartBits(Part))
    PROVE  Takes(0, <<>>, parts)
  <1>1. <<>> \in Seq(Bit \cup Byte) /\ <<>> \in Seq({0, 1}) /\ Len(<<>>) = 0 /\ 1..0 = {}
    OBVIOUS
  <1>2. /\ call'.want = call.want /\ call'.end = call.end /\ call'.from = call.from
        /\ call'.todo = parts \o Tail(call.todo) /\ call'.got = call.got \o <<>>
    BY <1>1, FieldsOfCall
  <1> QED
    BY <1>1, <1>2 DEF Takes

\* A part that takes the bits that come next
LEMMA TakesNext ==
    ASSUME TypeInv, BufferInv, UNCHANGED fed, NEW n \in Nat, n <= Unconsumed(br),
           Moves(n), SameCrc, NEW parts \in Seq(Parts),
           call' = Got(NextBits(br, n), parts),
           Part.do # "unary" => \A a \in Nat : Leads(parts, a + n, a + PartBits(Part))
    PROVE  Takes(n, NextBits(br, n), parts)
  <1> DEFINE bits == NextBits(br, n)
  <1>1. /\ bits \in Seq({0, 1}) /\ Len(bits) = n
        /\ \A k \in 1..n : bits[k] = StreamBit(Position + k - 1)
    BY NextBitsAreOfTheStream
  <1>2. {0, 1} \subseteq Bit \cup Byte
    BY DEF Bit
  <1> HIDE DEF bits
  <1>3. bits \in Seq(Bit \cup Byte)
    BY <1>1, <1>2
  <1>4. call' = Got(bits, parts)
    BY DEF bits
  <1>5. /\ call'.want = call.want /\ call'.end = call.end /\ call'.from = call.from
        /\ call'.todo = parts \o Tail(call.todo) /\ call'.got = call.got \o bits
    BY <1>3, <1>4, CallGot
  <1>6. Takes(n, bits, parts)
    BY <1>1, <1>5 DEF Takes
  <1> QED
    BY <1>6 DEF bits

\* Consuming leaves the running CRC alone.
LEMMA ConsumeKeepsCrc ==
    ASSUME NEW n, TypeInv
    PROVE  LET b == Consume(br, n) IN
           /\ b.read_crc16 = br.read_crc16
           /\ b.crc16_offset = br.crc16_offset /\ b.crc16_align = br.crc16_align
           /\ ChargeWord(b).read_crc16 = br.read_crc16
           /\ ChargeWord(b).crc16_offset = br.crc16_offset
           /\ ChargeWord(b).crc16_align = br.crc16_align
           /\ Charge(br, n).read_crc16 = br.read_crc16
           /\ Charge(br, n).crc16_offset = br.crc16_offset
           /\ Charge(br, n).crc16_align = br.crc16_align
           /\ InvalidateLimit(br).read_crc16 = br.read_crc16
           /\ InvalidateLimit(br).crc16_offset = br.crc16_offset
           /\ InvalidateLimit(br).crc16_align = br.crc16_align
  BY DEF Consume, ChargeWord, Charge, InvalidateLimit, TypeInv, Readers

\* A read over the limit
OverIt == call' = Failed("limit") /\ Moves(0) /\ SameCrc /\ UNCHANGED fed

\* A read over the limit fails without taking a bit.
LEMMA OverLimitIs ==
    ASSUME TypeInv, BufferInv, br' = InvalidateLimit(br), call' = Failed("limit"),
           UNCHANGED fed
    PROVE  OverIt
  <1>1. /\ br' \in Readers(Byte) /\ SamePlace(br', br)
        /\ br'.last_seen_framesync = br.last_seen_framesync
        /\ br'.read_limit_set = br.read_limit_set
    BY Limiting DEF TypeInv
  <1>2. Moves(0)
    BY <1>1, SamePlaceMovesNowhere
  <1>3. SameCrc
    BY ConsumeKeepsCrc DEF SameCrc
  <1> QED
    BY <1>2, <1>3 DEF OverIt

\* A raw read is charged, or over the limit.
LEMMA RawTakes ==
    ASSUME Inv, call.todo # <<>>, UNCHANGED fed, DoRaw
    PROVE  OverIt \/ Takes(0, <<>>, <<Bits(Part.n)>>)
  <1> DEFINE n == Part.n
             parts == <<Bits(n)>>
  <1>1. Part.do = "raw" /\ Part \in Parts /\ TypeInv /\ BufferInv
    BY PartInHand DEF Inv, DoRaw
  <1>2. n \in 1..BitsPerWord /\ n \in Nat
    BY <1>1, KindsOfParts, Sizes
  <1>3. CASE OverLimit(br, n)
    BY <1>1, <1>3, OverLimitIs DEF DoRaw
  <1>4. CASE ~OverLimit(br, n)
    <2>1. br' = Charge(br, n) /\ call' = Then(parts)
      BY <1>4 DEF DoRaw
    <2>2. PartBits(Part) = n
      BY <1>1 DEF PartBits
    <2> HIDE DEF n
    <2>3. /\ br' \in Readers(Byte) /\ SamePlace(br', br)
          /\ br'.last_seen_framesync = br.last_seen_framesync
          /\ br'.read_limit_set = br.read_limit_set
      <3>1. n \in Int /\ br \in Readers(Byte)
        BY <1>1, <1>2 DEF TypeInv
      <3> QED
        BY <2>1, <3>1, Charging
    <2>4. Moves(0)
      BY <1>1, <2>3, SamePlaceMovesNowhere
    <2>5. SameCrc
      BY <1>1, <2>1, ConsumeKeepsCrc DEF SameCrc
    <2>6. Bits(n) \in Parts /\ Bits(n).do = "bits" /\ PartBits(Bits(n)) = n
      BY <1>2, NewParts DEF PartBits
    <2>7. parts \in Seq(Parts)
      BY <2>6
    <2>8. ASSUME NEW a \in Nat PROVE Leads(parts, a + 0, a + PartBits(Part))
      <3>1. Leads(parts, a, a + n)
        BY <1>2, <2>6, OnePartLeads
      <3> QED
        BY <2>2, <3>1
    <2> HIDE DEF parts
    <2>9. Takes(0, <<>>, parts)
      BY <1>1, <2>1, <2>4, <2>5, <2>7, <2>8, TakesNothing
    <2> QED
      BY <2>9 DEF parts, n
  <1> QED
    BY <1>3, <1>4

\* Its bits are the ones that come next.
LEMMA BitsTake ==
    ASSUME Inv, call.todo # <<>>, UNCHANGED fed, DoBits
    PROVE  Takes(Part.n, NextBits(br, Part.n), <<>>)
  <1> DEFINE n == Part.n
  <1>1. Part.do = "bits" /\ Part \in Parts /\ TypeInv /\ BufferInv
    BY PartInHand DEF Inv, DoBits
  <1>2. n \in Nat
    BY <1>1, KindsOfParts, Sizes
  <1>3. n <= Unconsumed(br) /\ br' = Consume(br, n) /\ call' = Got(NextBits(br, n), <<>>)
    BY <1>1, <1>2, PositionIsBits DEF DoBits
  <1>4. PartBits(Part) = n /\ Part.do # "unary"
    BY <1>1 DEF PartBits
  <1> HIDE DEF n
  <1>5. Moves(n)
    BY <1>1, <1>2, <1>3, ConsumingMoves
  <1>6. SameCrc
    BY <1>1, <1>3, ConsumeKeepsCrc DEF SameCrc
  <1>7. <<>> \in Seq(Parts)
    OBVIOUS
  <1>8. \A a \in Nat : Leads(<<>>, a + n, a + PartBits(Part))
    BY <1>2, <1>4, NoPartsLead
  <1>9. Takes(n, NextBits(br, n), <<>>)
    BY <1>1, <1>2, <1>3, <1>5, <1>6, <1>7, <1>8, TakesNext
  <1> QED
    BY <1>9 DEF n

-------------------------------------------------------------------------------
(* The steps of a byte block and of a unary number *)

\* A step that leaves the reader alone takes nothing.
LEMMA NothingTaken ==
    ASSUME Inv, UNCHANGED <<br, fed>>
    PROVE  Moves(0) /\ SameCrc /\ TypeInv /\ BufferInv
  BY StandsStill DEF SameCrc, Inv

\* A byte block is entered, or over the limit.
LEMMA BlockStarts ==
    ASSUME Inv, call.todo # <<>>, UNCHANGED fed, DoBlock
    PROVE  OverIt \/ Takes(0, <<>>, <<InBlock(Part.n)>>)
  <1> DEFINE n == Part.n
             parts == <<InBlock(n)>>
  <1>1. Part.do = "block" /\ Part \in Parts /\ TypeInv /\ BufferInv
    BY PartInHand DEF Inv, DoBlock
  <1>2. n \in Nat
    BY <1>1, KindsOfParts
  <1>3. CASE OverLimit(br, n * BitsPerByte)
    BY <1>1, <1>3, OverLimitIs DEF DoBlock
  <1>4. CASE ~OverLimit(br, n * BitsPerByte)
    <2>1. UNCHANGED br /\ call' = Then(parts)
      BY <1>4 DEF DoBlock
    <2>2. PartBits(Part) = n * BitsPerByte
      BY <1>1 DEF PartBits
    <2> HIDE DEF n
    <2>3. Moves(0) /\ SameCrc
      BY <2>1, NothingTaken
    <2>4. /\ InBlock(n) \in Parts /\ InBlock(n).do = "inBlock"
          /\ PartBits(InBlock(n)) = n * BitsPerByte
      <3>1. 1 \in 1..BitsPerWord
        BY Sizes
      <3> QED
        BY <1>2, <3>1, NewParts DEF PartBits
    <2>5. parts \in Seq(Parts)
      BY <2>4
    <2>6. ASSUME NEW a \in Nat PROVE Leads(parts, a + 0, a + PartBits(Part))
      <3>1. n * BitsPerByte \in Nat
        BY <1>2, ReaderAssumption
      <3>2. Leads(parts, a, a + PartBits(InBlock(n)))
        BY <2>4, <3>1, OnePartLeads
      <3> QED
        BY <2>2, <2>4, <3>2
    <2> HIDE DEF parts
    <2>7. Takes(0, <<>>, parts)
      BY <1>1, <2>1, <2>3, <2>5, <2>6, TakesNothing
    <2> QED
      BY <2>7 DEF parts, n
  <1> QED
    BY <1>3, <1>4

\* A byte of a block becomes a raw read in front of the rest.
LEMMA BlockByteTakes ==
    ASSUME Inv, call.todo # <<>>, UNCHANGED fed, DoBlockByte
    PROVE  Takes(0, <<>>, <<Raw(BitsPerByte), InBlock(Part.n - 1)>>)
  <1> DEFINE n == Part.n
             one == Raw(BitsPerByte)
             more == InBlock(n - 1)
             parts == <<one, more>>
  <1>1. /\ Part.do = "inBlock" /\ n > 0 /\ Part \in Parts
        /\ UNCHANGED br /\ call' = Then(parts) /\ TypeInv /\ BufferInv
    BY PartInHand DEF Inv, DoBlockByte
  <1>2. n \in Nat
    BY <1>1, KindsOfParts
  <1>3. PartBits(Part) = n * BitsPerByte
    BY <1>1 DEF PartBits
  <1> HIDE DEF n
  <1>4. n - 1 \in Nat
    BY <1>1, <1>2
  <1>5. /\ one \in Parts /\ one.do # "unary" /\ PartBits(one) = BitsPerByte
        /\ more \in Parts /\ more.do # "unary"
        /\ PartBits(more) = (n - 1) * BitsPerByte
    BY <1>4, ByteIsPart, NewParts DEF PartBits
  <1>6. parts \in Seq(Parts) /\ parts = <<one>> \o <<more>>
        /\ <<one>> \in Seq(Parts) /\ <<more>> \in Seq(Parts)
    BY <1>5
  <1>7. Moves(0) /\ SameCrc
    BY <1>1, NothingTaken
  <1>8. BitsPerByte \in Nat /\ (n - 1) * BitsPerByte \in Nat
        /\ n * BitsPerByte = BitsPerByte + (n - 1) * BitsPerByte
    BY <1>2, <1>4, ReaderAssumption
  <1> HIDE DEF one, more, parts
  <1>9. ASSUME NEW a \in Nat PROVE Leads(parts, a + 0, a + PartBits(Part))
    <2> DEFINE last == (n - 1) * BitsPerByte
               m == a + BitsPerByte
    <2>1. Leads(<<one>>, a, m)
      BY <1>5, <1>8, OnePartLeads
    <2>2. m \in Nat
      BY <1>8
    <2> HIDE DEF m
    <2>3. Leads(<<more>>, m, m + PartBits(more))
      BY <1>5, <1>8, <2>2, OnePartLeads
    <2>4. Leads(parts, a, m + PartBits(more))
      BY <1>6, <2>1, <2>3, JoinedLead
    <2>5. m + PartBits(more) = a + PartBits(Part) /\ a + 0 = a
      <3>1. last \in Nat /\ PartBits(more) = last /\ PartBits(Part) = BitsPerByte + last
        BY <1>3, <1>5, <1>8
      <3> HIDE DEF last
      <3> QED
        BY <1>8, <3>1 DEF m
    <2> QED
      BY <2>4, <2>5
  <1>10. Takes(0, <<>>, parts)
    BY <1>1, <1>6, <1>7, <1>9, TakesNothing
  <1> QED
    BY <1>10 DEF parts, one, more, n

\* A word of a block is taken at once.
LEMMA BlockWordTakes ==
    ASSUME Inv, call.todo # <<>>, UNCHANGED fed, DoBlockWord
    PROVE  Takes(BitsPerWord, NextBits(br, BitsPerWord), <<InBlock(Part.n - BytesPerWord)>>)
  <1> DEFINE n == Part.n
             more == InBlock(n - BytesPerWord)
             parts == <<more>>
             b == Consume(br, BitsPerWord)
  <1>1. /\ Part.do = "inBlock" /\ Part \in Parts
        /\ br.consumed_bits = 0 /\ n >= BytesPerWord
        /\ br.consumed_words < br.words
        /\ call' = Got(NextBits(br, BitsPerWord), parts) /\ br' = ChargeWord(b)
        /\ TypeInv /\ BufferInv
    BY PartInHand DEF Inv, DoBlockWord, WholeWords
  <1>2. n \in Nat /\ n - BytesPerWord \in Nat
    <2>1. n \in Nat
      BY <1>1, KindsOfParts
    <2> HIDE DEF n
    <2> QED
      BY <1>1, <2>1, ReaderAssumption
  <1>3. PartBits(Part) = n * BitsPerByte /\ Part.do # "unary"
    BY <1>1 DEF PartBits
  <1> HIDE DEF n
  <1>4. BitsPerWord \in Nat /\ BitsPerWord <= Unconsumed(br)
    <2>1. /\ br.words \in Nat /\ br.consumed_words \in Nat /\ br.bytes \in Nat
      BY <1>1 DEF TypeInv, Readers
    <2>2. 1 * BitsPerWord <= (br.words - br.consumed_words) * BitsPerWord
      BY <1>1, <2>1, Sizes
    <2>3. br.bytes * BitsPerByte \in Nat
      BY <2>1, ReaderAssumption
    <2>4. (br.words - br.consumed_words) * BitsPerWord \in Int
      BY <2>1, Sizes
    <2> QED
      BY <1>1, <2>2, <2>3, <2>4, Sizes DEF Unconsumed
  <1>5. /\ b \in Readers(Byte) /\ Sane(b)
        /\ b.buffer = br.buffer /\ b.words = br.words /\ b.bytes = br.bytes
        /\ b.last_seen_framesync = br.last_seen_framesync
        /\ Available(b) = Available(br) /\ Consumed(b) = Consumed(br) + BitsPerWord
        /\ b.read_limit_set = br.read_limit_set
    BY <1>1, <1>4, Consuming DEF TypeInv, BufferInv, SameLimit
  <1>6. SameCrc
    BY <1>1, ConsumeKeepsCrc DEF SameCrc
  <1> HIDE DEF b
  <1>7. /\ br' \in Readers(Byte) /\ SamePlace(br', b)
        /\ br'.last_seen_framesync = b.last_seen_framesync
        /\ br'.read_limit_set = b.read_limit_set
    BY <1>1, <1>5, ChargingAWord
  <1>8. Moves(BitsPerWord)
    BY <1>5, <1>7, SamePlaceSameMeasures DEF Moves, SamePlace
  <1>9. /\ more \in Parts /\ more.do # "unary"
        /\ PartBits(more) = (n - BytesPerWord) * BitsPerByte
    <2>1. 1 \in 1..BitsPerWord
      BY Sizes
    <2> QED
      BY <1>2, <2>1, NewParts DEF PartBits
  <1>10. parts \in Seq(Parts)
    BY <1>9
  <1>11. /\ (n - BytesPerWord) * BitsPerByte \in Nat
         /\ n * BitsPerByte = BitsPerWord + (n - BytesPerWord) * BitsPerByte
    BY <1>2, ReaderAssumption DEF BitsPerWord
  <1> HIDE DEF more
  <1>12. ASSUME NEW a \in Nat PROVE Leads(parts, a + BitsPerWord, a + PartBits(Part))
    <2> DEFINE last == (n - BytesPerWord) * BitsPerByte
               m == a + BitsPerWord
    <2>1. m \in Nat
      BY <1>4
    <2>2. last \in Nat /\ PartBits(more) = last /\ PartBits(Part) = BitsPerWord + last
      BY <1>3, <1>9, <1>11
    <2> HIDE DEF m, last
    <2>3. Leads(parts, m, m + PartBits(more))
      BY <1>9, <2>1, <2>2, OnePartLeads
    <2>4. m + PartBits(more) = a + PartBits(Part)
      BY <1>4, <2>2 DEF m
    <2> QED
      BY <2>3, <2>4 DEF m
  <1> HIDE DEF parts
  <1>13. Takes(BitsPerWord, NextBits(br, BitsPerWord), parts)
    BY <1>1, <1>4, <1>6, <1>8, <1>10, <1>12, TakesNext
  <1> QED
    BY <1>13 DEF parts, more, n

\* The end of a block takes nothing.
LEMMA BlockIsDone ==
    ASSUME Inv, call.todo # <<>>, UNCHANGED fed, DoBlockEnd
    PROVE  Takes(0, <<>>, <<>>)
  <1>1. /\ Part.do = "inBlock" /\ Part.n = 0
        /\ UNCHANGED br /\ call' = Then(<<>>) /\ TypeInv /\ BufferInv
    BY DEF Inv, DoBlockEnd
  <1>2. PartBits(Part) = 0 /\ <<>> \in Seq(Parts)
    BY <1>1, ReaderAssumption DEF PartBits
  <1>3. Moves(0) /\ SameCrc
    BY <1>1, NothingTaken
  <1>4. \A a \in Nat : Leads(<<>>, a + 0, a + PartBits(Part))
    BY <1>2, NoPartsLead
  <1> QED
    BY <1>1, <1>2, <1>3, <1>4, TakesNothing

\* A unary part takes zeros, all of them or those in front of a one and the one.
UnaryTakes ==
    \E n, bits, parts :
        /\ Takes(n, bits, parts) /\ n > 0
        /\ \A k \in 1..(n - 1) : bits[k] = 0
        /\ \/ parts = <<UnaryPart>> /\ bits[n] = 0
           \/ parts = <<>> /\ bits[n] = 1

\* The zeros that a unary part takes are those of the buffer.
LEMMA UnaryTakesZeros ==
    ASSUME Inv, call.todo # <<>>, UNCHANGED fed, DoUnary
    PROVE  Part.do = "unary" /\ UnaryTakes
  <1> DEFINE all == Unconsumed(br)
             n == CHOOSE m \in StopBits : \A k \in StopBits : m <= k
  <1>1. Part.do = "unary" /\ TypeInv /\ BufferInv /\ all > 0 /\ all \in Nat
    BY PositionIsBits DEF Inv, DoUnary
  <1>2. /\ NextBits(br, all) \in Seq({0, 1}) /\ Len(NextBits(br, all)) = all
        /\ \A k \in 1..all : NextBits(br, all)[k] \in {0, 1}
    <2>1. all \in Nat /\ all <= Unconsumed(br)
      BY <1>1
    <2>2. NextBits(br, all) \in Seq({0, 1}) /\ Len(NextBits(br, all)) = all
      BY ONLY <1>1, <2>1, NextBitsAreOfTheStream
    <2> QED
      BY ONLY <2>2
  <1>3. \A k \in 1..all, m \in 1..all : k <= m => NextBits(br, m)[k] = NextBits(br, all)[k]
    BY <1>1 DEF NextBits
  <1>4. /\ StopBits \in SUBSET Nat
        /\ \A k \in 1..all : k \in StopBits <=> NextBits(br, k)[k] = 1
    BY <1>1 DEF StopBits
  <1>5. CASE StopBits = {}
    <2>1. call' = Got(Zeros(all), <<UnaryPart>>) /\ br' = Consume(br, all)
      BY <1>5 DEF DoUnary
    <2>2. \A k \in 1..all : NextBits(br, all)[k] = 0
      BY <1>1, <1>2, <1>3, <1>4, <1>5
    <2>3. NextBits(br, all) = Zeros(all)
      BY <1>1, <2>2 DEF NextBits, Zeros
    <2>4. UnaryPart \in Parts
      BY DEF UnaryPart, Parts, UnaryParts
    <2>5. <<UnaryPart>> \in Seq(Parts)
      BY <2>4
    <2>6. all <= Unconsumed(br)
      BY <1>1
    <2> HIDE DEF all
    <2>7. Moves(all)
      BY <1>1, <2>1, <2>6, ConsumingMoves
    <2>8. SameCrc
      BY <1>1, <2>1, ConsumeKeepsCrc DEF SameCrc
    <2>9. call' = Got(NextBits(br, all), <<UnaryPart>>)
      BY <2>1, <2>3
    <2>10. Takes(all, NextBits(br, all), <<UnaryPart>>)
      BY <1>1, <2>5, <2>6, <2>7, <2>8, <2>9, TakesNext
    <2>11. NextBits(br, all)[all] = 0 /\ \A k \in 1..(all - 1) : NextBits(br, all)[k] = 0
      BY <1>1, <2>2
    <2> QED
      BY <1>1, <2>10, <2>11 DEF UnaryTakes
  <1>6. CASE StopBits # {}
    <2>1. call' = Got(Append(Zeros(n - 1), 1), <<>>) /\ br' = Consume(br, n)
      BY <1>6 DEF DoUnary
    <2>2. n \in StopBits /\ \A k \in StopBits : n <= k
      BY <1>4, <1>6, LeastMember
    <2>3. n \in 1..all
      BY <2>2 DEF StopBits
    <2> HIDE DEF n, all
    <2>4. n \in Nat /\ n > 0 /\ n <= all /\ n - 1 \in Nat
      BY <1>1, <2>3
    <2> DEFINE bits == NextBits(br, n)
    <2>5. bits[n] = 1
      BY <1>4, <2>2, <2>3
    <2>6. ASSUME NEW k \in 1..(n - 1) PROVE bits[k] = 0
      <3>1. k \in 1..all /\ k <= n /\ ~(n <= k)
        BY <1>1, <2>4
      <3>2. NextBits(br, k)[k] # 1
        BY <1>4, <2>2, <3>1
      <3>3. NextBits(br, k)[k] = NextBits(br, all)[k] /\ bits[k] = NextBits(br, all)[k]
        BY <1>3, <2>3, <3>1
      <3> QED
        BY <1>2, <3>1, <3>2, <3>3
    <2>7. bits = Append(Zeros(n - 1), 1)
      <3> DEFINE zeros == Zeros(n - 1)
      <3>1. zeros \in Seq({0}) /\ Len(zeros) = n - 1 /\ \A k \in 1..(n - 1) : zeros[k] = 0
        BY <2>4 DEF Zeros
      <3> HIDE DEF zeros
      <3>2. /\ Append(zeros, 1) \in Seq({0, 1}) /\ Len(Append(zeros, 1)) = n
            /\ \A k \in 1..n : Append(zeros, 1)[k] = IF k = n THEN 1 ELSE 0
        BY <2>4, <3>1
      <3>3. bits \in Seq({0, 1}) /\ Len(bits) = n
        BY <1>1, <2>4, NextBitsAreOfTheStream DEF all
      <3>4. \A k \in 1..n : bits[k] = IF k = n THEN 1 ELSE 0
        BY <2>4, <2>5, <2>6
      <3> HIDE DEF bits
      <3>5. bits = Append(zeros, 1)
        BY <3>2, <3>3, <3>4, SeqEqual
      <3> QED
        BY <3>5 DEF zeros
    <2>8. Moves(n)
      BY <1>1, <2>1, <2>4, ConsumingMoves DEF all
    <2>9. SameCrc
      BY <1>1, <2>1, ConsumeKeepsCrc DEF SameCrc
    <2>10. <<>> \in Seq(Parts) /\ call' = Got(NextBits(br, n), <<>>)
      BY <2>1, <2>7
    <2>11. Takes(n, bits, <<>>)
      BY <1>1, <2>4, <2>8, <2>9, <2>10, TakesNext DEF all
    <2> QED
      BY <1>1, <2>4, <2>5, <2>6, <2>11 DEF UnaryTakes
  <1> QED
    BY <1>1, <1>5, <1>6

-------------------------------------------------------------------------------
(* The bits that a read has got *)

\* What the call has got are the bits of the stream from where it began.
Gathered ==
    /\ call.end = "ok" /\ call.from \in Nat
    /\ call.from + Len(call.got) = Position
    /\ \A k \in 1..Len(call.got) : call.got[k] = StreamBit(call.from + k - 1)

\* A read of a unary number has got zeros so far.
AllZeros ==
    /\ call.want = Unary /\ call.todo = <<UnaryPart>>
    /\ \A k \in 1..Len(call.got) : call.got[k] = 0

\* The parts of any other take it to what was asked for.
Owed == call.want \in Nat /\ Leads(call.todo, Len(call.got), call.want)

AnswerInv == call.todo # <<>> => Gathered /\ (AllZeros \/ Owed)

\* The call goes on or is done, with more bits.
GotMore(n, bits) ==
    /\ Gathered' /\ call'.from = call.from /\ call'.want = call.want
    /\ Len(call'.got) = Len(call.got) + n
    /\ \A k \in 1..Len(call.got) : call'.got[k] = call.got[k]
    /\ \A k \in 1..n : call'.got[Len(call.got) + k] = bits[k]

\* What has been gathered is of the same stream after the step.
LEMMA StreamStands ==
    ASSUME UNCHANGED stream
    PROVE  Gathered' <=>
               /\ call'.end = "ok" /\ call'.from \in Nat
               /\ call'.from + Len(call'.got) = Position'
               /\ \A k \in 1..Len(call'.got) :
                     call'.got[k] = StreamBit(call'.from + k - 1)
  BY DEF Gathered, StreamBit

\* A sequence that bits were put behind
LEMMA LongerSequence ==
    ASSUME NEW S, NEW s \in Seq(S), NEW t \in Seq(S)
    PROVE  LET got == s \o t IN
           /\ got \in Seq(S) /\ Len(got) = Len(s) + Len(t)
           /\ \A k \in 1..Len(s) : got[k] = s[k]
           /\ \A k \in 1..Len(t) : got[Len(s) + k] = t[k]
  <1> DEFINE got == s \o t
             l == Len(s)
             m == Len(t)
  <1>1. /\ l \in Nat /\ m \in Nat /\ got \in Seq(S) /\ Len(got) = l + m
        /\ \A k \in 1..(l + m) : got[k] = IF k <= l THEN s[k] ELSE t[k - l]
    OBVIOUS
  <1> HIDE DEF got, l, m
  <1>2. \A k \in 1..l : k \in 1..(l + m) /\ k <= l
    BY <1>1
  <1>3. \A k \in 1..m : l + k \in 1..(l + m) /\ ~(l + k <= l) /\ (l + k) - l = k
    BY <1>1
  <1> QED
    BY <1>1, <1>2, <1>3 DEF got, l, m

\* A step that takes bits has gathered these too.
LEMMA TakingGathers ==
    ASSUME TypeInv, BufferInv, Gathered, UNCHANGED stream,
           NEW n, NEW bits, NEW parts, Takes(n, bits, parts)
    PROVE  GotMore(n, bits)
  <1> DEFINE l == Len(call.got)
  <1>1. /\ call'.want = call.want /\ call'.end = call.end /\ call'.from = call.from
        /\ call'.got = call.got \o bits /\ n \in Nat
        /\ bits \in Seq({0, 1}) /\ Len(bits) = n
        /\ \A k \in 1..n : bits[k] = StreamBit(Position + k - 1)
        /\ Moves(n) /\ UNCHANGED fed
    BY DEF Takes
  <1>2. Position' = Position + n
    BY <1>1, MovingOn
  <1>3. call.got \in Seq(Bit \cup Byte) /\ bits \in Seq(Bit \cup Byte) /\ l \in Nat
    <2>1. call.got \in Seq(Bit \cup Byte)
      BY DEF TypeInv, Calls
    <2>2. {0, 1} \subseteq Bit \cup Byte
      BY DEF Bit
    <2> QED
      BY <1>1, <2>1, <2>2
  <1> DEFINE got == call.got \o bits
  <1>4. /\ Len(got) = l + n
        /\ \A k \in 1..l : got[k] = call.got[k]
        /\ \A k \in 1..n : got[l + k] = bits[k]
    <2> DEFINE S == Bit \cup Byte
    <2>1. call.got \in Seq(S) /\ bits \in Seq(S)
      BY <1>3
    <2> HIDE DEF S
    <2>2. /\ Len(call.got \o bits) = Len(call.got) + Len(bits)
          /\ \A k \in 1..Len(call.got) : (call.got \o bits)[k] = call.got[k]
          /\ \A k \in 1..Len(bits) : (call.got \o bits)[Len(call.got) + k] = bits[k]
      BY <2>1, LongerSequence
    <2> QED
      BY <1>1, <2>2
  <1> HIDE DEF got, l
  <1>6. /\ call.end = "ok" /\ call.from \in Nat /\ call.from + l = Position
        /\ \A k \in 1..l : call.got[k] = StreamBit(call.from + k - 1)
    BY DEF Gathered, l
  <1>7. ASSUME NEW k \in 1..(l + n)
        PROVE  got[k] = StreamBit(call.from + k - 1)
    <2>1. CASE k <= l
      <3>1. k \in 1..l
        BY <1>1, <1>3, <2>1
      <3> QED
        BY <1>4, <1>6, <3>1
    <2>2. CASE ~(k <= l)
      <3> DEFINE j == k - l
      <3>1. j \in 1..n /\ l + j = k
        BY <1>1, <1>3, <2>2
      <3>2. Position + j - 1 = call.from + k - 1
        BY <1>1, <1>3, <1>6, <3>1
      <3> HIDE DEF j
      <3>3. got[l + j] = bits[j] /\ bits[j] = StreamBit(Position + j - 1)
        BY <1>1, <1>4, <3>1
      <3> QED
        BY <3>1, <3>2, <3>3
    <2> QED
      BY <2>1, <2>2
  <1>8. Gathered'
    <2>1. call'.end = "ok" /\ call'.from \in Nat
      BY <1>1, <1>6
    <2>2. Len(call'.got) = l + n
      BY <1>1, <1>4 DEF got
    <2>3. call'.from + Len(call'.got) = Position'
      BY <1>1, <1>2, <1>3, <1>6, <2>2
    <2>4. \A k \in 1..Len(call'.got) : call'.got[k] = StreamBit(call.from + k - 1)
      BY <1>1, <1>7, <2>2 DEF got
    <2>5. \A k \in 1..Len(call'.got) : call'.got[k] = StreamBit(call'.from + k - 1)
      BY <1>1, <2>4
    <2> QED
      BY <2>1, <2>3, <2>5, StreamStands
  <1> QED
    BY <1>1, <1>4, <1>8 DEF GotMore, got, l

\* What is left to do leads to the same end.
LEMMA TakingLeads ==
    ASSUME TypeInv, call.todo # <<>>, Owed,
           NEW n, NEW bits, NEW parts, Takes(n, bits, parts), GotMore(n, bits)
    PROVE  Owed'
  <1> DEFINE a == Len(call.got)
             m == a + PartBits(Part)
  <1>1. /\ call.todo \in Seq(Parts) /\ Part = call.todo[1] /\ Tail(call.todo) \in Seq(Parts)
    BY PartInHand
  <1>2. call.want \in Nat /\ Leads(call.todo, a, call.want)
    BY DEF Owed
  <1> HIDE DEF a
  <1>3. Leads(Tail(call.todo), m, call.want) /\ Part.do # "unary" /\ a \in Nat
    BY <1>1, <1>2, RestLeads
  <1>4. /\ Leads(parts, a + n, m)
        /\ call'.todo = parts \o Tail(call.todo) /\ parts \in Seq(Parts)
    BY <1>3 DEF Takes
  <1> HIDE DEF m
  <1>5. Leads(parts \o Tail(call.todo), a + n, call.want)
    BY <1>1, <1>3, <1>4, JoinedLead
  <1>6. Len(call'.got) = a + n /\ call'.want = call.want
    BY DEF GotMore, a
  <1> QED
    BY <1>2, <1>4, <1>5, <1>6 DEF Owed

\* The call is done: with all the bits that it wanted, with a unary number, or failed.
AllGot ==
    /\ call'.todo = <<>> /\ call'.end = "ok" /\ call.want \in Nat
    /\ call'.got = [k \in 1..call.want |-> StreamBit(call.from + k - 1)]
    /\ Position' = call.from + call.want
UnaryGot ==
    /\ call'.todo = <<>> /\ call'.end = "ok" /\ call.want = Unary
    /\ \E n \in Nat :
          /\ n > 0 /\ Position' = call.from + n
          /\ call'.got = [k \in 1..n |-> StreamBit(call.from + k - 1)]
          /\ StreamBit(call.from + n - 1) = 1
          /\ \A k \in 1..(n - 1) : StreamBit(call.from + k - 1) = 0
GaveUp ==
    /\ call'.todo = <<>> /\ call'.end # "ok" /\ call'.got = <<>>
    /\ Position' >= call.from
Outcome ==
    /\ call.from \in Nat /\ call'.from = call.from /\ call'.want = call.want
    /\ \/ call'.todo # <<>>
       \/ AllGot \/ UnaryGot \/ GaveUp

\* A sequence that agrees with the stream everywhere is that piece of it.
LEMMA GotIsTheStream ==
    ASSUME NEW S, NEW got \in Seq(S), NEW n \in Nat, Len(got) = n, NEW from,
           \A k \in 1..n : got[k] = StreamBit(from + k - 1)
    PROVE  got = [k \in 1..n |-> StreamBit(from + k - 1)]
  OBVIOUS

\* A read of a number of bits gets them or goes on.
LEMMA OwedComes ==
    ASSUME Inv, AnswerInv, call.todo # <<>>, Part.do # "unary", UNCHANGED stream,
           NEW n, NEW bits, NEW parts, Takes(n, bits, parts)
    PROVE  AnswerInv' /\ Outcome
  <1>1. TypeInv /\ BufferInv /\ Gathered
    BY DEF Inv, AnswerInv
  <1>2. Owed
    <2> SUFFICES ASSUME AllZeros PROVE FALSE
      BY DEF AnswerInv
    <2>1. Part = UnaryPart
      BY DEF AllZeros, Part
    <2> QED
      BY <2>1 DEF UnaryPart
  <1>3. GotMore(n, bits)
    BY <1>1, TakingGathers
  <1>4. Owed'
    BY <1>1, <1>2, <1>3, TakingLeads
  <1>5. AnswerInv'
    BY <1>3, <1>4 DEF AnswerInv, GotMore
  <1>6. call.from \in Nat /\ call'.from = call.from /\ call'.want = call.want
    BY <1>1, <1>3 DEF GotMore, Gathered
  <1>7. ASSUME call'.todo = <<>> PROVE AllGot
    <2>1. call.want \in Nat /\ Leads(<<>>, Len(call'.got), call.want)
      BY <1>4, <1>6, <1>7 DEF Owed
    <2>2. Len(call'.got) = call.want
      BY <2>1, NoPartsLead
    <2>3. /\ call'.end = "ok" /\ call.from + call.want = Position'
          /\ \A k \in 1..call.want : call'.got[k] = StreamBit(call.from + k - 1)
      <3>1. /\ call'.end = "ok" /\ call'.from \in Nat
            /\ call'.from + Len(call'.got) = Position'
            /\ \A k \in 1..Len(call'.got) :
                  call'.got[k] = StreamBit(call'.from + k - 1)
        BY <1>3, StreamStands DEF GotMore
      <3> QED
        BY <1>6, <2>2, <3>1
    <2>5. call'.got \in Seq(Bit \cup Byte)
      <3>1. call.got \in Seq(Bit \cup Byte)
        BY <1>1 DEF TypeInv, Calls
      <3>2. call'.got = call.got \o bits /\ bits \in Seq({0, 1})
            /\ {0, 1} \subseteq Bit \cup Byte
        BY DEF Takes, Bit
      <3>3. bits \in Seq(Bit \cup Byte)
        BY <3>2
      <3> QED
        BY <3>1, <3>2, <3>3
    <2>6. \A k \in 1..call.want : call'.got[k] = StreamBit(call.from + k - 1)
      BY <2>3
    <2>7. call'.got = [k \in 1..call.want |-> StreamBit(call.from + k - 1)]
      BY <2>1, <2>2, <2>5, <2>6, GotIsTheStream
    <2> QED
      BY <1>7, <2>1, <2>3, <2>7 DEF AllGot
  <1> QED
    BY <1>5, <1>6, <1>7 DEF Outcome

\* A read of a unary number ends with its one or goes on.
LEMMA UnaryComes ==
    ASSUME Inv, AnswerInv, call.todo # <<>>, UNCHANGED <<stream, fed>>, DoUnary
    PROVE  AnswerInv' /\ Outcome
  <1>1. Part.do = "unary" /\ UnaryTakes /\ TypeInv /\ BufferInv /\ Gathered
    BY UnaryTakesZeros DEF Inv, AnswerInv
  <1>2. AllZeros
    <2> SUFFICES ASSUME Owed PROVE FALSE
      BY DEF AnswerInv
    <2>1. call.todo \in Seq(Parts) /\ Part = call.todo[1]
      BY <1>1, PartInHand
    <2>2. Leads(call.todo, Len(call.got), call.want)
      BY DEF Owed
    <2> QED
      BY <1>1, <2>1, <2>2, RestLeads
  <1>3. PICK n, bits, parts :
            /\ Takes(n, bits, parts) /\ n \in Nat /\ n > 0
            /\ \A k \in 1..(n - 1) : bits[k] = 0
            /\ \/ parts = <<UnaryPart>> /\ bits[n] = 0
               \/ parts = <<>> /\ bits[n] = 1
    BY <1>1 DEF UnaryTakes, Takes
  <1>4. GotMore(n, bits)
    BY <1>1, <1>3, TakingGathers
  <1>5. call'.todo = parts
    <2>1. call'.todo = parts \o Tail(call.todo) /\ parts \in Seq(Parts)
      BY <1>3 DEF Takes
    <2>2. Tail(call.todo) = <<>>
      BY <1>2 DEF AllZeros
    <2>3. parts \o <<>> = parts
      BY <2>1
    <2> QED
      BY <2>1, <2>2, <2>3
  <1> DEFINE l == Len(call.got)
  <1>6. l \in Nat /\ n \in Nat
    <2>1. call.got \in Seq(Bit \cup Byte)
      BY <1>1 DEF TypeInv, Calls
    <2> QED
      BY <1>3, <2>1
  <1>7. /\ call.want = Unary /\ \A k \in 1..l : call.got[k] = 0
        /\ call.from \in Nat
    BY <1>1, <1>2 DEF AllZeros, Gathered
  <1>8. /\ Gathered' /\ call'.from = call.from /\ call'.want = call.want
        /\ Len(call'.got) = l + n
        /\ \A k \in 1..l : call'.got[k] = call.got[k]
        /\ \A k \in 1..n : call'.got[l + k] = bits[k]
    BY <1>4 DEF GotMore
  <1> HIDE DEF l
  <1>9. ASSUME NEW k \in 1..(l + n), k # l + n PROVE call'.got[k] = 0
    <2>1. CASE k <= l
      <3>1. k \in 1..l
        BY <1>6, <2>1
      <3> QED
        BY <1>7, <1>8, <3>1
    <2>2. CASE ~(k <= l)
      <3> DEFINE j == k - l
      <3>1. j \in 1..(n - 1) /\ j \in 1..n /\ l + j = k
        BY <1>6, <1>9, <2>2
      <3> HIDE DEF j
      <3>2. call'.got[l + j] = bits[j] /\ bits[j] = 0
        BY <1>3, <1>8, <3>1
      <3> QED
        BY <3>1, <3>2
    <2> QED
      BY <2>1, <2>2
  <1>10. call'.got[l + n] = bits[n] /\ l + n \in Nat /\ l + n > 0
    BY <1>3, <1>6, <1>8
  <1>11. CASE parts = <<UnaryPart>> /\ bits[n] = 0
    <2>1. \A k \in 1..Len(call'.got) : call'.got[k] = 0
      BY <1>8, <1>9, <1>10, <1>11
    <2>2. AllZeros'
      BY <1>5, <1>7, <1>8, <1>11, <2>1 DEF AllZeros, UnaryPart, Unary
    <2>3. AnswerInv'
      BY <1>8, <2>2 DEF AnswerInv
    <2>4. call'.todo # <<>>
      BY <1>5, <1>11
    <2> QED
      BY <1>7, <1>8, <2>3, <2>4 DEF Outcome
  <1>12. CASE parts = <<>> /\ bits[n] = 1
    <2>1. AnswerInv'
      BY <1>5, <1>12 DEF AnswerInv
    <2> DEFINE all == l + n
    <2>2. /\ call'.end = "ok" /\ call.from + all = Position'
          /\ \A k \in 1..all : call'.got[k] = StreamBit(call.from + k - 1)
      <3>1. /\ call'.end = "ok" /\ call'.from \in Nat
            /\ call'.from + Len(call'.got) = Position'
            /\ \A k \in 1..Len(call'.got) :
                  call'.got[k] = StreamBit(call'.from + k - 1)
        BY <1>8, StreamStands
      <3> QED
        BY <1>8, <3>1
    <2>5. call'.got \in Seq(Bit \cup Byte)
      <3>1. call.got \in Seq(Bit \cup Byte)
        BY <1>1 DEF TypeInv, Calls
      <3>2. call'.got = call.got \o bits /\ bits \in Seq({0, 1})
            /\ {0, 1} \subseteq Bit \cup Byte
        BY <1>3 DEF Takes, Bit
      <3>3. bits \in Seq(Bit \cup Byte)
        BY <3>2
      <3> QED
        BY <3>1, <3>2, <3>3
    <2>6. all \in Nat /\ all > 0 /\ call'.got[all] = 1 /\ Len(call'.got) = all
      BY <1>8, <1>10, <1>12
    <2>7. \A k \in 1..(all - 1) : call'.got[k] = 0
      BY <1>9, <2>6
    <2> HIDE DEF all
    <2>8. call'.got = [k \in 1..all |-> StreamBit(call.from + k - 1)]
      <3>1. \A k \in 1..all : call'.got[k] = StreamBit(call.from + k - 1)
        BY <2>2
      <3>2. Len(call'.got) = all /\ all \in Nat
        BY <2>6
      <3> QED
        BY <2>5, <3>1, <3>2, GotIsTheStream
    <2>9. StreamBit(call.from + all - 1) = 1
      BY <2>2, <2>6
    <2>10. \A k \in 1..(all - 1) : StreamBit(call.from + k - 1) = 0
      <3>1. \A k \in 1..(all - 1) : k \in 1..all
        BY <2>6
      <3> QED
        BY <2>2, <2>7, <3>1
    <2>11. UnaryGot
      BY <1>5, <1>7, <1>12, <2>2, <2>6, <2>8, <2>9, <2>10 DEF UnaryGot
    <2> QED
      BY <1>7, <1>8, <2>1, <2>11 DEF Outcome
  <1> QED
    BY <1>3, <1>11, <1>12

\* A read that fails has nothing to show.
LEMMA FailureIsOutcome ==
    ASSUME TypeInv, AnswerInv, call.todo # <<>>, NEW why \in {"limit", "client"},
           call' = Failed(why), Position' = Position
    PROVE  AnswerInv' /\ Outcome
  <1>1. /\ call'.want = call.want /\ call'.end = why
        /\ call'.todo = <<>> /\ call'.got = <<>> /\ call'.from = call.from
    <2>1. <<>> \in Seq(Bit \cup Byte) /\ <<>> \in Seq(Parts)
      OBVIOUS
    <2> QED
      BY <2>1, FieldsOfCall
  <1>2. call.from \in Nat /\ call.from + Len(call.got) = Position
    BY DEF AnswerInv, Gathered
  <1>3. Len(call.got) \in Nat
    <2>1. call.got \in Seq(Bit \cup Byte)
      BY DEF TypeInv, Calls
    <2> QED
      BY <2>1
  <1>4. GaveUp
    BY <1>1, <1>2, <1>3 DEF GaveUp
  <1> QED
    BY <1>1, <1>2, <1>4 DEF AnswerInv, Outcome

\* A client that delivered changes nothing for the read.
LEMMA WaitingIsOutcome ==
    ASSUME AnswerInv, call.todo # <<>>, UNCHANGED <<call, stream>>, Position' = Position
    PROVE  AnswerInv' /\ Outcome
  <1>1. Gathered /\ (AllZeros \/ Owed)
    BY DEF AnswerInv
  <1>2. Gathered'
    <2>1. /\ call.end = "ok" /\ call.from \in Nat
          /\ call.from + Len(call.got) = Position
          /\ \A k \in 1..Len(call.got) : call.got[k] = StreamBit(call.from + k - 1)
      BY <1>1 DEF Gathered
    <2> QED
      BY <2>1, StreamStands
  <1>3. AllZeros' \/ Owed'
    BY <1>1 DEF AllZeros, Owed
  <1> QED
    BY <1>1, <1>2, <1>3 DEF AnswerInv, Outcome, Gathered

\* Each step of a read takes the bits that come next, waits for the client or gives up.
LEMMA ReadStepAnswers ==
    ASSUME Inv, AnswerInv, ReadStep
    PROVE  AnswerInv' /\ Outcome
  <1>1. call.todo # <<>> /\ AfterRead /\ UNCHANGED stream /\ TypeInv /\ BufferInv
    BY DEF ReadStep, AfterRead, Inv
  <1>2. ASSUME OverIt PROVE AnswerInv' /\ Outcome
    <2>1. call' = Failed("limit") /\ Moves(0) /\ UNCHANGED fed
      BY <1>2 DEF OverIt
    <2>2. Position' = Position + 0
      BY <1>1, <2>1, MovingOn
    <2>3. Position' = Position
      BY <1>1, <2>2, PositionIsBits
    <2> QED
      BY <1>1, <2>1, <2>3, FailureIsOutcome
  <1>3. ASSUME NEW n, NEW bits, NEW parts, Takes(n, bits, parts), Part.do # "unary"
        PROVE  AnswerInv' /\ Outcome
    BY <1>1, <1>3, OwedComes
  <1>4. CASE UNCHANGED fed /\ DoRaw
    <2>1. Part.do # "unary"
      BY <1>4 DEF DoRaw
    <2> QED
      BY <1>1, <1>2, <1>3, <1>4, <2>1, RawTakes
  <1>5. CASE UNCHANGED fed /\ DoBits
    <2>1. Part.do # "unary"
      BY <1>5 DEF DoBits
    <2> QED
      BY <1>1, <1>3, <1>5, <2>1, BitsTake
  <1>6. CASE UNCHANGED fed /\ DoUnary
    BY <1>1, <1>6, UnaryComes
  <1>7. CASE UNCHANGED fed /\ DoBlock
    <2>1. Part.do # "unary"
      BY <1>7 DEF DoBlock
    <2> QED
      BY <1>1, <1>2, <1>3, <1>7, <2>1, BlockStarts
  <1>8. CASE UNCHANGED fed /\ DoBlockByte
    <2>1. Part.do # "unary"
      BY <1>8 DEF DoBlockByte
    <2> QED
      BY <1>1, <1>3, <1>8, <2>1, BlockByteTakes
  <1>9. CASE UNCHANGED fed /\ DoBlockWord
    <2>1. Part.do # "unary"
      BY <1>9 DEF DoBlockWord
    <2> QED
      BY <1>1, <1>3, <1>9, <2>1, BlockWordTakes
  <1>10. CASE UNCHANGED fed /\ DoBlockEnd
    <2>1. Part.do # "unary"
      BY <1>10 DEF DoBlockEnd
    <2> QED
      BY <1>1, <1>3, <1>10, <2>1, BlockIsDone
  <1>11. ASSUME NEW n \in 0..(Capacity * BytesPerWord), NEW ok \in BOOLEAN, Refill(n, ok)
         PROVE  AnswerInv' /\ Outcome
    <2>1. n \in Nat
      BY Sizes DEF BufferBytes
    <2>2. Position' = Position
      BY <1>1, <1>11, <2>1, RefillKeepsBuffer
    <2>3. UNCHANGED call \/ call' = Failed("client")
      BY <1>11 DEF Refill
    <2> QED
      BY <1>1, <2>2, <2>3, FailureIsOutcome, WaitingIsOutcome
  <1> QED
    BY <1>4, <1>5, <1>6, <1>7, <1>8, <1>9, <1>10, <1>11 DEF ReadStep

-------------------------------------------------------------------------------
(* What the decoder asks for *)

AllLengths == RawLengths \cup LongLengths \cup SkipLengths
                  \cup {n * BitsPerByte : n \in BlockLengths} \cup {BitsPerWord}

\* A read begins whose parts take it from nothing to what it wants.
AskedFor(want, parts) ==
    /\ Begin(want, parts)
    /\ \/ want = Unary /\ parts = <<UnaryPart>>
       \/ want \in AllLengths /\ want \in Nat /\ Leads(parts, 0, want)
Asks == \E want, parts : AskedFor(want, parts)

\* The bytes of a little-endian word lead through the word.
LEMMA LittleEndianLeads ==
    Leads([i \in 1..BytesPerWord |-> Raw(BitsPerByte)], 0, BitsPerWord)
  <1> DEFINE parts == [i \in 1..BytesPerWord |-> Raw(BitsPerByte)]
             ends == [i \in 0..BytesPerWord |-> i * BitsPerByte]
  <1>1. /\ Len(parts) = BytesPerWord
        /\ \A i \in 1..BytesPerWord : parts[i] = Raw(BitsPerByte)
    BY ByteSteps
  <1>2. Raw(BitsPerByte).do # "unary" /\ PartBits(Raw(BitsPerByte)) = BitsPerByte
    BY ByteIsPart, NewParts DEF PartBits
  <1>3. /\ ends \in [0..BytesPerWord -> Nat]
        /\ \A i \in 0..BytesPerWord : ends[i] = i * BitsPerByte
    BY ByteSteps
  <1> HIDE DEF parts, ends
  <1>4. ends[0] = 0 /\ ends[BytesPerWord] = BitsPerWord
    <2>1. 0 \in 0..BytesPerWord /\ BytesPerWord \in 0..BytesPerWord
      BY ByteSteps
    <2> QED
      BY <1>3, <2>1, ByteSteps
  <1>5. ASSUME NEW i \in 1..BytesPerWord
        PROVE  parts[i].do # "unary" /\ ends[i] = ends[i - 1] + PartBits(parts[i])
    <2>1. i \in 0..BytesPerWord /\ i - 1 \in 0..BytesPerWord /\ i \in Nat /\ i > 0
      BY ByteSteps
    <2> QED
      BY <1>1, <1>2, <1>3, <2>1, ByteSteps
  <1>6. Lead(ends, parts, 0, BitsPerWord)
    BY <1>1, <1>3, <1>4, <1>5 DEF Lead
  <1> QED
    BY <1>6 DEF Leads, parts

\* A part that is there if it is needed
LEMMA PerhapsOnePartLeads ==
    ASSUME NEW p, NEW c \in BOOLEAN, NEW m \in Nat, NEW a \in Nat,
           c => p \in Parts /\ p.do # "unary" /\ PartBits(p) = m,
           ~c => m = 0
    PROVE  LET parts == IF c THEN <<p>> ELSE <<>> IN
           parts \in Seq(Parts) /\ Leads(parts, a, a + m)
  <1>1. CASE c
    <2>1. Leads(<<p>>, a, a + PartBits(p))
      BY <1>1, OnePartLeads
    <2> QED
      BY <1>1, <2>1
  <1>2. CASE ~c
    <2>1. a + m = a
      BY <1>2
    <2> QED
      BY <1>2, <2>1, NoPartsLead
  <1> QED
    BY <1>1, <1>2

\* The parts of a skip lead through all of its bits, wherever in a byte it begins.
LEMMA SkipAsks ==
    ASSUME Inv, NEW bits \in SkipLengths, SkipBits(bits)
    PROVE  Asks
  <1> DEFINE odd == br.consumed_bits % BitsPerByte
             head == IF odd = 0 THEN 0
                     ELSE IF BitsPerByte - odd < bits THEN BitsPerByte - odd ELSE bits
             nbytes == (bits - head) \div BitsPerByte
             tail == (bits - head) % BitsPerByte
             first == IF head > 0 THEN <<Raw(head)>> ELSE <<>>
             whole == IF nbytes > 0 THEN <<Block(nbytes)>> ELSE <<>>
             last == IF tail > 0 THEN <<Raw(tail)>> ELSE <<>>
             middle == nbytes * BitsPerByte
  <1>1. bits \in Nat /\ br.consumed_bits \in Nat
    BY UseAssumption DEF Inv, TypeInv, Readers
  <1>2. odd \in 0..(BitsPerByte - 1)
    BY <1>1, Division, ReaderAssumption
  <1>3. Begin(bits, first \o whole \o last)
    BY DEF SkipBits
  <1> HIDE DEF odd
  <1>4. head \in 0..BitsPerByte /\ bits - head \in Nat
    BY <1>1, <1>2, ReaderAssumption
  <1>5. /\ nbytes \in Nat /\ tail \in 0..(BitsPerByte - 1)
        /\ bits - head = BitsPerByte * nbytes + tail
    BY <1>4, Division, ReaderAssumption
  <1>6. head \in Nat /\ tail \in Nat
    BY <1>4, <1>5, ReaderAssumption
  <1> HIDE DEF head, nbytes, tail
  <1>7. middle \in Nat /\ head + middle \in Nat /\ head + middle + tail = bits
    <2>1. middle \in Nat /\ middle = BitsPerByte * nbytes
      BY <1>5, ReaderAssumption
    <2> HIDE DEF middle
    <2>2. bits - head = middle + tail
      BY <1>5, <2>1
    <2> QED
      BY <1>1, <1>6, <2>1, <2>2
  <1>8. first \in Seq(Parts) /\ Leads(first, 0, head)
    <2>1. ASSUME head > 0
          PROVE  /\ Raw(head) \in Parts /\ Raw(head).do # "unary"
                 /\ PartBits(Raw(head)) = head
      <3>1. head \in 1..BitsPerWord
        BY <1>4, <2>1, ByteIsPart
      <3> QED
        BY <3>1, NewParts DEF PartBits
    <2>2. ~(head > 0) => head = 0
      BY <1>6
    <2>3. first \in Seq(Parts) /\ Leads(first, 0, 0 + head)
      BY <1>6, <2>1, <2>2, PerhapsOnePartLeads
    <2> QED
      BY <1>6, <2>3
  <1>9. whole \in Seq(Parts) /\ Leads(whole, head, head + middle)
    <2>1. /\ Block(nbytes) \in Parts /\ Block(nbytes).do # "unary"
          /\ PartBits(Block(nbytes)) = middle
      <3>1. 1 \in 1..BitsPerWord
        BY Sizes
      <3> QED
        BY <1>5, <3>1, NewParts DEF PartBits
    <2>2. ~(nbytes > 0) => middle = 0
      BY <1>5, ByteSteps
    <2> HIDE DEF middle
    <2> QED
      BY <1>6, <1>7, <2>1, <2>2, PerhapsOnePartLeads
  <1>10. last \in Seq(Parts) /\ Leads(last, head + middle, bits)
    <2>1. ASSUME tail > 0
          PROVE  /\ Raw(tail) \in Parts /\ Raw(tail).do # "unary"
                 /\ PartBits(Raw(tail)) = tail
      <3>1. tail \in 1..BitsPerByte
        BY <1>5, <2>1, ReaderAssumption
      <3>2. tail \in 1..BitsPerWord
        BY <3>1, ByteIsPart
      <3> QED
        BY <3>2, NewParts DEF PartBits
    <2>2. ~(tail > 0) => tail = 0
      BY <1>6
    <2> DEFINE a == head + middle
    <2>3. a \in Nat /\ a + tail = bits
      BY <1>7
    <2> HIDE DEF a
    <2>4. last \in Seq(Parts) /\ Leads(last, a, a + tail)
      BY <1>6, <2>1, <2>2, <2>3, PerhapsOnePartLeads
    <2> QED
      BY <2>3, <2>4 DEF a
  <1> HIDE DEF first, whole, last, middle
  <1>11. first \o whole \in Seq(Parts) /\ Leads(first \o whole, 0, head + middle)
    BY <1>8, <1>9, JoinedLead
  <1>12. Leads((first \o whole) \o last, 0, bits)
    BY <1>10, <1>11, JoinedLead
  <1>13. bits \in AllLengths
    BY DEF AllLengths
  <1>14. AskedFor(bits, first \o whole \o last)
    BY <1>1, <1>3, <1>12, <1>13 DEF AskedFor
  <1> QED
    BY <1>14 DEF Asks

\* So do those of every read of metadata.
LEMMA MetadataAsks ==
    ASSUME Inv, Metadata
    PROVE  Asks
  <1>1. ASSUME NEW nbytes \in BlockLengths, ReadByteBlock(nbytes) PROVE Asks
    <2> DEFINE want == nbytes * BitsPerByte
    <2>1. nbytes \in Nat /\ 1 \in 1..BitsPerWord
      BY UseAssumption, Sizes
    <2>2. want \in Nat /\ want \in AllLengths
      BY <2>1, ByteSteps DEF AllLengths
    <2>3. Block(nbytes).do # "unary" /\ PartBits(Block(nbytes)) = want
      BY <2>1, NewParts DEF PartBits
    <2>4. Begin(want, <<Block(nbytes)>>)
      BY <1>1 DEF ReadByteBlock
    <2> HIDE DEF want
    <2>5. Leads(<<Block(nbytes)>>, 0, 0 + want)
      BY <2>2, <2>3, OnePartLeads
    <2>6. AskedFor(want, <<Block(nbytes)>>)
      BY <2>2, <2>4, <2>5 DEF AskedFor
    <2> QED
      BY <2>6 DEF Asks
  <1>2. ASSUME ReadUint32LittleEndian PROVE Asks
    <2>1. BitsPerWord \in Nat /\ BitsPerWord \in AllLengths
      BY Sizes DEF AllLengths
    <2>2. AskedFor(BitsPerWord, [i \in 1..BytesPerWord |-> Raw(BitsPerByte)])
      BY <1>2, <2>1, LittleEndianLeads DEF AskedFor, ReadUint32LittleEndian
    <2> QED
      BY <2>2 DEF Asks
  <1> QED
    BY <1>1, <1>2, SkipAsks DEF Metadata

\* Two parts are one behind the other.
LEMMA PairIsJoined ==
    ASSUME NEW S, NEW p \in S, NEW q \in S
    PROVE  <<p, q>> = <<p>> \o <<q>>
  <1> DEFINE pair == <<p, q>>
             joined == <<p>> \o <<q>>
  <1>1. pair \in Seq(S) /\ Len(pair) = 2 /\ pair[1] = p /\ pair[2] = q
    OBVIOUS
  <1>2. /\ joined \in Seq(S) /\ Len(joined) = 2
        /\ \A i \in 1..2 : joined[i] = IF i <= 1 THEN <<p>>[i] ELSE <<q>>[i - 1]
    OBVIOUS
  <1>3. joined[1] = p /\ joined[2] = q
    BY <1>2
  <1> HIDE DEF pair, joined
  <1>4. \A i \in 1..2 : pair[i] = joined[i]
    BY <1>1, <1>3
  <1>5. pair = joined
    BY <1>1, <1>2, <1>4, SeqEqual
  <1> QED
    BY <1>5 DEF pair, joined

\* So do those of the reads of both kinds.
LEMMA ReadsAsk ==
    ASSUME Inv,
           \/ \E bits \in RawLengths : ReadRawUint32(bits)
           \/ \E bits \in LongLengths : ReadRawUint64(bits)
           \/ ReadUnary
    PROVE  Asks
  <1>1. ASSUME NEW bits \in RawLengths, ReadRawUint32(bits) PROVE Asks
    <2>1. bits \in 1..BitsPerWord /\ bits \in Nat /\ bits \in AllLengths
      BY UseAssumption, Sizes DEF AllLengths
    <2>2. Raw(bits).do # "unary" /\ PartBits(Raw(bits)) = bits
      BY <2>1, NewParts DEF PartBits
    <2>3. Leads(<<Raw(bits)>>, 0, 0 + bits)
      BY <2>1, <2>2, OnePartLeads
    <2>4. Leads(<<Raw(bits)>>, 0, bits)
      BY <2>1, <2>3
    <2>5. AskedFor(bits, <<Raw(bits)>>)
      BY <1>1, <2>1, <2>4 DEF AskedFor, ReadRawUint32
    <2> QED
      BY <2>5 DEF Asks
  <1>2. ASSUME NEW bits \in LongLengths, ReadRawUint64(bits) PROVE Asks
    <2> DEFINE n == bits - BitsPerWord
               high == Raw(n)
               low == Raw(BitsPerWord)
    <2>1. /\ n \in 1..BitsPerWord /\ n \in Nat /\ BitsPerWord \in 1..BitsPerWord
          /\ BitsPerWord \in Nat
          /\ bits \in Nat /\ bits \in AllLengths /\ n + BitsPerWord = bits
      BY UseAssumption, Sizes DEF AllLengths
    <2>2. Begin(bits, <<high, low>>)
      BY <1>2 DEF ReadRawUint64
    <2> HIDE DEF n
    <2>3. /\ high \in Parts /\ high.do # "unary" /\ PartBits(high) = n
          /\ low \in Parts /\ low.do # "unary" /\ PartBits(low) = BitsPerWord
      BY <2>1, NewParts DEF PartBits
    <2> HIDE DEF high, low
    <2>4. Leads(<<high>>, 0, 0 + n) /\ Leads(<<low>>, n, n + BitsPerWord)
      BY <2>1, <2>3, OnePartLeads
    <2>5. Leads(<<high>>, 0, n) /\ Leads(<<low>>, n, bits)
      BY <2>1, <2>4
    <2>6. <<high>> \in Seq(Parts) /\ <<low>> \in Seq(Parts)
      BY <2>3
    <2>7. <<high, low>> = <<high>> \o <<low>>
      BY <2>3, PairIsJoined
    <2>8. Leads(<<high, low>>, 0, bits)
      BY <2>5, <2>6, <2>7, JoinedLead
    <2>9. AskedFor(bits, <<high, low>>)
      BY <2>1, <2>2, <2>8 DEF AskedFor
    <2> QED
      BY <2>9 DEF Asks
  <1>3. ASSUME ReadUnary PROVE Asks
    <2>1. AskedFor(Unary, <<UnaryPart>>)
      BY <1>3 DEF AskedFor, ReadUnary
    <2> QED
      BY <2>1 DEF Asks
  <1> QED
    BY <1>1, <1>2, <1>3

\* Asking moves nothing, and nothing is got yet.
LEMMA AskingAnswers ==
    ASSUME Inv, NEW want, NEW parts, AskedFor(want, parts)
    PROVE  /\ AnswerInv' /\ call.todo = <<>>
           /\ UNCHANGED <<stream, fed, br, lastSync, frame>>
           /\ call'.want = want /\ call'.todo = parts /\ call'.got = <<>>
           /\ call'.end = "ok" /\ call'.from = Position /\ Position' = Position
  <1>1. /\ call.todo = <<>>
        /\ call' = [want |-> want, todo |-> parts, got |-> <<>>, end |-> "ok",
                    from |-> Position]
        /\ UNCHANGED <<stream, fed, br, lastSync, frame>>
    BY DEF AskedFor, Begin, Ready, Between
  <1>2. /\ call'.want = want /\ call'.todo = parts /\ call'.got = <<>>
        /\ call'.end = "ok" /\ call'.from = Position /\ Position' = Position
    BY <1>1 DEF Position
  <1>3. Position \in Nat
    BY PositionIsBits, PositionIsInStream DEF Inv
  <1>4. Len(call'.got) = 0
    BY <1>2
  <1>5. Gathered'
    <2>1. call'.from + Len(call'.got) = Position'
      BY <1>2, <1>3, <1>4
    <2>2. \A k \in 1..Len(call'.got) : call'.got[k] = StreamBit(call'.from + k - 1)
      BY <1>4
    <2> QED
      BY <1>1, <1>2, <1>3, <2>1, <2>2, StreamStands
  <1>6. CASE want = Unary /\ parts = <<UnaryPart>>
    <2>1. AllZeros'
      BY <1>2, <1>4, <1>6 DEF AllZeros, Unary, UnaryPart
    <2> QED
      BY <1>1, <1>2, <1>5, <2>1 DEF AnswerInv
  <1>7. CASE want \in Nat /\ Leads(parts, 0, want)
    <2>1. Owed'
      BY <1>2, <1>4, <1>7 DEF Owed
    <2> QED
      BY <1>1, <1>2, <1>5, <2>1 DEF AnswerInv
  <1> QED
    BY <1>6, <1>7 DEF AskedFor

-------------------------------------------------------------------------------
(* The running CRC *)

\* The bytes in the buffer are those of the stream.
LEMMA BytesAreOfTheStream ==
    ASSUME TypeInv, BufferInv, NEW from \in Nat, NEW to \in Nat,
           from <= to, to <= Available(br)
    PROVE  LET gone == fed - Available(br) IN
           BytesOf(br, from, to) = SubSeq(stream, gone + from + 1, gone + to)
  <1> DEFINE gone == fed - Available(br)
             bytes == BytesOf(br, from, to)
             sub == SubSeq(stream, gone + from + 1, gone + to)
  <1>1. /\ fed \in Nat /\ Available(br) \in Nat /\ Available(br) <= fed
        /\ stream \in Seq(Byte) /\ fed <= Len(stream) /\ Len(stream) \in Nat
    BY StreamIsBytes, PositionIsBits DEF BufferInv, TypeInv
  <1>2. gone \in Nat /\ gone + to <= Len(stream)
    BY <1>1
  <1>3. to <= BufferBytes
    BY <1>1, Sizes DEF BufferInv, Sane
  <1>4. bytes \in Seq(Byte)
    BY <1>3, BytesAreThere DEF TypeInv
  <1>5. /\ Len(bytes) = to - from
        /\ \A i \in 1..(to - from) : bytes[i] = br.buffer[from + i - 1]
    BY DEF BytesOf
  <1> HIDE DEF gone, bytes
  <1>6. /\ sub \in Seq(Byte) /\ Len(sub) = to - from
        /\ \A i \in 1..(to - from) : sub[i] = stream[gone + from + 1 + i - 1]
    <2> DEFINE m == gone + from + 1
               n == gone + to
    <2>1. m \in 1..(Len(stream) + 1) /\ n \in (m - 1)..Len(stream) /\ n - m + 1 = to - from
      BY <1>1, <1>2
    <2> HIDE DEF m, n
    <2>4. m \in Int /\ n \in Int /\ \A i \in m..n : stream[i] \in Byte
      BY <1>1, <2>1
    <2>2. /\ SubSeq(stream, m, n) \in Seq(Byte)
          /\ Len(SubSeq(stream, m, n)) = IF m <= n THEN n - m + 1 ELSE 0
          /\ \A i \in 1..(n - m + 1) : SubSeq(stream, m, n)[i] = stream[m + i - 1]
      BY <2>4, SubSeqProperties
    <2>3. Len(SubSeq(stream, m, n)) = to - from
      BY <1>1, <2>1, <2>2
    <2> QED
      BY <2>1, <2>2, <2>3 DEF m, n
  <1> HIDE DEF sub
  <1>7. ASSUME NEW i \in 1..(to - from) PROVE bytes[i] = sub[i]
    <2> DEFINE a == from + i - 1
    <2>1. a \in 0..(Available(br) - 1)
      BY <1>1
    <2>2. br.buffer[a] = stream[fed - Available(br) + a + 1]
      BY <2>1 DEF BufferInv
    <2>3. fed - Available(br) + a + 1 = gone + from + 1 + i - 1
      BY <1>1 DEF gone
    <2> QED
      BY <1>5, <1>6, <2>2, <2>3
  <1>8. bytes = sub
    BY <1>4, <1>5, <1>6, <1>7, SeqEqual
  <1> QED
    BY <1>8 DEF bytes, sub, gone

\* The CRC is that of the bytes from the sync to its place in the buffer.
CrcAt == fed - Available(br) + CrcPlace(br)
CrcOfFrame ==
    /\ CrcBehind(br) /\ lastSync <= CrcAt
    /\ br.read_crc16 = SubSeq(stream, lastSync + 1, CrcAt)
CrcInv == frame \in {"header", "body"} => CrcOfFrame

\* The CRC of the frame goes on with the bytes that come next.
LEMMA CrcGrows ==
    ASSUME TypeInv, BufferInv, CrcOfFrame, NEW to \in Nat,
           CrcPlace(br) <= to, to * BitsPerByte <= Consumed(br)
    PROVE  LET gone == fed - Available(br) IN
           /\ br.read_crc16 \o BytesOf(br, CrcPlace(br), to)
                  = SubSeq(stream, lastSync + 1, gone + to)
           /\ to <= Available(br) /\ lastSync <= gone + to
  <1> DEFINE gone == fed - Available(br)
             p == CrcPlace(br)
  <1>1. /\ fed \in Nat /\ Available(br) \in Nat /\ Available(br) <= fed
        /\ stream \in Seq(Byte) /\ fed <= Len(stream) /\ Len(stream) \in Nat
        /\ lastSync \in Nat /\ Consumed(br) \in Nat
    BY StreamIsBytes, PositionIsBits DEF BufferInv, TypeInv
  <1>2. p \in Nat
    BY PlaceOfCrc DEF CrcOfFrame, CrcBehind, TypeInv
  <1>3. to <= Available(br)
    <2>1. Consumed(br) <= Available(br) * BitsPerByte
      BY DEF BufferInv, Sane
    <2>2. to * BitsPerByte \in Nat /\ Available(br) * BitsPerByte \in Nat
      BY <1>1, ByteSteps
    <2>3. to * BitsPerByte <= Available(br) * BitsPerByte
      BY <1>1, <2>1, <2>2
    <2>4. \A j, k \in Nat : j * BitsPerByte <= k * BitsPerByte => j <= k
      BY ReaderAssumption
    <2> QED
      BY <1>1, <2>3, <2>4
  <1> HIDE DEF p
  <1>4. BytesOf(br, p, to) = SubSeq(stream, gone + p + 1, gone + to)
    BY <1>2, <1>3, BytesAreOfTheStream DEF p
  <1>5. /\ lastSync <= gone + p /\ br.read_crc16 = SubSeq(stream, lastSync + 1, gone + p)
    BY DEF CrcOfFrame, CrcAt, p
  <1>6. gone \in Nat
    BY <1>1
  <1>7. gone + p <= gone + to /\ gone + to <= Len(stream)
    BY <1>1, <1>2, <1>3 DEF p
  <1> HIDE DEF gone
  <1> DEFINE m == lastSync + 1
             k == gone + p
             n == gone + to
  <1>8. m \in 1..(Len(stream) + 1) /\ k \in (m - 1)..Len(stream) /\ n \in k..Len(stream)
    BY <1>1, <1>2, <1>5, <1>6, <1>7
  <1>9. SubSeq(stream, m, k) \o SubSeq(stream, k + 1, n) = SubSeq(stream, m, n)
    BY <1>1, <1>8, ConcatAdjacentSubSeq
  <1>10. lastSync <= n
    BY <1>1, <1>8
  <1> QED
    BY <1>3, <1>4, <1>5, <1>9, <1>10 DEF gone, p

\* Consuming more leaves the CRC that of the frame.
LEMMA MovingKeepsCrc ==
    ASSUME TypeInv, CrcOfFrame, NEW n \in Nat, Moves(n), SameCrc,
           UNCHANGED <<stream, fed, lastSync>>
    PROVE  CrcOfFrame'
  <1>1. CrcPlace(br)' = CrcPlace(br) /\ CrcPlace(br) \in Nat
    BY PlaceOfCrc DEF SameCrc, CrcPlace, CrcOfFrame, CrcBehind, TypeInv
  <1>2. Available(br)' = Available(br) /\ Consumed(br)' = Consumed(br) + n
    BY DEF Moves
  <1>3. CrcBehind(br)'
    <2> DEFINE p == CrcPlace(br) * BitsPerByte
    <2>1. p \in Nat /\ p <= Consumed(br) /\ Consumed(br) \in Nat
      BY <1>1, ByteSteps, PositionIsBits DEF CrcOfFrame, CrcBehind
    <2>2. p = (CrcPlace(br) * BitsPerByte)'
      BY <1>1
    <2> HIDE DEF p
    <2>3. p <= Consumed(br)'
      BY <1>2, <2>1
    <2> QED
      BY <2>2, <2>3 DEF CrcOfFrame, CrcBehind, SameCrc
  <1>4. CrcAt' = CrcAt
    BY <1>1, <1>2 DEF CrcAt
  <1> QED
    BY <1>3, <1>4 DEF CrcOfFrame, SameCrc

\* So does shifting the buffer and refilling it.
LEMMA RefillKeepsCrc ==
    ASSUME Inv, AfterRead, CrcOfFrame, frame \in {"header", "body"},
           NEW n \in Nat, NEW ok \in BOOLEAN, Refill(n, ok)
    PROVE  CrcOfFrame'
  <1> DEFINE b == BeforeRead(br)
             data == SubSeq(stream, fed + 1, fed + n)
             gone == br.consumed_words * BytesPerWord
             to == gone + CrcPlace(b)
  <1>1. PICK f \in {Filled(b, data), NotFilled(b, data)} : br' = Kept(f)
    BY DEF Refill
  <1>2. br' = f /\ UNCHANGED <<stream, lastSync>>
    BY <1>1 DEF Kept, AfterRead
  <1>3. TypeInv /\ BufferInv /\ br \in Readers(Byte) /\ Sane(br)
    BY DEF Inv, TypeInv, BufferInv
  <1>4. /\ b.read_crc16 = br.read_crc16 \o BytesOf(br, CrcPlace(br), to)
        /\ gone \in Nat /\ CrcPlace(b) \in Nat /\ CrcPlace(br) <= to
        /\ to * BitsPerByte <= Consumed(br) /\ CrcBehind(b)
    BY <1>3, CrcIsShifted DEF CrcOfFrame
  <1>5. /\ b \in Readers(Byte)
        /\ Available(b) = Available(br) - gone
        /\ Consumed(b) = Consumed(br) - gone * BitsPerByte
    BY <1>3, Shifting
  <1> HIDE DEF b, data, gone
  <1>6. /\ br'.read_crc16 = b.read_crc16
        /\ br'.crc16_offset = b.crc16_offset /\ br'.crc16_align = b.crc16_align
    BY <1>2, <1>5, RefillingKeepsCrc
  <1>7. to \in Nat
    BY <1>4
  <1>8. /\ br.read_crc16 \o BytesOf(br, CrcPlace(br), to)
               = SubSeq(stream, lastSync + 1, fed - Available(br) + to)
        /\ lastSync <= fed - Available(br) + to
    BY <1>3, <1>4, <1>7, CrcGrows
  <1>9. /\ Consumed(br') = Consumed(b)
        /\ fed' - Available(br') = fed - Available(b)
    BY RefillKeepsBuffer DEF b
  <1>10. CrcPlace(br') = CrcPlace(b)
    BY <1>6 DEF CrcPlace
  <1>11. CrcBehind(br')
    BY <1>4, <1>6, <1>9, <1>10 DEF CrcBehind
  <1>12. CrcAt' = fed - Available(br) + to
    <2>1. Available(br) \in Nat /\ fed \in Nat
      BY <1>3, PositionIsBits, StreamIsBytes
    <2> QED
      BY <1>4, <1>5, <1>9, <1>10, <2>1 DEF CrcAt
  <1> HIDE DEF to
  <1> QED
    BY <1>2, <1>4, <1>6, <1>8, <1>11, <1>12 DEF CrcOfFrame

\* So does every step of a read.
LEMMA ReadStepKeepsCrc ==
    ASSUME Inv, CrcInv, ReadStep
    PROVE  CrcInv'
  <1> SUFFICES ASSUME frame' \in {"header", "body"} PROVE CrcOfFrame'
    BY DEF CrcInv
  <1>1. /\ call.todo # <<>> /\ AfterRead /\ UNCHANGED <<stream, lastSync>> /\ TypeInv
        /\ BufferInv
    BY DEF ReadStep, AfterRead, Inv
  <1>2. frame \in {"header", "body"} /\ CrcOfFrame
    BY <1>1 DEF AfterRead, CrcInv, TypeInv
  <1>3. ASSUME UNCHANGED fed, OverIt PROVE CrcOfFrame'
    <2>1. 0 \in Nat /\ Moves(0) /\ SameCrc
      BY <1>3 DEF OverIt
    <2> QED
      BY <1>1, <1>2, <1>3, <2>1, MovingKeepsCrc
  <1>4. ASSUME UNCHANGED fed, NEW n, NEW bits, NEW parts, Takes(n, bits, parts)
        PROVE  CrcOfFrame'
    <2>1. n \in Nat /\ Moves(n) /\ SameCrc
      BY <1>4 DEF Takes
    <2> QED
      BY <1>1, <1>2, <1>4, <2>1, MovingKeepsCrc
  <1>5. CASE UNCHANGED fed /\ DoRaw
    BY <1>1, <1>3, <1>4, <1>5, RawTakes
  <1>6. CASE UNCHANGED fed /\ DoBits
    BY <1>1, <1>4, <1>6, BitsTake
  <1>7. CASE UNCHANGED fed /\ DoUnary
    <2>1. UnaryTakes
      BY <1>1, <1>7, UnaryTakesZeros
    <2> QED
      BY <1>4, <1>7, <2>1 DEF UnaryTakes
  <1>8. CASE UNCHANGED fed /\ DoBlock
    BY <1>1, <1>3, <1>4, <1>8, BlockStarts
  <1>9. CASE UNCHANGED fed /\ DoBlockByte
    BY <1>1, <1>4, <1>9, BlockByteTakes
  <1>10. CASE UNCHANGED fed /\ DoBlockWord
    BY <1>1, <1>4, <1>10, BlockWordTakes
  <1>11. CASE UNCHANGED fed /\ DoBlockEnd
    BY <1>1, <1>4, <1>11, BlockIsDone
  <1>12. ASSUME NEW n \in 0..(Capacity * BytesPerWord), NEW ok \in BOOLEAN, Refill(n, ok)
         PROVE  CrcOfFrame'
    <2>1. n \in Nat
      BY Sizes DEF BufferBytes
    <2> QED
      BY <1>1, <1>2, <1>12, <2>1, RefillKeepsCrc
  <1> QED
    BY <1>5, <1>6, <1>7, <1>8, <1>9, <1>10, <1>11, <1>12 DEF ReadStep

\* At a whole byte the place is that byte of the stream.
LEMMA AlignedPlace ==
    ASSUME TypeInv, BufferInv, ByteAligned(br)
    PROVE  LET p == br.consumed_words * BytesPerWord + br.consumed_bits \div BitsPerByte IN
           /\ p \in Nat /\ p * BitsPerByte = Consumed(br) /\ p <= Available(br)
           /\ Position \div BitsPerByte = fed - Available(br) + p
           /\ Position % BitsPerByte = 0
           /\ Position = (fed - Available(br) + p) * BitsPerByte
  <1> DEFINE p == br.consumed_words * BytesPerWord + br.consumed_bits \div BitsPerByte
             b == SetFramesyncLocation(br)
             place == fed - Available(br) + p
  <1>1. /\ b.last_seen_framesync \in Nat
        /\ b.last_seen_framesync * BitsPerByte = Consumed(br)
        /\ b.last_seen_framesync <= Available(br)
    BY Remembering DEF TypeInv, BufferInv
  <1>2. b.last_seen_framesync = p
    <2>1. br \in Readers(Byte)
      BY DEF TypeInv
    <2> QED
      BY <2>1 DEF SetFramesyncLocation, Readers
  <1> HIDE DEF b, p
  <1>3. p \in Nat /\ p * BitsPerByte = Consumed(br) /\ p <= Available(br)
    BY <1>1, <1>2
  <1>4. /\ fed \in Nat /\ Available(br) \in Nat /\ Available(br) <= fed
    BY StreamIsBytes, PositionIsBits DEF BufferInv
  <1>5. place \in Nat
    BY <1>3, <1>4
  <1>6. Position = BitsPerByte * place + 0 /\ Position = place * BitsPerByte
    <2>1. Position = (fed - Available(br)) * BitsPerByte + p * BitsPerByte
      BY <1>3, PositionIsBits, PositionIsInStream
    <2>2. \A j, k \in Nat : /\ j * BitsPerByte + k * BitsPerByte = BitsPerByte * (j + k) + 0
                            /\ j * BitsPerByte + k * BitsPerByte = (j + k) * BitsPerByte
      BY ReaderAssumption
    <2>3. fed - Available(br) \in Nat
      BY <1>4
    <2> QED
      BY <1>3, <2>1, <2>2, <2>3
  <1> HIDE DEF place
  <1>7. Position \div BitsPerByte = place /\ Position % BitsPerByte = 0
    <2>1. 0 \in 0..(BitsPerByte - 1)
      BY ReaderAssumption
    <2>2. (BitsPerByte * place + 0) \div BitsPerByte = place
          /\ (BitsPerByte * place + 0) % BitsPerByte = 0
      BY <1>5, <2>1, DivisionIsUnique, ReaderAssumption
    <2> QED
      BY <1>6, <2>2
  <1> QED
    BY <1>3, <1>6, <1>7 DEF p, place

\* A piece that ends in front of its beginning is empty.
LEMMA NoSubSeq ==
    ASSUME NEW s, NEW k \in Int
    PROVE  SubSeq(s, k + 1, k) = <<>>
  <1>1. k + 1 \in Int /\ k < k + 1
    OBVIOUS
  <1> DEFINE m == k + 1
  <1> HIDE DEF m
  <1>2. m \in Int /\ k < m => SubSeq(s, m, k) = <<>>
    BY SubSeqEmpty
  <1> QED
    BY <1>1, <1>2 DEF m

\* From a sync on the CRC is one of no bytes yet.
LEMMA SyncStartsCrc ==
    ASSUME Inv, FrameSync
    PROVE  /\ CrcInv' /\ Position' = Position /\ call' = call /\ stream' = stream
           /\ call.todo = <<>>
           /\ Position % BitsPerByte = 0 /\ lastSync' = Position \div BitsPerByte
  <1> DEFINE b == SetFramesyncLocation(br)
             p == br.consumed_words * BytesPerWord + br.consumed_bits \div BitsPerByte
  <1>1. /\ call.todo = <<>> /\ ByteAligned(br)
        /\ br' = ResetReadCrc16(b, <<>>)
        /\ lastSync' = Position \div BitsPerByte /\ frame' = "header"
        /\ UNCHANGED <<stream, fed, call, limitEnd>>
    BY DEF FrameSync, Ready, Between
  <1>2. TypeInv /\ BufferInv /\ br \in Readers(Byte)
    BY DEF Inv, TypeInv
  <1>3. /\ p \in Nat /\ p * BitsPerByte = Consumed(br)
        /\ Position \div BitsPerByte = fed - Available(br) + p
        /\ Position % BitsPerByte = 0
    BY <1>1, <1>2, AlignedPlace
  <1>4. b \in Readers(Byte) /\ SamePlace(b, br)
    BY <1>1, Remembering DEF Inv, TypeInv, BufferInv
  <1>5. b.consumed_words = br.consumed_words /\ b.consumed_bits = br.consumed_bits
    BY <1>4 DEF SamePlace
  <1> HIDE DEF b
  <1>6. /\ SamePlace(br', br)
        /\ br'.read_crc16 = <<>> /\ br'.crc16_offset = br.consumed_words
        /\ br'.crc16_align = br.consumed_bits
    BY <1>1, <1>4, <1>5 DEF ResetReadCrc16, SamePlace, Readers
  <1>7. Available(br') = Available(br) /\ Consumed(br') = Consumed(br)
        /\ Unconsumed(br') = Unconsumed(br)
    BY <1>6, SamePlaceSameMeasures
  <1>8. CrcPlace(br') = p
    BY <1>6 DEF CrcPlace
  <1> HIDE DEF p
  <1>9. CrcBehind(br')
    <2>1. br.consumed_bits % BitsPerByte = 0 /\ br.consumed_bits < BitsPerWord
      BY <1>1, <1>2 DEF ByteAligned, BufferInv, Sane
    <2>2. p * BitsPerByte <= Consumed(br)
      BY <1>2, <1>3, PositionIsBits
    <2> QED
      BY <1>6, <1>7, <1>8, <2>1, <2>2 DEF CrcBehind
  <1>10. CrcAt' = lastSync'
    BY <1>1, <1>3, <1>7, <1>8 DEF CrcAt
  <1>11. lastSync' \in Int
    <2>1. fed \in Nat /\ Available(br) \in Nat
      BY <1>2, StreamIsBytes, PositionIsBits
    <2> QED
      BY <1>1, <1>3, <2>1
  <1>12. SubSeq(stream', lastSync' + 1, CrcAt') = <<>>
    <2>1. \A k \in Int : SubSeq(stream', k + 1, k) = <<>>
      BY NoSubSeq
    <2> QED
      BY <1>10, <1>11, <2>1
  <1>13. CrcOfFrame'
    <2>1. lastSync' <= CrcAt'
      BY <1>10, <1>11
    <2> QED
      BY <1>6, <1>9, <1>12, <2>1 DEF CrcOfFrame
  <1>14. Position' = Position
    BY <1>1, <1>7 DEF Position
  <1> QED
    BY <1>1, <1>3, <1>13, <1>14 DEF CrcInv

\* The CRC that read_frame_ compares is that of the bytes from the sync to here.
LEMMA FrameCrcIsOfFrame ==
    ASSUME Inv, CrcInv, FrameCrc
    PROVE  /\ br'.read_crc16 = SubSeq(stream, lastSync + 1, Position \div BitsPerByte)
           /\ Position % BitsPerByte = 0 /\ Position' = Position
  <1> DEFINE p == br.consumed_words * BytesPerWord + br.consumed_bits \div BitsPerByte
             here == fed - Available(br)
  <1>1. /\ frame = "body" /\ ByteAligned(br) /\ br' = GetReadCrc16(br)
        /\ UNCHANGED <<stream, fed, lastSync>>
    BY DEF FrameCrc
  <1>2. /\ TypeInv /\ BufferInv /\ br \in Readers(Byte) /\ Sane(br) /\ CrcOfFrame
        /\ CrcBehind(br)
    BY <1>1 DEF Inv, TypeInv, BufferInv, CrcInv, CrcOfFrame
  <1>3. /\ p \in Nat /\ p * BitsPerByte = Consumed(br)
        /\ Position \div BitsPerByte = here + p
        /\ Position % BitsPerByte = 0
    BY <1>1, <1>2, AlignedPlace
  <1> HIDE DEF p
  <1>4. /\ br'.read_crc16 = br.read_crc16 \o BytesOf(br, CrcPlace(br), p)
        /\ CrcPlace(br) <= p
    BY <1>1, <1>2, <1>3, CrcTakesBytes
  <1>5. p * BitsPerByte <= Consumed(br)
    <2>1. Consumed(br) \in Nat
      BY <1>3, ReaderAssumption
    <2> QED
      BY <1>3, <2>1
  <1>6. br.read_crc16 \o BytesOf(br, CrcPlace(br), p) = SubSeq(stream, lastSync + 1, here + p)
    BY <1>2, <1>3, <1>4, <1>5, CrcGrows
  <1>7. Position' = Position
    <2>1. SamePlace(br', br)
      BY <1>1, <1>2, GetCrcKeepsPlace
    <2>2. Unconsumed(br') = Unconsumed(br)
      BY <2>1, SamePlaceSameMeasures
    <2> QED
      BY <1>1, <2>2 DEF Position
  <1> QED
    BY <1>3, <1>4, <1>6, <1>7

-------------------------------------------------------------------------------
(* What is seen of the steps between two reads *)

InPlace ==
    /\ Position \in Nat /\ Position <= StreamBits /\ StreamBits \in Nat
    /\ Position = (fed - Available(br)) * BitsPerByte + Consumed(br)

\* The place is one of the stream.
LEMMA ReaderIsInPlace == Inv => InPlace
  <1> SUFFICES ASSUME Inv PROVE InPlace
    OBVIOUS
  <1>1. /\ Position \in Nat /\ Position <= fed * BitsPerByte
        /\ Position = (fed - Available(br)) * BitsPerByte + Consumed(br)
    BY PositionIsBits, PositionIsInStream DEF Inv
  <1>2. /\ fed \in Nat /\ Len(stream) \in Nat /\ fed <= Len(stream)
    BY StreamIsBytes DEF Inv, TypeInv
  <1>3. /\ fed * BitsPerByte \in Nat /\ StreamBits \in Nat
        /\ fed * BitsPerByte <= StreamBits
    BY <1>2, ReaderAssumption DEF StreamBits
  <1> QED
    BY <1>1, <1>3 DEF InPlace

\* Between two reads nothing is done that the decoder sees.
Quiet ==
    /\ call.todo = <<>> /\ Position' = Position
    /\ UNCHANGED <<stream, call, lastSync>>

\* Limits move nothing.
LEMMA LimitsAreQuiet ==
    ASSUME Inv, (\E n \in LimitLengths : BlockLimit(n)) \/ GiveUpBlock \/ EndBlock
    PROVE  Quiet /\ frame' = "search"
  <1>1. /\ call.todo = <<>> /\ UNCHANGED <<stream, fed, call, lastSync, frame>>
        /\ \/ \E n \in LimitLengths : br' = SetLimit(br, n * BitsPerByte)
           \/ br' = InvalidateLimit(br) \/ br' = RemoveLimit(br)
    BY DEF BlockLimit, GiveUpBlock, EndBlock, Ready, Between
  <1>2. frame = "search"
    BY DEF BlockLimit, GiveUpBlock, EndBlock, Inv, LimitInv
  <1>3. Stands
    <2>1. br \in Readers(Byte) /\ 0 \in Int
      BY DEF Inv, TypeInv
    <2>2. /\ InvalidateLimit(br) \in Readers(Byte) /\ SamePlace(InvalidateLimit(br), br)
          /\ InvalidateLimit(br).last_seen_framesync = br.last_seen_framesync
          /\ RemoveLimit(br) \in Readers(Byte) /\ SamePlace(RemoveLimit(br), br)
          /\ RemoveLimit(br).last_seen_framesync = br.last_seen_framesync
      BY <2>1, Limiting
    <2>3. \A limit \in Int :
              /\ SetLimit(br, limit) \in Readers(Byte) /\ SamePlace(SetLimit(br, limit), br)
              /\ SetLimit(br, limit).last_seen_framesync = br.last_seen_framesync
      BY <2>1 DEF SetLimit, Readers, SamePlace
    <2>4. \A n \in LimitLengths : n * BitsPerByte \in Int
      BY UseAssumption, ReaderAssumption
    <2> QED
      BY <1>1, <2>2, <2>3, <2>4 DEF Stands
  <1>4. Position' = Position
    BY <1>1, <1>3, StandingKeepsBuffer
  <1> QED
    BY <1>1, <1>2, <1>4 DEF Quiet

\* The decoder goes on searching where the reader is.
LEMMA ResumingIsQuiet ==
    ASSUME BadHeader \/ GoodFrame
    PROVE  Quiet /\ frame' = "search"
  <1>1. /\ call.todo = <<>> /\ frame' = "search"
        /\ UNCHANGED <<stream, fed, br, call, lastSync>>
    BY DEF BadHeader, GoodFrame, Ready, Between
  <1> QED
    BY <1>1 DEF Quiet, Position

\* After a bad frame the reader is one byte behind its sync, or, when the buffer has
\* lost the sync, right behind it.
LEMMA BadFrameGoesBack ==
    ASSUME Inv, BadFrame
    PROVE  /\ call.todo = <<>> /\ frame' = "search"
           /\ UNCHANGED <<stream, call, lastSync>>
           /\ Position' \in {lastSync * BitsPerByte, (lastSync + 1) * BitsPerByte}
  <1> DEFINE b == RewindToAfterLastSeenFramesync(br)
  <1>1. /\ call.todo = <<>> /\ frame \in {"body", "footer"} /\ frame' = "search"
        /\ UNCHANGED <<stream, call, lastSync>>
        /\ FramesyncInBuffer(br) => br' = b /\ UNCHANGED fed
        /\ ~FramesyncInBuffer(br) => br' = Clear(b) /\ fed' = lastSync
    BY DEF BadFrame, Between
  <1>2. /\ br.last_seen_framesync \in Nat /\ Available(br) \in Nat /\ fed \in Nat
        /\ lastSync \in Nat /\ Available(br) <= fed
    BY PositionIsBits, StreamIsBytes DEF Inv, TypeInv, BufferInv, Readers
  <1>3. FramesyncInBuffer(br) =>
            /\ br.last_seen_framesync < Available(br)
            /\ fed - Available(br) + br.last_seen_framesync = lastSync
    BY <1>1 DEF Inv, SyncInv
  <1>4. FramesyncInBuffer(br) => br.last_seen_framesync + 1 <= Available(br)
    BY <1>2, <1>3
  <1>5. /\ b \in Readers(Byte) /\ Available(b) = Available(br)
        /\ Consumed(b) = IF FramesyncInBuffer(br)
                         THEN (br.last_seen_framesync + 1) * BitsPerByte ELSE 0
    BY <1>4, Rewinding DEF Inv, TypeInv, BufferInv
  <1> HIDE DEF b
  <1>6. Inv'
    <2>1. [Next]_vars
      BY DEF Next
    <2> QED
      BY <2>1, NextKeepsInv
  <1>7. Position' = (fed' - Available(br')) * BitsPerByte + Consumed(br')
    <2>1. InPlace'
      BY <1>6, ReaderIsInPlace, PTL
    <2> QED
      BY <2>1 DEF InPlace
  <1>8. CASE FramesyncInBuffer(br)
    <2>1. Position' = (fed - Available(br)) * BitsPerByte
                          + (br.last_seen_framesync + 1) * BitsPerByte
      BY <1>1, <1>5, <1>7, <1>8
    <2>2. \A j, k \in Nat : j * BitsPerByte + k * BitsPerByte = (j + k) * BitsPerByte
      BY ReaderAssumption
    <2>3. /\ fed - Available(br) \in Nat /\ br.last_seen_framesync + 1 \in Nat
          /\ fed - Available(br) + (br.last_seen_framesync + 1) = lastSync + 1
      BY <1>2, <1>3, <1>8
    <2>4. Position' = (fed - Available(br) + (br.last_seen_framesync + 1)) * BitsPerByte
      BY <2>1, <2>2, <2>3
    <2> QED
      BY <1>1, <2>3, <2>4
  <1>9. CASE ~FramesyncInBuffer(br)
    <2>1. Available(br') = 0 /\ Consumed(br') = 0 /\ fed' = lastSync
      BY <1>1, <1>5, <1>9, Clearing
    <2>2. lastSync * BitsPerByte \in Nat /\ lastSync - 0 = lastSync
      BY <1>2, ReaderAssumption
    <2> QED
      BY <1>1, <1>7, <2>1, <2>2
  <1> QED
    BY <1>1, <1>8, <1>9

\* After a seek the reader is at the byte it goes to.
LEMMA SeekGoesThere ==
    ASSUME Inv, NEW p \in SeekPoints, SeekTo(p)
    PROVE  /\ call.todo = <<>> /\ frame' = "search" /\ call' = NoCall /\ lastSync' = 0
           /\ stream' = stream /\ p \in 0..Len(stream) /\ Position' = p * BitsPerByte
  <1>1. /\ call.todo = <<>> /\ p <= Len(stream)
        /\ br' = Clear(br) /\ fed' = p /\ lastSync' = 0
        /\ call' = NoCall /\ frame' = "search" /\ UNCHANGED stream
    BY DEF SeekTo, Between
  <1>2. p \in 0..Len(stream) /\ p \in Nat
    BY <1>1, StreamIsBytes, UseAssumption DEF Inv
  <1>3. Unconsumed(br') = 0
    <2>1. br \in Readers(Byte)
      BY DEF Inv, TypeInv
    <2> QED
      BY <1>1, <2>1, Clearing
  <1>4. Position' = p * BitsPerByte
    <2>1. p * BitsPerByte \in Nat
      BY <1>2, ReaderAssumption
    <2> QED
      BY <1>1, <1>3, <2>1 DEF Position
  <1> QED
    BY <1>1, <1>2, <1>4

\* All that the proof of the refinement rests on
Whole == Inv /\ AnswerInv /\ CrcInv

\* Between two reads nothing is owed.
LEMMA NothingIsAnswered ==
    ASSUME call'.todo = <<>>
    PROVE  AnswerInv'
  BY DEF AnswerInv

\* Outside of a frame there is no CRC to keep.
LEMMA NothingInFrame ==
    ASSUME frame' \notin {"header", "body"}
    PROVE  CrcInv'
  BY DEF CrcInv

\* Asking keeps it.
LEMMA AskingKeepsWhole ==
    ASSUME Whole, NEW want, NEW parts, AskedFor(want, parts)
    PROVE  AnswerInv' /\ CrcInv'
  <1>1. AnswerInv' /\ UNCHANGED <<stream, fed, br, lastSync, frame>>
    BY AskingAnswers DEF Whole
  <1>2. CrcInv'
    BY <1>1 DEF Whole, CrcInv, CrcOfFrame, CrcAt
  <1> QED
    BY <1>1, <1>2

\* It holds at first.
LEMMA WholeAtFirst ==
    ASSUME Init
    PROVE  Whole
  <1>1. call.todo = <<>> /\ frame = "search"
    BY DEF Init, NoCall
  <1> QED
    BY <1>1, InitHolds DEF Whole, AnswerInv, CrcInv

\* Every step keeps it.
LEMMA NextKeepsWhole ==
    ASSUME Whole, [Next]_vars
    PROVE  Whole'
  <1>1. Inv /\ AnswerInv /\ CrcInv /\ Inv'
    BY NextKeepsInv DEF Whole
  <1>2. CASE ReadStep
    BY <1>1, <1>2, ReadStepAnswers, ReadStepKeepsCrc DEF Whole
  <1>3. CASE Asks
    BY <1>1, <1>3, AskingKeepsWhole DEF Asks, Whole
  <1>4. CASE \/ \E bits \in RawLengths : ReadRawUint32(bits)
             \/ \E bits \in LongLengths : ReadRawUint64(bits)
             \/ ReadUnary
    BY <1>1, <1>3, <1>4, ReadsAsk
  <1>5. CASE Metadata
    BY <1>1, <1>3, <1>5, MetadataAsks
  <1>6. ASSUME Quiet, frame' = "search" PROVE Whole'
    <2>1. call'.todo = <<>>
      BY <1>6 DEF Quiet
    <2> QED
      BY <1>1, <1>6, <2>1, NothingIsAnswered, NothingInFrame DEF Whole
  <1>7. CASE (\E n \in LimitLengths : BlockLimit(n)) \/ GiveUpBlock \/ EndBlock
    BY <1>1, <1>6, <1>7, LimitsAreQuiet
  <1>8. CASE BadHeader \/ GoodFrame
    BY <1>6, <1>8, ResumingIsQuiet
  <1>9. CASE FrameSync
    <2>1. CrcInv' /\ call'.todo = <<>>
      BY <1>1, <1>9, SyncStartsCrc
    <2> QED
      BY <1>1, <2>1, NothingIsAnswered DEF Whole
  <1>10. CASE FrameCrc
    <2>1. call'.todo = <<>> /\ frame' = "footer"
      BY <1>10 DEF FrameCrc, NoCall
    <2> QED
      BY <1>1, <2>1, NothingIsAnswered, NothingInFrame DEF Whole
  <1>11. CASE BadFrame
    <2>1. call'.todo = <<>> /\ frame' = "search"
      BY <1>1, <1>11, BadFrameGoesBack
    <2> QED
      BY <1>1, <2>1, NothingIsAnswered, NothingInFrame DEF Whole
  <1>12. ASSUME NEW p \in SeekPoints, SeekTo(p) PROVE Whole'
    <2>1. call'.todo = <<>> /\ frame' = "search"
      BY <1>1, <1>12, SeekGoesThere DEF NoCall
    <2> QED
      BY <1>1, <2>1, NothingIsAnswered, NothingInFrame DEF Whole
  <1>13. CASE UNCHANGED vars
    <2>1. UNCHANGED <<stream, fed, br, call, lastSync, frame>>
      BY <1>13 DEF vars
    <2>2. AnswerInv'
      BY <1>1, <2>1 DEF AnswerInv, Gathered, AllZeros, Owed, Position, StreamBit
    <2>3. CrcInv'
      BY <1>1, <2>1 DEF CrcInv, CrcOfFrame, CrcAt
    <2> QED
      BY <1>1, <2>2, <2>3 DEF Whole
  <1> QED
    BY <1>2, <1>4, <1>5, <1>7, <1>8, <1>9, <1>10, <1>11, <1>12, <1>13 DEF Next

-------------------------------------------------------------------------------
(* The reader as a stream of bits *)

\* What the reader looks like to one who sees a stream only
Seen == IF call.todo = <<>> THEN Position ELSE call.from
AnswerSeen == [want |-> call.want,
               status |-> IF call.todo # <<>> THEN "pending"
                          ELSE IF call.end = "ok" THEN "ok" ELSE "failed",
               got |-> IF call.todo # <<>> THEN <<>> ELSE call.got]

\* A step in which neither changes is none of the stream.
LEMMA StandingStill ==
    ASSUME Seen' = Seen, AnswerSeen' = AnswerSeen, UNCHANGED <<stream, lastSync>>
    PROVE  UNCHANGED Abstract!vars
  BY DEF Abstract!vars, Seen, AnswerSeen

\* A quiet step is none.
LEMMA QuietStandsStill ==
    ASSUME Quiet
    PROVE  UNCHANGED Abstract!vars
  BY StandingStill DEF Quiet, Seen, AnswerSeen

\* The bits of both are the same.
LEMMA BitsAreBits ==
    /\ \A p : Abstract!Bit(p) = StreamBit(p)
    /\ \A from, n : Abstract!BitsFrom(from, n) = [k \in 1..n |-> StreamBit(from + k - 1)]
    /\ Abstract!End = StreamBits
  BY DEF Abstract!Bit, StreamBit, Abstract!BitsFrom, Abstract!End, StreamBits

\* A read that begins asks the stream, or is one of no bits.
LEMMA AskIsAsk ==
    ASSUME Inv, NEW want, NEW parts, AskedFor(want, parts)
    PROVE  Abstract!Next
  <1>1. /\ call.todo = <<>> /\ UNCHANGED <<stream, lastSync>>
        /\ call'.want = want /\ call'.todo = parts /\ call'.got = <<>>
        /\ call'.end = "ok" /\ call'.from = Position /\ Position' = Position
    BY AskingAnswers
  <1>2. Seen' = Seen /\ AnswerSeen.status # "pending"
    BY <1>1 DEF Seen, AnswerSeen
  <1>3. \/ want = Unary /\ parts = <<UnaryPart>>
        \/ want \in AllLengths /\ want \in Nat /\ Leads(parts, 0, want)
    BY DEF AskedFor
  <1>4. CASE parts # <<>>
    <2>1. AnswerSeen' = [want |-> want, status |-> "pending", got |-> <<>>]
      BY <1>1, <1>4 DEF AnswerSeen
    <2>2. want \in AllLengths \cup {Abstract!Unary}
      BY <1>3 DEF Unary, Abstract!Unary
    <2>3. Abstract!Ask
      BY <1>1, <1>2, <2>1, <2>2
         DEF Abstract!Ask, Abstract!Result, Seen, AnswerSeen, AllLengths
    <2> QED
      BY <2>3 DEF Abstract!Next
  <1>5. CASE parts = <<>>
    <2>1. want = 0 /\ want \in AllLengths
      <3>1. <<UnaryPart>> # <<>>
        OBVIOUS
      <3> QED
        BY <1>3, <1>5, <3>1, NoPartsLead
    <2>2. AnswerSeen' = [want |-> 0, status |-> "ok", got |-> <<>>]
      BY <1>1, <1>5, <2>1 DEF AnswerSeen
    <2>3. Abstract!ReadNothing
      BY <1>1, <1>2, <2>1, <2>2
         DEF Abstract!ReadNothing, Abstract!Nothing, Abstract!Result, Seen, AnswerSeen,
             AllLengths
    <2> QED
      BY <2>3 DEF Abstract!Next
  <1> QED
    BY <1>4, <1>5

\* A step of a read is seen when the read ends: with its bits, with its number or failed.
LEMMA ReadStepIsSeen ==
    ASSUME Inv, Inv', AnswerInv, ReadStep
    PROVE  Abstract!Next \/ UNCHANGED Abstract!vars
  <1>1. call.todo # <<>> /\ UNCHANGED <<stream, lastSync>>
    BY DEF ReadStep
  <1>2. Outcome
    BY ReadStepAnswers
  <1>3. /\ call.from \in Nat /\ call'.from = call.from /\ call'.want = call.want
    BY <1>2 DEF Outcome
  <1>4. Position' \in Nat /\ Position' <= StreamBits /\ StreamBits \in Nat
    <2>1. InPlace'
      BY ReaderIsInPlace, PTL
    <2>2. StreamBits' = StreamBits
      BY <1>1 DEF StreamBits
    <2> QED
      BY <2>1, <2>2 DEF InPlace
  <1>5. Seen = call.from /\ AnswerSeen.status = "pending" /\ AnswerSeen.want = call.want
    BY <1>1 DEF Seen, AnswerSeen
  <1>6. CASE call'.todo # <<>>
    <2>1. Seen' = Seen /\ AnswerSeen' = AnswerSeen
      BY <1>1, <1>3, <1>6 DEF Seen, AnswerSeen
    <2> QED
      BY <1>1, <2>1, StandingStill
  <1>7. CASE AllGot
    <2>1. /\ call'.todo = <<>> /\ call.want \in Nat
          /\ Position' = call.from + call.want
          /\ call'.got = [k \in 1..call.want |-> StreamBit(call.from + k - 1)]
          /\ call'.end = "ok"
      BY <1>7 DEF AllGot
    <2>2. /\ Seen' = Seen + AnswerSeen.want
          /\ AnswerSeen' = [want |-> AnswerSeen.want, status |-> "ok", got |-> call'.got]
      BY <1>3, <1>5, <2>1 DEF Seen, AnswerSeen
    <2>3. call'.got = Abstract!BitsFrom(Seen, AnswerSeen.want)
      BY <1>5, <2>1, BitsAreBits
    <2>4. AnswerSeen.want # Abstract!Unary /\ Seen + AnswerSeen.want <= Abstract!End
      BY <1>4, <1>5, <2>1, BitsAreBits DEF Abstract!Unary
    <2>5. Abstract!Read
      BY <1>1, <1>5, <2>2, <2>3, <2>4
         DEF Abstract!Read, Abstract!Result, Seen, AnswerSeen
    <2> QED
      BY <2>5 DEF Abstract!Next
  <1>8. CASE UnaryGot
    <2>1. /\ call'.todo = <<>> /\ call.want = Unary /\ call'.end = "ok"
      BY <1>8 DEF UnaryGot
    <2>2. PICK n \in Nat :
            /\ n > 0 /\ Position' = call.from + n
            /\ call'.got = [k \in 1..n |-> StreamBit(call.from + k - 1)]
            /\ StreamBit(call.from + n - 1) = 1
            /\ \A k \in 1..(n - 1) : StreamBit(call.from + k - 1) = 0
      BY <1>8 DEF UnaryGot
    <2>3. n \in 1..(Abstract!End - Seen)
      BY <1>3, <1>4, <1>5, <2>2, BitsAreBits
    <2>4. /\ Abstract!Bit(Seen + n - 1) = 1
          /\ \A k \in 1..(n - 1) : Abstract!Bit(Seen + k - 1) = 0
          /\ call'.got = Abstract!BitsFrom(Seen, n)
      BY <1>5, <2>2, BitsAreBits
    <2>5. /\ Seen' = Seen + n /\ AnswerSeen.want = Abstract!Unary
          /\ AnswerSeen' = [want |-> Abstract!Unary, status |-> "ok",
                            got |-> Abstract!BitsFrom(Seen, n)]
      BY <1>3, <1>5, <2>1, <2>2, <2>4 DEF Seen, AnswerSeen, Unary, Abstract!Unary
    <2>6. Abstract!ReadUnary
      BY <1>1, <1>5, <2>3, <2>4, <2>5
         DEF Abstract!ReadUnary, Abstract!Result, Seen, AnswerSeen
    <2> QED
      BY <2>6 DEF Abstract!Next
  <1>9. CASE GaveUp
    <2>1. /\ call'.todo = <<>> /\ call'.end # "ok" /\ call'.got = <<>>
          /\ Position' >= call.from
      BY <1>9 DEF GaveUp
    <2>2. Seen' \in Seen..Abstract!End
      BY <1>3, <1>4, <1>5, <2>1, BitsAreBits DEF Seen
    <2>3. AnswerSeen' = [want |-> AnswerSeen.want, status |-> "failed", got |-> <<>>]
      BY <1>3, <1>5, <2>1 DEF AnswerSeen
    <2>4. Abstract!Fail
      BY <1>1, <1>5, <2>2, <2>3
         DEF Abstract!Fail, Abstract!Result, Seen, AnswerSeen
    <2> QED
      BY <2>4 DEF Abstract!Next
  <1> QED
    BY <1>2, <1>6, <1>7, <1>8, <1>9 DEF Outcome

\* A sync is one of the stream.
LEMMA SyncIsSync ==
    ASSUME Inv, FrameSync
    PROVE  Abstract!Next
  <1>1. /\ Position' = Position /\ call' = call /\ stream' = stream
        /\ call.todo = <<>>
        /\ Position % BitsPerByte = 0 /\ lastSync' = Position \div BitsPerByte
    BY SyncStartsCrc
  <1>2. /\ Seen = Position /\ Seen' = Seen /\ AnswerSeen' = AnswerSeen
        /\ AnswerSeen.status # "pending"
    BY <1>1 DEF Seen, AnswerSeen
  <1>3. Abstract!FrameSync
    BY <1>1, <1>2 DEF Abstract!FrameSync, Seen, AnswerSeen
  <1> QED
    BY <1>3 DEF Abstract!Next

\* The CRC of a frame is the one of the bytes since its sync.
LEMMA CrcIsCrc ==
    ASSUME Inv, CrcInv, FrameCrc
    PROVE  Abstract!Next
  <1>1. /\ call.todo = <<>> /\ UNCHANGED <<stream, lastSync>>
        /\ call' = [NoCall EXCEPT !.want = Crc, !.got = br'.read_crc16]
    BY DEF FrameCrc, Ready, Between
  <1>2. /\ br'.read_crc16 = SubSeq(stream, lastSync + 1, Position \div BitsPerByte)
        /\ Position % BitsPerByte = 0 /\ Position' = Position
    BY FrameCrcIsOfFrame
  <1>3. call'.want = Crc /\ call'.todo = <<>> /\ call'.end = "ok"
        /\ call'.got = br'.read_crc16
    BY <1>1 DEF NoCall
  <1>4. /\ Seen = Position /\ Seen' = Seen /\ AnswerSeen.status # "pending"
        /\ AnswerSeen' = [want |-> Abstract!Crc, status |-> "ok",
                          got |-> SubSeq(stream, lastSync + 1, Seen \div BitsPerByte)]
    BY <1>1, <1>2, <1>3 DEF Seen, AnswerSeen, Crc, Abstract!Crc
  <1>5. Abstract!FrameCrc
    BY <1>1, <1>2, <1>4 DEF Abstract!FrameCrc, Abstract!Result, Seen, AnswerSeen
  <1> QED
    BY <1>5 DEF Abstract!Next

\* A bad frame takes the stream back.
LEMMA BadFrameIsRewind ==
    ASSUME Inv, BadFrame
    PROVE  Abstract!Next
  <1>1. /\ call.todo = <<>> /\ UNCHANGED <<stream, call, lastSync>>
        /\ Position' \in {lastSync * BitsPerByte, (lastSync + 1) * BitsPerByte}
    BY BadFrameGoesBack
  <1>2. /\ Seen' = Position' /\ AnswerSeen' = AnswerSeen
        /\ AnswerSeen.status # "pending"
    BY <1>1 DEF Seen, AnswerSeen
  <1>3. Abstract!Rewind
    BY <1>1, <1>2 DEF Abstract!Rewind, Seen, AnswerSeen
  <1> QED
    BY <1>3 DEF Abstract!Next

\* A seek is a seek.
LEMMA SeekIsSeek ==
    ASSUME Inv, NEW p \in SeekPoints, SeekTo(p)
    PROVE  Abstract!Next
  <1>1. /\ call.todo = <<>> /\ call' = NoCall /\ lastSync' = 0
        /\ stream' = stream /\ p \in 0..Len(stream) /\ Position' = p * BitsPerByte
    BY SeekGoesThere
  <1>2. /\ Seen' = p * BitsPerByte /\ AnswerSeen.status # "pending"
        /\ AnswerSeen' = [want |-> 0, status |-> "ok", got |-> <<>>]
    BY <1>1 DEF Seen, AnswerSeen, NoCall
  <1>3. Abstract!Seek
    BY <1>1, <1>2
       DEF Abstract!Seek, Abstract!Nothing, Abstract!Result, Seen, AnswerSeen
  <1> QED
    BY <1>3 DEF Abstract!Next

\* The reader starts where the stream does.
LEMMA InitIsInit ==
    ASSUME Init
    PROVE  Abstract!Init
  <1>1. /\ stream \in Streams /\ call = NoCall /\ lastSync = 0 /\ fed = 0
    BY DEF Init
  <1>2. Position = 0
    <2>1. Unconsumed(br) = 0
      BY Sizes, ReaderAssumption DEF Init, NewReader, Unconsumed
    <2> QED
      BY <1>1, <2>1, ReaderAssumption DEF Position
  <1>3. Seen = 0 /\ AnswerSeen = [want |-> 0, status |-> "ok", got |-> <<>>]
    BY <1>1, <1>2 DEF Seen, AnswerSeen, NoCall
  <1> QED
    BY <1>1, <1>3 DEF Abstract!Init, Abstract!Nothing, Abstract!Result, Seen, AnswerSeen

\* Together: every step of the reader is one of the stream, or none.
LEMMA StepsAreSteps ==
    Whole /\ Whole' /\ [Next]_vars => [Abstract!Next]_Abstract!vars
  <1> SUFFICES ASSUME Whole, Whole', [Next]_vars
               PROVE  Abstract!Next \/ UNCHANGED Abstract!vars
    OBVIOUS
  <1>1. Inv /\ Inv' /\ AnswerInv /\ CrcInv
    BY DEF Whole
  <1>2. CASE ReadStep
    BY <1>1, <1>2, ReadStepIsSeen
  <1>3. CASE Asks
    BY <1>1, <1>3, AskIsAsk DEF Asks
  <1>4. CASE \/ \E bits \in RawLengths : ReadRawUint32(bits)
             \/ \E bits \in LongLengths : ReadRawUint64(bits)
             \/ ReadUnary
    BY <1>1, <1>3, <1>4, ReadsAsk
  <1>5. CASE Metadata
    BY <1>1, <1>3, <1>5, MetadataAsks
  <1>6. CASE (\E n \in LimitLengths : BlockLimit(n)) \/ GiveUpBlock \/ EndBlock
    BY <1>1, <1>6, LimitsAreQuiet, QuietStandsStill
  <1>7. CASE BadHeader \/ GoodFrame
    BY <1>7, ResumingIsQuiet, QuietStandsStill
  <1>8. CASE FrameSync
    BY <1>1, <1>8, SyncIsSync
  <1>9. CASE FrameCrc
    BY <1>1, <1>9, CrcIsCrc
  <1>10. CASE BadFrame
    BY <1>1, <1>10, BadFrameIsRewind
  <1>11. CASE \E p \in SeekPoints : SeekTo(p)
    BY <1>1, <1>11, SeekIsSeek
  <1>12. CASE UNCHANGED vars
    <2>1. UNCHANGED <<stream, fed, br, call, lastSync>>
      BY <1>12 DEF vars
    <2>2. Seen' = Seen /\ AnswerSeen' = AnswerSeen
      BY <2>1 DEF Seen, AnswerSeen, Position
    <2> QED
      BY <2>1, <2>2, StandingStill
  <1> QED
    BY <1>2, <1>4, <1>5, <1>6, <1>7, <1>8, <1>9, <1>10, <1>11, <1>12 DEF Next

\* Through every refill, shift, swap, limit, failure and rewind the reader reads as one
\* that has the stream: each read returns the bits that come next, or fails, a frame's
\* CRC is that of the bytes since its sync and of no others, and after a bad frame it
\* stands behind the sync again (bitreader.c, all that stream_decoder.c calls of it).
THEOREM ReaderImplementsBitStream == Spec => ImplementsBitStream
  <1>1. Init => Whole
    BY WholeAtFirst
  <1>2. Whole /\ [Next]_vars => Whole'
    BY NextKeepsWhole
  <1>3. Init => Abstract!Init
    BY InitIsInit
  <1> QED
    BY <1>1, <1>2, <1>3, StepsAreSteps, PTL DEF Spec, ImplementsBitStream

-------------------------------------------------------------------------------
(* A block of Rice coded values: where each value begins *)

Binary == {0, 1}
Values == [msbs : Nat, lsbs : Seq(Binary)]

\* What the recursive definition of Starts asks for
AreStarts(f, from, vs, p) ==
    f = [k \in 1..(Len(vs) + 1) |->
            IF k = 1 THEN from ELSE f[k - 1] + (vs[k - 1].msbs + 1 + p)]

ChosenStarts == CHOOSE f : AreStarts(f, start, vals, parameter)

LEMMA StartsAreChosen == Starts = ChosenStarts
  BY DEF Starts, ChosenStarts, AreStarts, Length

LEMMA StartsOfNothing ==
    ASSUME NEW from \in Nat, NEW p \in Nat
    PROVE  /\ \E f : AreStarts(f, from, <<>>, p)
           /\ \A f : AreStarts(f, from, <<>>, p) => f[1] = from
  <1> DEFINE f == [k \in 1..1 |-> from]
  <1>1. f = [k \in 1..(Len(<<>>) + 1) |->
                IF k = 1 THEN from ELSE f[k - 1] + (<<>>[k - 1].msbs + 1 + p)]
    <2>1. Len(<<>>) + 1 = 1 /\ \A k \in 1..1 : k = 1
      OBVIOUS
    <2> QED
      BY <2>1
  <1>2. AreStarts(f, from, <<>>, p)
    BY <1>1 DEF AreStarts
  <1> HIDE DEF f
  <1>3. \A g : AreStarts(g, from, <<>>, p) => g[1] = from
    BY DEF AreStarts
  <1> QED
    BY <1>2, <1>3

\* One more value: the others begin where they did, and the next one behind it.
LEMMA StartsOfOneMore ==
    ASSUME NEW from \in Nat, NEW p \in Nat, NEW vs \in Seq(Values), NEW v \in Values,
           NEW f, AreStarts(f, from, vs, p)
    PROVE  /\ \E g : AreStarts(g, from, Append(vs, v), p)
           /\ \A g : AreStarts(g, from, Append(vs, v), p) =>
                 /\ \A k \in 1..(Len(vs) + 1) : g[k] = f[k]
                 /\ g[Len(vs) + 2] = f[Len(vs) + 1] + (v.msbs + 1 + p)
  <1> DEFINE n == Len(vs)
             more == Append(vs, v)
             next == f[n + 1] + (v.msbs + 1 + p)
             e == [k \in 1..(n + 2) |-> IF k <= n + 1 THEN f[k] ELSE next]
  <1>1. /\ n \in Nat /\ Len(more) = n + 1 /\ more[n + 1] = v
        /\ \A k \in 1..n : more[k] = vs[k]
    OBVIOUS
  <1>2. f = [k \in 1..(n + 1) |->
                IF k = 1 THEN from ELSE f[k - 1] + (vs[k - 1].msbs + 1 + p)]
    BY DEF AreStarts
  <1> HIDE DEF n, more
  <1>3. AreStarts(e, from, more, p)
    <2> DEFINE At(k) == IF k = 1 THEN from ELSE e[k - 1] + (more[k - 1].msbs + 1 + p)
    <2>1. ASSUME NEW k \in 1..(n + 2) PROVE e[k] = At(k)
      <3>1. CASE k = 1
        BY <1>1, <1>2, <3>1
      <3>2. CASE k \in 2..(n + 1)
        <4>1. k \in 1..(n + 1) /\ k - 1 \in 1..n /\ k # 1
          BY <1>1, <3>2
        <4>2. f[k] = f[k - 1] + (vs[k - 1].msbs + 1 + p)
          BY <1>2, <4>1
        <4>3. e[k] = f[k] /\ e[k - 1] = f[k - 1]
          BY <1>1, <4>1
        <4>4. more[k - 1] = vs[k - 1]
          BY <1>1, <4>1
        <4> HIDE DEF e
        <4> QED
          BY <4>1, <4>2, <4>3, <4>4
      <3>3. CASE k = n + 2
        <4>1. k # 1 /\ k - 1 = n + 1 /\ ~(k <= n + 1) /\ n + 1 \in 1..(n + 2)
          BY <1>1, <3>3
        <4>2. e[k] = next /\ e[k - 1] = f[n + 1]
          BY <1>1, <4>1
        <4> HIDE DEF e
        <4> QED
          BY <1>1, <4>1, <4>2
      <3> QED
        BY <1>1, <3>1, <3>2, <3>3
    <2>2. e = [k \in 1..(n + 2) |-> At(k)]
      BY <2>1
    <2>3. Len(more) + 1 = n + 2
      BY <1>1
    <2> QED
      BY <2>2, <2>3 DEF AreStarts
  <1>4. ASSUME NEW g, AreStarts(g, from, more, p)
        PROVE  \A k \in 1..(n + 2) : g[k] = e[k]
    <2> DEFINE Wrong == {k \in 1..(n + 2) : g[k] # e[k]}
               least == CHOOSE m \in Wrong : \A k \in Wrong : m <= k
    <2>1. SUFFICES ASSUME Wrong # {} PROVE FALSE
      OBVIOUS
    <2>2. Wrong \in SUBSET Nat
      BY <1>1
    <2>3. least \in Wrong /\ \A k \in Wrong : least <= k
      BY <2>1, <2>2, LeastMember
    <2>4. least \in 1..(n + 2) /\ g[least] # e[least]
      BY <2>3
    <2>5. PICK m \in 1..(n + 2) : m = least
      BY <2>4
    <2>6. \A k \in 1..(n + 2) : k < m => g[k] = e[k]
      <3>1. \A k \in 1..(n + 2) : k < m => ~(m <= k)
        BY <1>1
      <3> QED
        BY <2>3, <2>5, <3>1
    <2>7. g[m] # e[m]
      BY <2>4, <2>5
    <2> HIDE DEF Wrong, least, e
    <2>8. \A h : AreStarts(h, from, more, p) =>
             h[m] = IF m = 1 THEN from ELSE h[m - 1] + (more[m - 1].msbs + 1 + p)
      <3>1. Len(more) + 1 = n + 2
        BY <1>1
      <3> QED
        BY <3>1 DEF AreStarts
    <2>9. CASE m = 1
      BY <1>3, <1>4, <2>7, <2>8, <2>9
    <2>10. CASE m # 1
      <3>1. m - 1 \in 1..(n + 2) /\ m - 1 < m
        BY <1>1, <2>10
      <3>2. g[m - 1] = e[m - 1]
        BY <2>6, <3>1
      <3> QED
        BY <1>3, <1>4, <2>7, <2>8, <2>10, <3>2
    <2> QED
      BY <2>9, <2>10
  <1>5. /\ \A k \in 1..(n + 1) : k \in 1..(n + 2) /\ e[k] = f[k]
        /\ n + 2 \in 1..(n + 2) /\ e[n + 2] = next
    BY <1>1
  <1> HIDE DEF e
  <1>6. ASSUME NEW g, AreStarts(g, from, more, p)
        PROVE  /\ \A k \in 1..(n + 1) : g[k] = f[k]
               /\ g[n + 2] = next
    BY <1>4, <1>5, <1>6
  <1> QED
    BY <1>3, <1>6 DEF n, more

-------------------------------------------------------------------------------
(* Words *)

BitWords == [1..BitsPerWord -> Bit]
BinaryWords == [1..BitsPerWord -> Binary]

\* A whole word of the buffer is one of the stream.
LEMMA WordOfStream ==
    ASSUME SourceTypes, BufferInv, NEW i \in Nat, i < br.words
    PROVE  /\ Word(br, i) \in BinaryWords /\ i * BitsPerWord \in Nat
           /\ (i + 1) * BitsPerWord = i * BitsPerWord + BitsPerWord
           /\ (i + 1) * BitsPerWord <= Available(br) * BitsPerByte
           /\ \A k \in 1..BitsPerWord :
                 Word(br, i)[k] = StreamBit(Base + i * BitsPerWord + k - 1)
  <1>1. br.words \in Nat /\ br.bytes \in Nat
    BY DEF SourceTypes, Readers
  <1>2. BitsPerWord \in Nat \ {0} /\ BitsPerWord = BytesPerWord * BitsPerByte
    BY Sizes
  <1>3. i * BitsPerWord \in Nat /\ (i + 1) * BitsPerWord = i * BitsPerWord + BitsPerWord
    BY <1>2
  <1>4. (i + 1) * BitsPerWord <= Available(br) * BitsPerByte
    <2>1. Available(br) * BitsPerByte = br.words * BitsPerWord + br.bytes * BitsPerByte
      BY <1>1, <1>2, ReaderAssumption DEF Available
    <2>2. br.bytes * BitsPerByte \in Nat /\ br.words * BitsPerWord \in Nat
      BY <1>1, <1>2, ReaderAssumption
    <2>3. (i + 1) * BitsPerWord <= br.words * BitsPerWord
      BY <1>1, <1>2
    <2> QED
      BY <1>3, <2>1, <2>2, <2>3, <1>2
  <1>5. Base \in Nat /\ Available(br) * BitsPerByte \in Nat
    BY SourceBase
  <1>6. ASSUME NEW k \in 1..BitsPerWord
        PROVE  /\ Word(br, i)[k] = StreamBit(Base + i * BitsPerWord + k - 1)
               /\ Word(br, i)[k] \in Binary
    <2> DEFINE p == i * BitsPerWord + k - 1
    <2>1. p \in Nat /\ p < Available(br) * BitsPerByte
      BY <1>2, <1>3, <1>4, <1>5
    <2>2. Word(br, i)[k] = BitAt(br, p)
      BY DEF Word
    <2>3. Base + p = Base + i * BitsPerWord + k - 1
      BY <1>2, <1>3, <1>5
    <2> HIDE DEF p
    <2>4. BitAt(br, p) = StreamBit(Base + p) /\ BitAt(br, p) \in {0, 1}
      BY <2>1, SourceBitAt
    <2> QED
      BY <2>2, <2>3, <2>4 DEF Binary
  <1>7. Word(br, i) \in BinaryWords
    <2>1. Word(br, i) = [k \in 1..BitsPerWord |-> Word(br, i)[k]]
      BY DEF Word
    <2> QED
      BY <1>6, <2>1 DEF BinaryWords
  <1> QED
    BY <1>3, <1>4, <1>6, <1>7

LEMMA WordIsBits ==
    ASSUME SourceTypes, NEW i \in Nat, i < Capacity
    PROVE  Word(br, i) \in BitWords
  <1>1. BitsPerWord \in Nat \ {0} /\ BitsPerWord = BytesPerWord * BitsPerByte
    BY Sizes
  <1>2. ASSUME NEW k \in 1..BitsPerWord PROVE BitAt(br, i * BitsPerWord + k - 1) \in Bit
    <2> DEFINE p == i * BitsPerWord + k - 1
               byte == p \div BitsPerByte
               bit == p % BitsPerByte
    <2>1. i * BitsPerWord \in Nat /\ (i + 1) * BitsPerWord = i * BitsPerWord + BitsPerWord
      BY <1>1
    <2>2. p \in Nat /\ p < (i + 1) * BitsPerWord
      BY <1>1, <2>1
    <2>3. (i + 1) * BitsPerWord <= Capacity * BitsPerWord
      BY <1>1, ReaderAssumption
    <2>4. Capacity * BitsPerWord = BufferBytes * BitsPerByte
      BY <1>1, ReaderAssumption DEF BufferBytes
    <2>5. Capacity * BitsPerWord \in Nat
      BY <1>1, ReaderAssumption
    <2>6. p < BufferBytes * BitsPerByte
      BY <2>1, <2>2, <2>3, <2>4, <2>5, <1>1
    <2> HIDE DEF p
    <2>7. byte \in Nat /\ bit \in 0..(BitsPerByte - 1)
      BY <2>2, Division, ReaderAssumption
    <2>8. byte < BufferBytes
      BY <2>2, <2>6, DivisionIsMonotonic, ReaderAssumption, Sizes
    <2>9. BitAt(br, p) = br.buffer[byte][bit + 1]
      BY DEF BitAt
    <2> HIDE DEF byte, bit
    <2>10. byte \in Addr /\ bit + 1 \in 1..BitsPerByte
      BY <2>7, <2>8, Sizes, ReaderAssumption
    <2>11. br.buffer[byte] \in Byte
      BY <2>10 DEF SourceTypes, Readers
    <2> QED
      BY <2>9, <2>10, <2>11 DEF Byte, p
  <1> QED
    BY <1>2 DEF Word, BitWords

LEMMA ShiftedIsBits ==
    ASSUME NEW w \in BitWords, NEW n \in Nat
    PROVE  Shifted(w, n) \in BitWords
  <1>1. BitsPerWord \in Nat /\ 0 \in Bit
    BY Sizes DEF Bit
  <1> QED
    BY <1>1 DEF Shifted, BitWords

LEMMA CountingZeros ==
    ASSUME NEW w \in [1..BitsPerWord -> Binary]
    PROVE  LET n == CountZeroMsbs(w) IN
           /\ n \in 0..BitsPerWord /\ \A k \in 1..n : w[k] = 0
           /\ n < BitsPerWord => w[n + 1] = 1
  <1> DEFINE Ones == {k \in 1..BitsPerWord : w[k] = 1}
             Right(n) == /\ \A k \in 1..n : w[k] = 0
                         /\ n < BitsPerWord => w[n + 1] = 1
  <1>1. BitsPerWord \in Nat
    BY Sizes
  <1>2. \A k \in 1..BitsPerWord : w[k] = 0 \/ w[k] = 1
    BY DEF Binary
  <1>3. \E n \in 0..BitsPerWord : Right(n)
    <2>1. CASE Ones = {}
      <3>1. \A k \in 1..BitsPerWord : w[k] = 0
        BY <1>2, <2>1
      <3>2. BitsPerWord \in 0..BitsPerWord /\ ~(BitsPerWord < BitsPerWord)
        BY <1>1
      <3> QED
        BY <3>1, <3>2
    <2>2. CASE Ones # {}
      <3> DEFINE least == CHOOSE m \in Ones : \A k \in Ones : m <= k
      <3>1. Ones \in SUBSET Nat
        BY <1>1
      <3>2. least \in Ones /\ \A k \in Ones : least <= k
        BY <2>2, <3>1, LeastMember
      <3>3. PICK m \in 1..BitsPerWord : m = least
        BY <3>2
      <3>4. w[m] = 1
        BY <3>2, <3>3
      <3> HIDE DEF least
      <3>5. m - 1 \in 0..BitsPerWord /\ m - 1 + 1 = m
        BY <1>1
      <3>6. ASSUME NEW k \in 1..(m - 1) PROVE w[k] = 0
        <4>1. k \in 1..BitsPerWord /\ ~(m <= k)
          BY <1>1
        <4> QED
          BY <1>2, <3>2, <3>3, <4>1
      <3> QED
        BY <3>4, <3>5, <3>6
    <2> QED
      BY <2>1, <2>2
  <1>4. CountZeroMsbs(w) = CHOOSE n \in 0..BitsPerWord : Right(n)
    BY DEF CountZeroMsbs
  <1>5. CountZeroMsbs(w) \in 0..BitsPerWord /\ Right(CountZeroMsbs(w))
    <2> HIDE DEF Right
    <2> QED
      BY <1>3, <1>4
  <1> QED
    BY <1>5

-------------------------------------------------------------------------------
(* The invariant of a block *)

RiceRegs ==
    [pc : {"before", "enter", "msbs", "nextWord", "lsbs", "tailMsbs", "tailLsbs",
           "reload", "finish", "done", "failed"},
     cwords : Nat, ucbits : 0..BitsPerWord, b : BitWords,
     x : Nat, msbs : Nat, bits : Seq(Binary)]

RiceTypes ==
    /\ SourceTypes /\ reg \in RiceRegs
    /\ parameter \in Parameters /\ vals \in Seq(Values) /\ start \in Nat

\* Where the value that is read now begins
Here == Starts[Len(vals) + 1]

ZerosFrom(p, n) == \A i \in 0..(n - 1) : StreamBit(p + i) = 0
UnaryAt(p, n) == ZerosFrom(p, n) /\ StreamBit(p + n) = 1

ValueAt(v, p) ==
    /\ UnaryAt(p, v.msbs) /\ Len(v.lsbs) = parameter
    /\ \A i \in 1..parameter : v.lsbs[i] = StreamBit(p + v.msbs + i)

\* The values so far are those of the stream, and their places are the sums of their
\* lengths.
ValuesInv ==
    /\ AreStarts(Starts, start, vals, parameter) /\ Here \in Nat
    /\ \A k \in 1..Len(vals) : ValueAt(vals[k], Starts[k])

\* Where the word that the registers are in ends in the stream
WordEnd(cwords) == Base + cwords * BitsPerWord + BitsPerWord

\* The registers have a whole word of the buffer, whose last ucbits bits are left.
Holds(b, cwords, ucbits) ==
    /\ cwords < br.words
    /\ \A k \in 1..BitsPerWord :
          b[k] = IF k <= ucbits THEN StreamBit(WordEnd(cwords) - ucbits + k - 1) ELSE 0

\* Where the function is, in the stream and in the value: in the registers
RegPlace(r, here) ==
    /\ r.pc = "msbs" =>
          /\ Holds(r.b, r.cwords, r.ucbits) /\ WordEnd(r.cwords) = here + r.ucbits
    /\ r.pc = "nextWord" =>
          /\ r.cwords < br.words /\ WordEnd(r.cwords) = here + r.x
          /\ ZerosFrom(here, r.x)
          /\ \E q \in Nat : r.x = r.ucbits + BitsPerWord * q
    /\ r.pc = "lsbs" =>
          /\ Holds(r.b, r.cwords, r.ucbits)
          /\ WordEnd(r.cwords) = here + r.msbs + 1 + r.ucbits
          /\ UnaryAt(here, r.msbs)

\* At the tail, where the place is the reader's
TailPlace(r, here, position) ==
    /\ r.pc = "tailMsbs" => position = here + r.x /\ ZerosFrom(here, r.x)
    /\ r.pc = "tailLsbs" =>
          /\ position = here + r.msbs + 1 + Len(r.bits)
          /\ UnaryAt(here, r.msbs) /\ Len(r.bits) <= parameter
          /\ \A i \in 1..Len(r.bits) : r.bits[i] = StreamBit(here + r.msbs + i)
    /\ r.pc \in {"reload", "finish", "done"} => position = here

PlaceInv ==
    /\ reg.pc \in {"before", "enter"} => vals = <<>>
    /\ reg.pc = "enter" => Position = start
    /\ RegPlace(reg, Here) /\ TailPlace(reg, Here, Position)
    /\ reg.pc = "finish" => /\ reg.cwords = br.consumed_words
                            /\ reg.ucbits = BitsPerWord - br.consumed_bits

RiceInv == RiceTypes /\ BufferInv /\ ValuesInv /\ PlaceInv

LEMMA RiceSizes ==
    ASSUME RiceTypes
    PROVE  /\ BitsPerWord \in Nat \ {0}
           /\ parameter \in 0..(BitsPerWord - 1) /\ parameter \in Nat
           /\ reg.cwords \in Nat /\ reg.ucbits \in 0..BitsPerWord
           /\ reg.b \in BitWords /\ reg.x \in Nat /\ reg.msbs \in Nat
           /\ reg.bits \in Seq(Binary) /\ Len(reg.bits) \in Nat /\ Len(vals) \in Nat
  <1>1. BitsPerWord \in Nat \ {0}
    BY Sizes
  <1>2. parameter \in 0..(BitsPerWord - 1)
    BY RiceAssumption DEF RiceTypes
  <1>3. reg \in RiceRegs /\ vals \in Seq(Values)
    BY DEF RiceTypes
  <1> QED
    BY <1>1, <1>2, <1>3 DEF RiceRegs

-------------------------------------------------------------------------------
(* Values come behind each other *)

\* Nothing was added to the block.
SameValues == UNCHANGED <<stream, args, vals, start>>

LEMMA StartsStay ==
    ASSUME SameValues
    PROVE  Starts' = Starts
  <1>1. vals' = vals /\ start' = start /\ parameter' = parameter
    BY DEF SameValues, args
  <1>2. Starts = ChosenStarts
    BY StartsAreChosen
  <1>3. (Starts = ChosenStarts)'
    BY StartsAreChosen, PTL
  <1>4. ChosenStarts' = ChosenStarts
    BY <1>1 DEF ChosenStarts
  <1> QED
    BY <1>2, <1>3, <1>4

LEMMA ValuesStay ==
    ASSUME ValuesInv, SameValues
    PROVE  ValuesInv' /\ Here' = Here
  <1>1. /\ Starts' = Starts /\ vals' = vals /\ start' = start /\ parameter' = parameter
        /\ stream' = stream
    BY StartsStay DEF SameValues, args
  <1>2. Here' = Here
    BY <1>1 DEF Here
  <1>3. AreStarts(Starts, start, vals, parameter)'
    BY <1>1 DEF ValuesInv, AreStarts
  <1>4. ASSUME NEW k \in 1..Len(vals)
        PROVE  ValueAt(vals[k], Starts[k])'
    <2>1. ValueAt(vals[k], Starts[k])
      BY DEF ValuesInv
    <2> QED
      BY <1>1, <2>1 DEF ValueAt, UnaryAt, ZerosFrom, StreamBit
  <1> QED
    BY <1>1, <1>2, <1>3, <1>4 DEF ValuesInv

LEMMA ValueIsAdded ==
    ASSUME RiceTypes, ValuesInv, UNCHANGED <<stream, args, start>>,
           NEW v \in Values, vals' = Append(vals, v), ValueAt(v, Here)
    PROVE  /\ ValuesInv' /\ vals' \in Seq(Values)
           /\ Here' = Here + v.msbs + 1 + parameter
  <1> DEFINE n == Len(vals)
             f == Starts
             g == Starts'
             from == start
  <1>1. /\ n \in Nat /\ vals \in Seq(Values) /\ from \in Nat /\ parameter \in Nat
        /\ v.msbs \in Nat
    BY RiceSizes DEF RiceTypes, Values
  <1>2. start' = start /\ parameter' = parameter /\ stream' = stream
    BY DEF args
  <1>3. g = CHOOSE h : AreStarts(h, from, Append(vals, v), parameter)
    <2>1. (Starts = ChosenStarts)'
      BY StartsAreChosen, PTL
    <2>2. ChosenStarts' = CHOOSE h : AreStarts(h, start, Append(vals, v), parameter)
      BY <1>2 DEF ChosenStarts
    <2> QED
      BY <2>1, <2>2
  <1>4. AreStarts(f, from, vals, parameter)
    BY DEF ValuesInv
  <1> HIDE DEF f, g, from
  <1>5. /\ \E h : AreStarts(h, from, Append(vals, v), parameter)
        /\ \A h : AreStarts(h, from, Append(vals, v), parameter) =>
              /\ \A k \in 1..(Len(vals) + 1) : h[k] = f[k]
              /\ h[Len(vals) + 2] = f[Len(vals) + 1] + (v.msbs + 1 + parameter)
    BY <1>1, <1>4, StartsOfOneMore
  <1>6. AreStarts(g, from, Append(vals, v), parameter)
    BY <1>3, <1>5
  <1>7. /\ \A k \in 1..(n + 1) : g[k] = f[k]
        /\ g[n + 2] = f[n + 1] + (v.msbs + 1 + parameter)
    BY <1>5, <1>6
  <1>8. /\ Len(vals') = n + 1 /\ vals' \in Seq(Values) /\ vals'[n + 1] = v
        /\ \A k \in 1..n : vals'[k] = vals[k]
    BY <1>1
  <1>9. Here = f[n + 1] /\ Here' = g[n + 2] /\ Here \in Nat
    <2>1. Here' = g[Len(vals') + 1]
      BY DEF Here, g
    <2>2. Len(vals') + 1 = n + 2
      BY <1>1, <1>8
    <2> QED
      BY <2>1, <2>2 DEF Here, f, ValuesInv
  <1>10. Here' = Here + v.msbs + 1 + parameter
    BY <1>1, <1>7, <1>9
  <1>11. AreStarts(Starts, start, vals, parameter)'
    <2>1. AreStarts(g, start', vals', parameter')
      BY <1>2, <1>6 DEF from
    <2> QED
      BY <2>1 DEF g, AreStarts
  <1>13. ASSUME NEW k \in 1..(n + 1)
         PROVE  ValueAt(vals[k], Starts[k])'
    <2> DEFINE u == vals'[k]
               p == g[k]
    <2>1. ValueAt(u, p)
      <3>1. CASE k = n + 1
        BY <1>1, <1>7, <1>8, <1>9, <3>1
      <3>2. CASE k # n + 1
        <4>1. k \in 1..n
          BY <1>1, <3>2
        <4>2. ValueAt(vals[k], f[k])
          BY <4>1 DEF ValuesInv, f
        <4> QED
          BY <1>7, <1>8, <4>1, <4>2
      <3> QED
        BY <3>1, <3>2
    <2> HIDE DEF u, p
    <2> QED
      BY <1>2, <2>1 DEF ValueAt, UnaryAt, ZerosFrom, StreamBit, u, p, g
  <1>14. Here' \in Nat
    BY <1>1, <1>9, <1>10, SMTT(30)
  <1> QED
    BY <1>8, <1>10, <1>11, <1>13, <1>14 DEF ValuesInv

-------------------------------------------------------------------------------
(* What a step has to show *)

\* The step leaves the reader alone.
LEMMA InRegisters ==
    ASSUME RiceInv, UNCHANGED <<stream, fed, br, args, start>>, reg' \in RiceRegs,
           reg'.pc \notin {"before", "enter"},
           vals' \in Seq(Values), ValuesInv',
           RegPlace(reg', Here'), TailPlace(reg', Here', Position),
           reg'.pc = "finish" => /\ reg'.cwords = br.consumed_words
                                 /\ reg'.ucbits = BitsPerWord - br.consumed_bits
    PROVE  RiceInv'
  <1>1. stream' = stream /\ fed' = fed /\ br' = br /\ start' = start /\ parameter' = parameter
    BY DEF args
  <1>2. SourceTypes' /\ BufferInv' /\ Position' = Position /\ Base' = Base
    BY <1>1 DEF RiceInv, RiceTypes, SourceTypes, BufferInv, Position, Base
  <1>3. RiceTypes'
    BY <1>1, <1>2 DEF RiceInv, RiceTypes
  <1>4. RegPlace(reg, Here)'
    BY <1>1, <1>2 DEF RegPlace, Holds, WordEnd, ZerosFrom, UnaryAt, StreamBit
  <1>5. TailPlace(reg, Here, Position)'
    BY <1>1, <1>2 DEF TailPlace, ZerosFrom, UnaryAt, StreamBit
  <1>6. PlaceInv'
    BY <1>1, <1>4, <1>5 DEF PlaceInv
  <1> QED
    BY <1>2, <1>3, <1>6 DEF RiceInv

\* The step ends at the tail.
LEMMA AtTheTail ==
    ASSUME RiceInv, UNCHANGED <<stream, args, start>>, SourceTypes', BufferInv',
           reg' \in RiceRegs,
           reg'.pc \in {"tailMsbs", "tailLsbs", "reload", "done", "failed"},
           vals' \in Seq(Values), ValuesInv', TailPlace(reg', Here', Position')
    PROVE  RiceInv'
  <1>1. stream' = stream /\ start' = start /\ parameter' = parameter
    BY DEF args
  <1>2. RiceTypes'
    BY <1>1 DEF RiceInv, RiceTypes
  <1>3. TailPlace(reg, Here, Position)'
    BY <1>1 DEF TailPlace, ZerosFrom, UnaryAt, StreamBit
  <1>4. RegPlace(reg, Here)'
    BY DEF RegPlace
  <1>5. PlaceInv'
    BY <1>3, <1>4 DEF PlaceInv
  <1> QED
    BY <1>2, <1>5 DEF RiceInv

\* The reader stands n bits further.
LEMMA MovedSource ==
    ASSUME SourceTypes, BufferInv, NEW n \in Nat, Moves(n), UNCHANGED <<stream, fed>>
    PROVE  SourceTypes' /\ BufferInv' /\ Position' = Position + n
  <1>1. SourceTypes' /\ BufferInv'
    BY DEF SourceTypes, BufferInv, Moves
  <1>2. Unconsumed(br)' = Available(br) * BitsPerByte - (Consumed(br) + n)
    BY Places DEF Moves
  <1>3. Position' = fed * BitsPerByte - (Available(br) * BitsPerByte - (Consumed(br) + n))
    BY <1>2 DEF Position
  <1> QED
    BY <1>1, <1>3, SourcePosition

LEMMA DeliveringKeepsPlace ==
    ASSUME RiceInv, NEW n \in 1..(Capacity * BytesPerWord), Deliver(n)
    PROVE  /\ SourceTypes' /\ BufferInv' /\ Position' = Position
           /\ UNCHANGED <<stream, reg, args, vals, start>>
  <1> DEFINE b == BeforeRead(br)
             data == SubSeq(stream, fed + 1, fed + n)
             f == Filled(b, data)
  <1>1. /\ n <= SpaceLeft(b) /\ fed + n <= Len(stream)
        /\ br' = [f EXCEPT !.read_crc16 = <<>>]
        /\ fed' = fed + n /\ UNCHANGED <<stream, reg, args, vals, start>>
    <2>1. /\ n \in 1..SpaceLeft(b) /\ fed + n <= Len(stream)
          /\ br' = [f EXCEPT !.read_crc16 = <<>>]
          /\ fed' = fed + n /\ UNCHANGED <<stream, reg, args, vals, start>>
      BY DEF Deliver
    <2> HIDE DEF b, f
    <2> QED
      BY <2>1
  <1>2. n \in Nat
    OBVIOUS
  <1> HIDE DEF f
  <1>3. f \in Readers(Byte) =>
          /\ br' \in Readers(Byte) /\ SamePlace(br', f) /\ SameLimit(br', f)
          /\ br'.last_seen_framesync = f.last_seen_framesync
    <2>1. <<>> \in Seq(Byte)
      OBVIOUS
    <2>2. f \in Readers(Byte) =>
             LET c == [f EXCEPT !.read_crc16 = <<>>] IN
             /\ c \in Readers(Byte) /\ SamePlace(c, f) /\ SameLimit(c, f)
             /\ c.last_seen_framesync = f.last_seen_framesync
      BY <2>1 DEF Readers, SamePlace, SameLimit
    <2> QED
      BY <1>1, <2>2
  <1>4. Refilled(n, TRUE)
    BY <1>1, <1>3 DEF Refilled, Gain, f
  <1>5. SourceTypes /\ BufferInv
    BY DEF RiceInv, RiceTypes
  <1>6. /\ br' \in Readers(Byte) /\ BufferInv' /\ Position' = Position
        /\ fed' \in 0..Len(stream)
    BY <1>2, <1>4, <1>5, SourceRefilled
  <1>7. SourceTypes'
    BY <1>1, <1>5, <1>6 DEF SourceTypes
  <1> QED
    BY <1>1, <1>6, <1>7

-------------------------------------------------------------------------------
(* What the registers hold *)

LEMMA HeldBits ==
    ASSUME SourceTypes, BufferInv, NEW cwords \in Nat, NEW ucbits \in 0..BitsPerWord,
           NEW b \in BitWords, Holds(b, cwords, ucbits)
    PROVE  /\ b \in BinaryWords /\ WordEnd(cwords) \in Nat /\ WordEnd(cwords) - ucbits \in Nat
           /\ \A k \in 1..ucbits : b[k] = StreamBit(WordEnd(cwords) - ucbits + k - 1)
           /\ \A k \in 1..BitsPerWord : k > ucbits => b[k] = 0
  <1>1. BitsPerWord \in Nat \ {0}
    BY Sizes
  <1>2. /\ cwords * BitsPerWord \in Nat /\ Base \in Nat
        /\ \A k \in 1..BitsPerWord :
              /\ Word(br, cwords)[k] = StreamBit(Base + cwords * BitsPerWord + k - 1)
              /\ Word(br, cwords)[k] \in Binary
    BY WordOfStream, SourceBase DEF Holds, BinaryWords
  <1>3. /\ WordEnd(cwords) = Base + cwords * BitsPerWord + BitsPerWord
        /\ WordEnd(cwords) \in Nat /\ WordEnd(cwords) - ucbits \in Nat
    BY <1>1, <1>2 DEF WordEnd
  <1>4. ASSUME NEW k \in 1..BitsPerWord PROVE b[k] \in Binary
    <2>1. CASE k <= ucbits
      <3> DEFINE j == BitsPerWord - ucbits + k
      <3>1. j \in 1..BitsPerWord
        BY <1>1, <2>1
      <3>2. WordEnd(cwords) - ucbits + k - 1 = Base + cwords * BitsPerWord + j - 1
        BY <1>1, <1>2, <1>3
      <3> HIDE DEF j
      <3>3. StreamBit(WordEnd(cwords) - ucbits + k - 1) \in Binary
        BY <1>2, <3>1, <3>2
      <3> QED
        BY <2>1, <3>3 DEF Holds
    <2>2. CASE ~(k <= ucbits)
      BY <2>2 DEF Holds, Binary
    <2> QED
      BY <2>1, <2>2
  <1>5. b \in BinaryWords
    BY <1>4 DEF BinaryWords, BitWords
  <1>6. \A k \in 1..ucbits : b[k] = StreamBit(WordEnd(cwords) - ucbits + k - 1)
    BY <1>1 DEF Holds
  <1>7. \A k \in 1..BitsPerWord : k > ucbits => b[k] = 0
    BY <1>1 DEF Holds
  <1> QED
    BY <1>3, <1>5, <1>6, <1>7

LEMMA HeldIsShifted ==
    ASSUME SourceTypes, BufferInv, NEW cwords \in Nat, NEW ucbits \in 0..BitsPerWord,
           NEW b \in BitWords, Holds(b, cwords, ucbits), NEW n \in 0..ucbits
    PROVE  /\ Shifted(b, n) \in BitWords /\ ucbits - n \in 0..BitsPerWord
           /\ Holds(Shifted(b, n), cwords, ucbits - n)
  <1>1. BitsPerWord \in Nat \ {0}
    BY Sizes
  <1>2. WordEnd(cwords) \in Nat
    BY HeldBits
  <1>3. ASSUME NEW k \in 1..BitsPerWord
        PROVE  Shifted(b, n)[k] =
                   IF k <= ucbits - n THEN StreamBit(WordEnd(cwords) - (ucbits - n) + k - 1)
                   ELSE 0
    <2>1. Shifted(b, n)[k] = IF k + n <= BitsPerWord THEN b[k + n] ELSE 0
      BY DEF Shifted
    <2>2. CASE k <= ucbits - n
      <3>1. k + n \in 1..BitsPerWord /\ k + n <= ucbits
        BY <1>1, <2>2
      <3>2. b[k + n] = StreamBit(WordEnd(cwords) - ucbits + (k + n) - 1)
        BY <3>1 DEF Holds
      <3>3. WordEnd(cwords) - ucbits + (k + n) - 1 = WordEnd(cwords) - (ucbits - n) + k - 1
        BY <1>1, <1>2
      <3>4. k + n <= BitsPerWord
        BY <3>1
      <3> QED
        BY <2>1, <2>2, <3>2, <3>3, <3>4
    <2>3. CASE ~(k <= ucbits - n)
      <3>1. CASE k + n <= BitsPerWord
        <4>1. k + n \in 1..BitsPerWord /\ ~(k + n <= ucbits)
          BY <1>1, <2>3, <3>1
        <4>2. b[k + n] = 0
          BY <4>1 DEF Holds
        <4> QED
          BY <2>1, <2>3, <3>1, <4>2
      <3>2. CASE ~(k + n <= BitsPerWord)
        BY <2>1, <2>3, <3>2
      <3> QED
        BY <3>1, <3>2
    <2> QED
      BY <2>2, <2>3
  <1>4. cwords < br.words
    BY DEF Holds
  <1>5. Holds(Shifted(b, n), cwords, ucbits - n)
    BY <1>3, <1>4 DEF Holds
  <1>6. Shifted(b, n) \in BitWords
    BY ShiftedIsBits, <1>1
  <1> QED
    BY <1>1, <1>5, <1>6

LEMMA WordIsHeld ==
    ASSUME SourceTypes, BufferInv, NEW i \in Nat, i < br.words
    PROVE  /\ Word(br, i) \in BinaryWords /\ Word(br, i) \in BitWords
           /\ Holds(Word(br, i), i, BitsPerWord)
           /\ WordEnd(i) - BitsPerWord = Base + i * BitsPerWord /\ WordEnd(i) \in Nat
           /\ WordEnd(i + 1) = WordEnd(i) + BitsPerWord
  <1>1. BitsPerWord \in Nat \ {0}
    BY Sizes
  <1>2. /\ Word(br, i) \in BinaryWords /\ i * BitsPerWord \in Nat /\ Base \in Nat
        /\ (i + 1) * BitsPerWord = i * BitsPerWord + BitsPerWord
        /\ \A k \in 1..BitsPerWord :
              Word(br, i)[k] = StreamBit(Base + i * BitsPerWord + k - 1)
    BY WordOfStream, SourceBase
  <1>3. /\ WordEnd(i) - BitsPerWord = Base + i * BitsPerWord /\ WordEnd(i) \in Nat
        /\ WordEnd(i + 1) = WordEnd(i) + BitsPerWord
    BY <1>1, <1>2 DEF WordEnd
  <1>4. Holds(Word(br, i), i, BitsPerWord)
    <2>1. ASSUME NEW k \in 1..BitsPerWord
          PROVE  /\ k <= BitsPerWord
                 /\ Word(br, i)[k] = StreamBit(WordEnd(i) - BitsPerWord + k - 1)
      BY <1>1, <1>2, <1>3
    <2> QED
      BY <2>1 DEF Holds
  <1>5. Word(br, i) \in BitWords
    <2>1. BinaryWords \subseteq BitWords
      BY DEF BinaryWords, BitWords, Binary, Bit
    <2> QED
      BY <1>2, <2>1
  <1> QED
    BY <1>2, <1>3, <1>4, <1>5

LEMMA ZerosJoin ==
    ASSUME NEW p \in Nat, NEW m \in Nat, NEW n \in Nat,
           ZerosFrom(p, m), ZerosFrom(p + m, n)
    PROVE  ZerosFrom(p, m + n)
  <1>1. ASSUME NEW i \in 0..(m + n - 1) PROVE StreamBit(p + i) = 0
    <2>1. CASE i < m
      <3>1. i \in 0..(m - 1)
        BY <2>1
      <3> QED
        BY <3>1 DEF ZerosFrom
    <2>2. CASE ~(i < m)
      <3>1. i - m \in 0..(n - 1) /\ (p + m) + (i - m) = p + i
        BY <2>2
      <3> QED
        BY <3>1 DEF ZerosFrom
    <2> QED
      BY <2>1, <2>2
  <1> QED
    BY <1>1 DEF ZerosFrom

LEMMA RestOfWord ==
    ASSUME NEW q \in Int, NEW n \in 0..(BitsPerWord - 1)
    PROVE  (BitsPerWord * q + n) % BitsPerWord = n
  <1>1. BitsPerWord \in Nat \ {0}
    BY Sizes
  <1> DEFINE w == BitsPerWord
  <1>2. w \in Nat \ {0} /\ n \in 0..(w - 1)
    BY <1>1
  <1> HIDE DEF w
  <1>3. (w * q + n) % w = n
    BY <1>2
  <1> QED
    BY <1>3 DEF w

\* Where zeros are counted in what is held, the stream has them.
LEMMA HeldZeros ==
    ASSUME SourceTypes, BufferInv, NEW cwords \in Nat, NEW ucbits \in 0..BitsPerWord,
           NEW b \in BitWords, Holds(b, cwords, ucbits)
    PROVE  LET n == CountZeroMsbs(b) IN
           /\ n \in 0..BitsPerWord
           /\ n < BitsPerWord => n < ucbits /\ UnaryAt(WordEnd(cwords) - ucbits, n)
           /\ n = BitsPerWord => ZerosFrom(WordEnd(cwords) - ucbits, ucbits)
  <1> DEFINE from == WordEnd(cwords) - ucbits
             m == CountZeroMsbs(b)
  <1>1. BitsPerWord \in Nat \ {0}
    BY Sizes
  <1>2. /\ b \in BinaryWords /\ from \in Nat
        /\ \A k \in 1..ucbits : b[k] = StreamBit(from + k - 1)
        /\ \A k \in 1..BitsPerWord : k > ucbits => b[k] = 0
    BY HeldBits
  <1>3. /\ m \in 0..BitsPerWord /\ \A k \in 1..m : b[k] = 0
        /\ m < BitsPerWord => b[m + 1] = 1
    BY <1>2, CountingZeros DEF BinaryWords
  <1> HIDE DEF m, from
  <1>4. ASSUME NEW n \in Nat, n <= ucbits, \A k \in 1..n : b[k] = 0
        PROVE  ZerosFrom(from, n)
    <2>1. ASSUME NEW i \in 0..(n - 1) PROVE StreamBit(from + i) = 0
      <3>1. i + 1 \in 1..ucbits /\ i + 1 \in 1..n /\ from + (i + 1) - 1 = from + i
        BY <1>1, <1>2, <1>4
      <3>2. b[i + 1] = 0 /\ b[i + 1] = StreamBit(from + (i + 1) - 1)
        BY <1>2, <1>4, <3>1
      <3> QED
        BY <3>1, <3>2
    <2> QED
      BY <2>1 DEF ZerosFrom
  <1>5. CASE m < BitsPerWord
    <2>1. m + 1 \in 1..BitsPerWord /\ b[m + 1] = 1
      BY <1>1, <1>3, <1>5
    <2>2. m < ucbits
      BY <1>1, <1>2, <1>3, <2>1
    <2>3. ZerosFrom(from, m)
      BY <1>1, <1>3, <1>4, <2>2
    <2>4. StreamBit(from + m) = 1
      <3>1. m + 1 \in 1..ucbits /\ from + (m + 1) - 1 = from + m
        BY <1>1, <1>2, <1>3, <2>2
      <3>2. b[m + 1] = StreamBit(from + (m + 1) - 1)
        BY <1>2, <3>1
      <3> QED
        BY <2>1, <3>1, <3>2
    <2> QED
      BY <1>3, <1>5, <2>2, <2>3, <2>4 DEF UnaryAt, m, from
  <1>6. CASE m = BitsPerWord
    <2>1. \A k \in 1..ucbits : b[k] = 0
      BY <1>1, <1>3, <1>6
    <2>2. ZerosFrom(from, ucbits) /\ ~(m < BitsPerWord)
      BY <1>1, <1>4, <1>6, <2>1
    <2> QED
      BY <1>3, <2>2 DEF m, from
  <1> QED
    BY <1>1, <1>3, <1>5, <1>6

\* The value's unary part ends in the word that is held.
LEMMA StopBitFound ==
    ASSUME RiceInv, NEW r \in RiceRegs, NEW left \in 0..BitsPerWord,
           Holds(r.b, r.cwords, left), NEW n \in Nat, n < left, NEW x \in Nat,
           (r.ucbits - x - 1) % BitsPerWord = left - (n + 1),
           WordEnd(r.cwords) = Here + x + 1 + (left - (n + 1)), UnaryAt(Here, x)
    PROVE  LET s == StopBitAt(r, n, x) IN
           /\ s \in RiceRegs /\ s.pc \in {"failed", "lsbs"}
           /\ RegPlace(s, Here) /\ TailPlace(s, Here, Position)
  <1> DEFINE pc == IF x > MsbsLimit THEN "failed" ELSE "lsbs"
             b == Shifted(r.b, n + 1)
             ucbits == (r.ucbits - x - 1) % BitsPerWord
             s == [r EXCEPT !.pc = pc, !.b = b, !.msbs = x, !.ucbits = ucbits]
  <1>1. BitsPerWord \in Nat \ {0} /\ SourceTypes /\ BufferInv
    BY Sizes DEF RiceInv, RiceTypes
  <1>2. r.cwords \in Nat /\ r.b \in BitWords /\ n + 1 \in 0..left
    BY <1>1 DEF RiceRegs
  <1>3. /\ b \in BitWords /\ ucbits \in 0..BitsPerWord /\ Holds(b, r.cwords, ucbits)
        /\ ucbits = left - (n + 1)
    BY <1>1, <1>2, HeldIsShifted
  <1>4. pc \in {"failed", "lsbs"}
    OBVIOUS
  <1> HIDE DEF pc, b, ucbits
  <1>5. /\ s \in RiceRegs /\ s.pc = pc /\ s.b = b /\ s.msbs = x /\ s.ucbits = ucbits
        /\ s.cwords = r.cwords
    BY <1>3, <1>4 DEF RiceRegs
  <1>6. StopBitAt(r, n, x) = s
    BY DEF StopBitAt, pc, b, ucbits
  <1> HIDE DEF s
  <1>7. RegPlace(s, Here) /\ TailPlace(s, Here, Position)
    BY <1>3, <1>4, <1>5 DEF RegPlace, TailPlace
  <1> QED
    BY <1>4, <1>5, <1>6, <1>7

\* From the reader to the registers
LEMMA LoopHead ==
    ASSUME RiceInv
    PROVE  LET r == AtLoopHead(reg) IN
           /\ r \in RiceRegs /\ r.pc \in {"msbs", "tailMsbs"} /\ r.x = 0
           /\ r.cwords = br.consumed_words /\ r.ucbits = BitsPerWord - br.consumed_bits
           /\ RegPlace(r, Position) /\ TailPlace(r, Position, Position)
  <1> DEFINE b == IF br.consumed_words < Capacity
                  THEN Shifted(Word(br, br.consumed_words), br.consumed_bits) ELSE NoBits
             pc == IF parameter > 0 /\ br.consumed_words < br.words
                   THEN "msbs" ELSE "tailMsbs"
             w == br.consumed_words
             left == BitsPerWord - br.consumed_bits
             r == [reg EXCEPT !.cwords = w, !.ucbits = left, !.b = b, !.x = 0,
                              !.msbs = 0, !.bits = <<>>, !.pc = pc]
  <1>1. /\ BitsPerWord \in Nat \ {0} /\ SourceTypes /\ BufferInv /\ reg \in RiceRegs
        /\ br.consumed_words \in Nat /\ br.consumed_bits \in Nat /\ br.words \in Nat
        /\ br.consumed_bits < BitsPerWord /\ br.words <= Capacity
    <2>1. SourceTypes /\ BufferInv /\ reg \in RiceRegs
      BY DEF RiceInv, RiceTypes
    <2>2. br \in Readers(Byte) /\ Sane(br)
      BY <2>1 DEF SourceTypes, BufferInv
    <2> QED
      BY <2>1, <2>2, Sizes, SaneWords DEF Readers, Sane
  <1>2. b \in BitWords /\ left \in 0..BitsPerWord
    <2>1. w < Capacity => Word(br, w) \in BitWords
      BY <1>1, WordIsBits
    <2>2. w < Capacity => Shifted(Word(br, w), br.consumed_bits) \in BitWords
      BY <1>1, <2>1, ShiftedIsBits
    <2>3. NoBits \in BitWords
      BY DEF NoBits, BitWords, Bit
    <2> QED
      BY <1>1, <2>2, <2>3
  <1>3. w < br.words => Holds(b, w, left) /\ WordEnd(w) = Position + left
    <2> SUFFICES ASSUME w < br.words PROVE Holds(b, w, left) /\ WordEnd(w) = Position + left
      OBVIOUS
    <2>1. b = Shifted(Word(br, w), br.consumed_bits)
      <3>1. br.consumed_words < br.words
        OBVIOUS
      <3>2. br.consumed_words < Capacity
        BY <1>1, <3>1, ReaderAssumption
      <3> QED
        BY <3>2
    <2>2. /\ Word(br, w) \in BitWords /\ Holds(Word(br, w), w, BitsPerWord)
          /\ WordEnd(w) - BitsPerWord = Base + w * BitsPerWord /\ WordEnd(w) \in Nat
      BY <1>1, WordIsHeld
    <2>3. br.consumed_bits \in 0..BitsPerWord /\ BitsPerWord \in 0..BitsPerWord
      BY <1>1
    <2>4. Holds(b, w, left)
      BY <1>1, <2>1, <2>2, <2>3, HeldIsShifted
    <2>5. Position = Base + (w * BitsPerWord + br.consumed_bits) /\ Base \in Nat
      BY <1>1, SourceBase DEF Consumed
    <2>6. w * BitsPerWord \in Nat
      BY <1>1
    <2> QED
      BY <1>1, <2>2, <2>4, <2>5, <2>6
  <1>4. pc \in {"msbs", "tailMsbs"} /\ (pc = "msbs" => w < br.words)
    OBVIOUS
  <1>5. Position \in Int
    BY <1>1, SourcePosition
  <1> HIDE DEF b, pc, w, left
  <1>6. w \in Nat
    BY <1>1 DEF w
  <1>7. <<>> \in Seq(Binary) /\ 0 \in Nat
    OBVIOUS
  <1>8. /\ r \in RiceRegs /\ r.pc = pc /\ r.b = b /\ r.ucbits = left /\ r.cwords = w
        /\ r.x = 0
    BY <1>1, <1>2, <1>4, <1>6, <1>7 DEF RiceRegs
  <1>9. AtLoopHead(reg) = r
    <2> DEFINE c == FromReader(reg)
    <2>1. c = [reg EXCEPT !.cwords = w, !.ucbits = left, !.b = b]
      BY DEF FromReader, w, left, b
    <2>2. AtLoopHead(reg) = [c EXCEPT !.x = 0, !.msbs = 0, !.bits = <<>>, !.pc = pc]
      BY DEF AtLoopHead, pc
    <2> HIDE DEF c
    <2> QED
      BY <1>1, <2>1, <2>2 DEF RiceRegs
  <1> HIDE DEF r
  <1>10. RegPlace(r, Position)
    BY <1>3, <1>4, <1>8 DEF RegPlace
  <1>11. TailPlace(r, Position, Position)
    <2>1. Position = Position + 0 /\ \A i \in 0..(0 - 1) : FALSE
      BY <1>5
    <2> QED
      BY <1>4, <1>8, <2>1 DEF TailPlace, ZerosFrom
  <1> QED
    BY <1>4, <1>8, <1>9, <1>10, <1>11 DEF w, left

-------------------------------------------------------------------------------
(* The steps of the function *)

LEMMA FirstBegins ==
    ASSUME RiceTypes, ValuesInv, vals = <<>>
    PROVE  Here = start
  <1>1. AreStarts(Starts, start, <<>>, parameter) /\ start \in Nat /\ parameter \in Nat
    BY RiceSizes DEF ValuesInv, RiceTypes
  <1>2. Starts[1] = start
    BY <1>1, StartsOfNothing
  <1>3. Len(vals) + 1 = 1
    OBVIOUS
  <1> QED
    BY <1>2, <1>3 DEF Here

LEMMA RegKeepsFields ==
    ASSUME NEW r \in RiceRegs,
           NEW pc \in {"enter", "msbs", "nextWord", "lsbs", "tailMsbs", "tailLsbs",
                       "reload", "finish", "done", "failed"}
    PROVE  LET s == [r EXCEPT !.pc = pc] IN
           /\ s \in RiceRegs /\ s.pc = pc /\ s.cwords = r.cwords /\ s.ucbits = r.ucbits
           /\ s.b = r.b /\ s.x = r.x /\ s.msbs = r.msbs /\ s.bits = r.bits
  BY DEF RiceRegs

\* What RiceInv says without the place
LEMMA Known ==
    ASSUME RiceInv
    PROVE  /\ RiceTypes /\ SourceTypes /\ BufferInv /\ ValuesInv /\ reg \in RiceRegs
           /\ vals \in Seq(Values) /\ Here \in Nat /\ Position \in Int
  <1>1. SourceTypes
    BY DEF RiceInv, RiceTypes
  <1>2. Position \in Int
    BY <1>1, SourcePosition
  <1> QED
    BY <1>1, <1>2 DEF RiceInv, RiceTypes, ValuesInv

LEMMA BeforeKeeps ==
    ASSUME RiceInv, NEW n \in 0..(Capacity * BitsPerWord), Before(n)
    PROVE  RiceInv'
  <1>1. reg.pc = "before" /\ vals = <<>>
    BY DEF Before, RiceInv, PlaceInv
  <1>2. ASSUME NEW m \in 1..(Capacity * BytesPerWord), Deliver(m) PROVE RiceInv'
    <2>1. /\ SourceTypes' /\ BufferInv' /\ UNCHANGED <<stream, reg, args, vals, start>>
      BY <1>2, DeliveringKeepsPlace
    <2>2. /\ reg' = reg /\ vals' = vals /\ start' = start /\ parameter' = parameter
          /\ SameValues
      BY <2>1 DEF args, SameValues
    <2>3. ValuesInv'
      BY <2>2, Known, ValuesStay
    <2>4. RiceTypes'
      BY <2>1, <2>2 DEF RiceInv, RiceTypes
    <2>5. PlaceInv'
      BY <1>1, <2>2 DEF PlaceInv, RegPlace, TailPlace
    <2> QED
      BY <2>1, <2>3, <2>4, <2>5 DEF RiceInv
  <1>3. ASSUME n \in 0..Unconsumed(br), br' = Consume(br, n), start' = Position + n,
               reg' = [reg EXCEPT !.pc = "enter"], UNCHANGED <<stream, fed, args, vals>>
        PROVE  RiceInv'
    <2>1. /\ n \in Nat /\ n <= Unconsumed(br) /\ SourceTypes /\ BufferInv
          /\ Position \in Nat /\ parameter \in Nat
      BY <1>3, Known, SourcePosition, SourceInStream, RiceSizes
    <2>2. SourceTypes' /\ BufferInv' /\ Position' = Position + n
      <3>1. Moves(n)
        BY <1>3, <2>1, SourceConsuming
      <3> QED
        BY <1>3, <2>1, <3>1, MovedSource
    <2>3. reg' \in RiceRegs /\ reg'.pc = "enter"
      BY <1>3, Known, RegKeepsFields
    <2>4. /\ vals' = <<>> /\ parameter' = parameter /\ start' \in Nat
          /\ vals' \in Seq(Values)
      BY <1>1, <1>3, <2>1 DEF args
    <2>5. ValuesInv'
      <3>1. (Starts = ChosenStarts)'
        BY StartsAreChosen, PTL
      <3>2. ChosenStarts' = CHOOSE f : AreStarts(f, start', <<>>, parameter)
        BY <2>4 DEF ChosenStarts
      <3>3. /\ \E f : AreStarts(f, start', <<>>, parameter)
            /\ \A f : AreStarts(f, start', <<>>, parameter) => f[1] = start'
        BY <2>1, <2>4, StartsOfNothing
      <3>4. AreStarts(Starts', start', <<>>, parameter)
        BY <3>1, <3>2, <3>3
      <3>5. Starts'[1] = start'
        BY <3>3, <3>4
      <3>6. AreStarts(Starts', start', vals', parameter')
        BY <2>4, <3>4
      <3>7. Len(vals') = 0
        BY <2>4
      <3>8. Here' = start'
        <4>1. Here' = Starts'[Len(vals') + 1]
          BY DEF Here
        <4>2. Len(vals') + 1 = 1
          BY <3>7
        <4> QED
          BY <3>5, <4>1, <4>2
      <3>9. (\A k \in 1..Len(vals) : ValueAt(vals[k], Starts[k]))'
        <4>1. \A k \in 1..Len(vals') : FALSE
          BY <3>7
        <4> QED
          BY <4>1
      <3> QED
        BY <2>4, <3>6, <3>8, <3>9 DEF ValuesInv, AreStarts
    <2>6. RiceTypes'
      BY <2>1, <2>2, <2>3, <2>4 DEF RiceInv, RiceTypes
    <2>7. PlaceInv'
      BY <1>3, <2>2, <2>3, <2>4 DEF PlaceInv, RegPlace, TailPlace
    <2> QED
      BY <2>2, <2>5, <2>6, <2>7 DEF RiceInv
  <1> QED
    BY <1>2, <1>3 DEF Before

LEMMA EnterKeeps ==
    ASSUME RiceInv, Enter
    PROVE  RiceInv'
  <1>1. /\ reg.pc = "enter" /\ UNCHANGED <<stream, fed, br, args, vals, start>>
        /\ vals = <<>> /\ Position = start
    BY DEF Enter, RiceInv, PlaceInv
  <1>2. Here = Position
    BY <1>1, Known, FirstBegins
  <1>3. ValuesInv' /\ Here' = Here /\ vals' \in Seq(Values)
    BY <1>1, Known, ValuesStay DEF SameValues
  <1>4. CASE reg' = [reg EXCEPT !.pc = "done"]
    <2>1. reg' \in RiceRegs /\ reg'.pc = "done"
      BY <1>4, Known, RegKeepsFields
    <2>2. RegPlace(reg', Here') /\ TailPlace(reg', Here', Position)
      BY <1>2, <1>3, <2>1 DEF RegPlace, TailPlace
    <2> QED
      BY <1>1, <1>3, <2>1, <2>2, InRegisters
  <1>5. CASE reg' = AtLoopHead(reg)
    <2>1. /\ reg' \in RiceRegs /\ reg'.pc \in {"msbs", "tailMsbs"}
          /\ RegPlace(reg', Position) /\ TailPlace(reg', Position, Position)
      BY <1>5, LoopHead
    <2>2. RegPlace(reg', Here') /\ TailPlace(reg', Here', Position)
      BY <1>2, <1>3, <2>1
    <2> QED
      BY <1>1, <1>3, <2>1, <2>2, InRegisters
  <1> QED
    BY <1>4, <1>5 DEF Enter

LEMMA ReloadKeeps ==
    ASSUME RiceInv, Reload
    PROVE  RiceInv'
  <1>1. /\ reg.pc = "reload" /\ UNCHANGED <<stream, fed, br, args, vals, start>>
        /\ Here = Position
    BY DEF Reload, RiceInv, PlaceInv, TailPlace
  <1>2. ValuesInv' /\ Here' = Here /\ vals' \in Seq(Values)
    BY <1>1, Known, ValuesStay DEF SameValues
  <1> DEFINE r == AtLoopHead(reg)
  <1>3. /\ r \in RiceRegs /\ r.pc \in {"msbs", "tailMsbs"}
        /\ r.cwords = br.consumed_words /\ r.ucbits = BitsPerWord - br.consumed_bits
        /\ RegPlace(r, Position) /\ TailPlace(r, Position, Position)
    BY LoopHead
  <1> HIDE DEF r
  <1>4. CASE reg' = r
    <2>1. RegPlace(reg', Here') /\ TailPlace(reg', Here', Position)
      BY <1>1, <1>2, <1>3, <1>4
    <2> QED
      BY <1>1, <1>2, <1>3, <1>4, <2>1, InRegisters
  <1>5. ASSUME NEW pc \in {"done", "finish"}, reg' = [r EXCEPT !.pc = pc]
        PROVE  RiceInv'
    <2>1. reg' \in RiceRegs /\ reg'.pc = pc /\ reg'.cwords = r.cwords /\ reg'.ucbits = r.ucbits
      <3>1. PICK s \in RiceRegs : s = r
        BY <1>3
      <3>2. LET t == [s EXCEPT !.pc = pc] IN
            /\ t \in RiceRegs /\ t.pc = pc /\ t.cwords = s.cwords /\ t.ucbits = s.ucbits
        BY DEF RiceRegs
      <3> QED
        BY <1>5, <3>1, <3>2
    <2>2. RegPlace(reg', Here') /\ TailPlace(reg', Here', Position)
      BY <1>1, <1>2, <1>5, <2>1 DEF RegPlace, TailPlace
    <2> QED
      BY <1>1, <1>2, <1>3, <1>5, <2>1, <2>2, InRegisters
  <1>6. \/ reg' = r
        \/ \E pc \in {"done", "finish"} : reg' = [r EXCEPT !.pc = pc]
    BY DEF Reload, r
  <1> QED
    BY <1>4, <1>5, <1>6

LEMMA MsbsKeeps ==
    ASSUME RiceInv, Msbs
    PROVE  RiceInv'
  <1> DEFINE n == CountZeroMsbs(reg.b)
  <1>1. /\ reg.pc = "msbs" /\ UNCHANGED <<stream, fed, br, args, vals, start>>
        /\ reg' = IF n < BitsPerWord THEN StopBitAt(reg, n, n)
                  ELSE [reg EXCEPT !.pc = "nextWord", !.x = reg.ucbits]
    BY DEF Msbs
  <1>2. ValuesInv' /\ Here' = Here /\ vals' \in Seq(Values) /\ Here \in Nat
    BY <1>1, Known, ValuesStay DEF SameValues
  <1>3. Holds(reg.b, reg.cwords, reg.ucbits) /\ WordEnd(reg.cwords) = Here + reg.ucbits
    BY <1>1 DEF RiceInv, PlaceInv, RegPlace
  <1>4. /\ BitsPerWord \in Nat \ {0} /\ reg \in RiceRegs /\ reg.cwords \in Nat
        /\ reg.ucbits \in 0..BitsPerWord /\ reg.b \in BitWords
        /\ SourceTypes /\ BufferInv
    BY Known, RiceSizes
  <1>5. /\ n \in 0..BitsPerWord
        /\ n < BitsPerWord => n < reg.ucbits /\ UnaryAt(WordEnd(reg.cwords) - reg.ucbits, n)
        /\ n = BitsPerWord => ZerosFrom(WordEnd(reg.cwords) - reg.ucbits, reg.ucbits)
    BY <1>3, <1>4, HeldZeros
  <1>6. WordEnd(reg.cwords) - reg.ucbits = Here
    BY <1>2, <1>3, <1>4
  <1> HIDE DEF n
  <1>7. CASE n < BitsPerWord
    <2>1. n \in Nat /\ n < reg.ucbits /\ UnaryAt(Here, n)
      BY <1>5, <1>6, <1>7
    <2>2. (reg.ucbits - n - 1) % BitsPerWord = reg.ucbits - (n + 1)
      <3> DEFINE k == reg.ucbits - (n + 1)
      <3>1. k \in 0..(BitsPerWord - 1) /\ reg.ucbits - n - 1 = k
        BY <1>4, <2>1
      <3> HIDE DEF k
      <3>2. BitsPerWord * 0 + k = k
        BY <1>4, <3>1
      <3>3. (BitsPerWord * 0 + k) % BitsPerWord = k
        BY <3>1, RestOfWord
      <3> QED
        BY <3>1, <3>2, <3>3 DEF k
    <2>3. WordEnd(reg.cwords) = Here + n + 1 + (reg.ucbits - (n + 1))
      BY <1>2, <1>3, <1>4, <2>1
    <2>4. /\ reg' \in RiceRegs /\ reg'.pc \in {"failed", "lsbs"}
          /\ RegPlace(reg', Here) /\ TailPlace(reg', Here, Position)
      BY <1>1, <1>3, <1>4, <1>7, <2>1, <2>2, <2>3, StopBitFound
    <2> QED
      BY <1>1, <1>2, <2>4, InRegisters
  <1>8. CASE ~(n < BitsPerWord)
    <2>1. reg' = [reg EXCEPT !.pc = "nextWord", !.x = reg.ucbits]
      BY <1>1, <1>8
    <2>2. /\ reg' \in RiceRegs /\ reg'.pc = "nextWord" /\ reg'.x = reg.ucbits
          /\ reg'.cwords = reg.cwords /\ reg'.ucbits = reg.ucbits
      <3>1. reg.ucbits \in Nat
        BY <1>4
      <3> QED
        BY <1>4, <2>1, <3>1 DEF RiceRegs
    <2>3. ZerosFrom(Here, reg.ucbits) /\ reg.cwords < br.words
      BY <1>3, <1>4, <1>5, <1>6, <1>8 DEF Holds
    <2>4. reg.ucbits = reg.ucbits + BitsPerWord * 0
      BY <1>4
    <2>5. RegPlace(reg', Here)
      BY <1>3, <2>2, <2>3, <2>4 DEF RegPlace
    <2>6. TailPlace(reg', Here, Position)
      BY <2>2 DEF TailPlace
    <2> QED
      BY <1>1, <1>2, <2>2, <2>5, <2>6, InRegisters
  <1> QED
    BY <1>7, <1>8

\* All whole words are consumed when the place goes back to the reader.
LEMMA PutBack ==
    ASSUME SourceTypes, BufferInv, NEW r, r.cwords = br.words, br' = ToReader(r),
           UNCHANGED <<stream, fed>>
    PROVE  /\ SourceTypes' /\ BufferInv'
           /\ Position' = Base + br.words * BitsPerWord
  <1> DEFINE w == br.words
             b == [br EXCEPT !.consumed_words = w, !.consumed_bits = 0]
  <1>1. /\ br \in Readers(Byte) /\ Sane(br) /\ w \in Nat
        /\ BitsPerWord \in Nat \ {0} /\ BitsPerWord = BytesPerWord * BitsPerByte
    BY Sizes DEF SourceTypes, BufferInv, Readers
  <1>2. br' = b
    BY DEF ToReader
  <1> HIDE DEF w
  <1>3. /\ b \in Readers(Byte) /\ b.buffer = br.buffer /\ b.words = br.words
        /\ b.bytes = br.bytes /\ b.consumed_words = w /\ b.consumed_bits = 0
    BY <1>1 DEF Readers
  <1> HIDE DEF b
  <1>4. Available(b) = Available(br)
    BY <1>3 DEF Available
  <1>5. Consumed(b) = w * BitsPerWord /\ w * BitsPerWord \in Nat
    BY <1>1, <1>3 DEF Consumed
  <1>6. w * BitsPerWord <= Available(br) * BitsPerByte
    <2>1. br.bytes \in Nat
      BY <1>1 DEF Readers
    <2>2. Available(br) * BitsPerByte = w * BitsPerWord + br.bytes * BitsPerByte
      BY <1>1, <2>1, ReaderAssumption DEF Available, w
    <2>3. br.bytes * BitsPerByte \in Nat
      BY <2>1, ReaderAssumption
    <2> QED
      BY <1>5, <2>2, <2>3
  <1>7. Sane(b)
    BY <1>1, <1>3, <1>4, <1>5, <1>6 DEF Sane
  <1>8. SourceTypes' /\ BufferInv'
    BY <1>2, <1>3, <1>4, <1>7 DEF SourceTypes, BufferInv
  <1>9. Position' = Base + w * BitsPerWord
    <2>1. Position' = fed * BitsPerByte - Unconsumed(b)
      BY <1>2 DEF Position
    <2>2. Unconsumed(b) = Available(br) * BitsPerByte - w * BitsPerWord
      BY <1>3, <1>4, <1>5, Places
    <2>3. /\ Base \in Nat /\ Available(br) * BitsPerByte \in Nat
          /\ Base + Available(br) * BitsPerByte = fed * BitsPerByte
      BY SourceBase
    <2> QED
      BY <1>5, <2>1, <2>2, <2>3
  <1> QED
    BY <1>8, <1>9 DEF w

LEMMA NextWordKeeps ==
    ASSUME RiceInv, NextWord
    PROVE  RiceInv'
  <1> DEFINE r == [reg EXCEPT !.cwords = @ + 1]
             w == Word(br, reg.cwords + 1)
             n == CountZeroMsbs(w)
  <1>1. reg.pc = "nextWord" /\ UNCHANGED <<stream, fed, args, vals, start>>
    BY DEF NextWord
  <1>2. /\ ValuesInv' /\ Here' = Here /\ vals' \in Seq(Values) /\ Here \in Nat
        /\ Position \in Int /\ SourceTypes /\ BufferInv
    BY <1>1, Known, ValuesStay DEF SameValues
  <1>3. /\ reg.cwords < br.words /\ WordEnd(reg.cwords) = Here + reg.x
        /\ ZerosFrom(Here, reg.x)
        /\ \E q \in Nat : reg.x = reg.ucbits + BitsPerWord * q
    BY <1>1 DEF RiceInv, PlaceInv, RegPlace
  <1>4. /\ BitsPerWord \in Nat \ {0} /\ reg \in RiceRegs /\ reg.cwords \in Nat
        /\ reg.ucbits \in 0..BitsPerWord /\ reg.b \in BitWords /\ reg.x \in Nat
        /\ br.words \in Nat
    BY <1>2, Known, RiceSizes DEF SourceTypes, Readers
  <1>5. /\ r \in RiceRegs /\ r.cwords = reg.cwords + 1 /\ r.x = reg.x /\ r.b = reg.b
        /\ r.ucbits = reg.ucbits /\ r.pc = "nextWord"
    BY <1>1, <1>4 DEF RiceRegs
  <1>6. \/ /\ r.cwords >= br.words
           /\ reg' = [r EXCEPT !.pc = "tailMsbs"] /\ br' = ToReader(r)
        \/ /\ ~(r.cwords >= br.words) /\ br' = br
           /\ reg' = IF n < BitsPerWord THEN StopBitAt([r EXCEPT !.b = w], n, r.x + n)
                     ELSE [r EXCEPT !.x = @ + n]
    BY <1>5 DEF NextWord
  <1>7. /\ WordEnd(reg.cwords + 1) = Here + reg.x + BitsPerWord
        /\ WordEnd(reg.cwords) = Base + (reg.cwords + 1) * BitsPerWord
        /\ Base \in Nat /\ (reg.cwords + 1) * BitsPerWord \in Nat
    <2>1. WordEnd(reg.cwords + 1) = WordEnd(reg.cwords) + BitsPerWord
      BY <1>2, <1>3, <1>4, WordIsHeld
    <2>2. /\ (reg.cwords + 1) * BitsPerWord = reg.cwords * BitsPerWord + BitsPerWord
          /\ reg.cwords * BitsPerWord \in Nat /\ Base \in Nat
      BY <1>2, <1>3, <1>4, WordOfStream, SourceBase
    <2> QED
      BY <1>3, <1>4, <2>1, <2>2 DEF WordEnd
  <1> HIDE DEF r
  <1>8. ASSUME r.cwords >= br.words, reg' = [r EXCEPT !.pc = "tailMsbs"], br' = ToReader(r)
        PROVE  RiceInv'
    <2>1. br.words = reg.cwords + 1 /\ r.cwords = br.words
      <3>1. reg.cwords < br.words /\ reg.cwords \in Nat /\ br.words \in Nat
        BY <1>3, <1>4
      <3>2. r.cwords = reg.cwords + 1 /\ r.cwords >= br.words
        BY <1>5, <1>8
      <3> QED
        BY <3>1, <3>2
    <2>2. /\ SourceTypes' /\ BufferInv'
          /\ Position' = Base + (reg.cwords + 1) * BitsPerWord
      BY <1>1, <1>2, <1>8, <2>1, PutBack
    <2>3. /\ reg' \in RiceRegs /\ reg'.pc = "tailMsbs" /\ reg'.x = reg.x
      BY <1>5, <1>8, RegKeepsFields
    <2>4. TailPlace(reg', Here', Position')
      BY <1>2, <1>3, <1>7, <2>2, <2>3 DEF TailPlace
    <2> QED
      BY <1>1, <1>2, <2>2, <2>3, <2>4, AtTheTail
  <1>9. ASSUME ~(r.cwords >= br.words), br' = br,
               reg' = IF n < BitsPerWord THEN StopBitAt([r EXCEPT !.b = w], n, r.x + n)
                      ELSE [r EXCEPT !.x = @ + n]
        PROVE  RiceInv'
    <2>1. reg.cwords + 1 \in Nat /\ reg.cwords + 1 < br.words
      BY <1>4, <1>5, <1>9
    <2>2. w \in BinaryWords /\ w \in BitWords /\ Holds(w, reg.cwords + 1, BitsPerWord)
      BY <1>2, <2>1, WordIsHeld
    <2> HIDE DEF w
    <2>3. BitsPerWord \in 0..BitsPerWord
      BY <1>4
    <2>4. /\ n \in 0..BitsPerWord
          /\ n < BitsPerWord => UnaryAt(WordEnd(reg.cwords + 1) - BitsPerWord, n)
          /\ n = BitsPerWord =>
                ZerosFrom(WordEnd(reg.cwords + 1) - BitsPerWord, BitsPerWord)
      BY <1>2, <2>1, <2>2, <2>3, HeldZeros
    <2>5. WordEnd(reg.cwords + 1) - BitsPerWord = Here + reg.x
      BY <1>2, <1>4, <1>7
    <2> HIDE DEF n
    <2>6. PICK q \in Nat : reg.x = reg.ucbits + BitsPerWord * q
      BY <1>3
    <2>7. BitsPerWord * q \in Nat
      BY <1>4
    <2>8. CASE n < BitsPerWord
      <3> DEFINE s == [r EXCEPT !.b = w]
                 x == reg.x + n
      <3>1. /\ s \in RiceRegs /\ s.cwords = reg.cwords + 1 /\ s.b = w
            /\ s.ucbits = reg.ucbits
        BY <1>5, <2>2 DEF RiceRegs
      <3>2. reg' = StopBitAt(s, n, x)
        BY <1>5, <1>9, <2>8
      <3>3. n \in Nat /\ x \in Nat
        BY <1>4, <2>4
      <3>4. UnaryAt(Here, x)
        <4>1. ZerosFrom(Here + reg.x, n) /\ StreamBit(Here + reg.x + n) = 1
          BY <2>4, <2>5, <2>8 DEF UnaryAt
        <4>2. ZerosFrom(Here, reg.x + n)
          BY <1>2, <1>3, <1>4, <3>3, <4>1, ZerosJoin
        <4>3. Here + (reg.x + n) = Here + reg.x + n
          BY <1>2, <1>4, <3>3
        <4> QED
          BY <4>1, <4>2, <4>3 DEF UnaryAt
      <3>5. (reg.ucbits - x - 1) % BitsPerWord = BitsPerWord - (n + 1)
        <4> DEFINE k == BitsPerWord - (n + 1)
                   m == -(q + 1)
        <4>1. k \in 0..(BitsPerWord - 1) /\ m \in Int
          BY <1>4, <2>8, <3>3
        <4>2. BitsPerWord * m = -(BitsPerWord * q) - BitsPerWord
          BY <1>4
        <4>3. reg.ucbits - x - 1 = BitsPerWord * m + k
          BY <1>4, <2>6, <2>7, <3>3, <4>2
        <4> HIDE DEF k, m
        <4>4. (BitsPerWord * m + k) % BitsPerWord = k
          BY <4>1, RestOfWord
        <4> QED
          BY <4>3, <4>4 DEF k
      <3>6. WordEnd(reg.cwords + 1) = Here + x + 1 + (BitsPerWord - (n + 1))
        BY <1>2, <1>4, <1>7, <3>3, SMTT(30)
      <3> HIDE DEF s, x
      <3>7. /\ reg' \in RiceRegs /\ reg'.pc \in {"failed", "lsbs"}
            /\ RegPlace(reg', Here) /\ TailPlace(reg', Here, Position)
        BY <2>2, <2>3, <2>8, <3>1, <3>2, <3>3, <3>4, <3>5, <3>6, StopBitFound
      <3> QED
        BY <1>1, <1>2, <1>9, <3>7, InRegisters
    <2>9. CASE ~(n < BitsPerWord)
      <3>1. n = BitsPerWord
        BY <1>4, <2>4, <2>9
      <3> DEFINE x == reg.x + BitsPerWord
      <3>2. reg' = [r EXCEPT !.x = x] /\ x \in Nat
        BY <1>4, <1>5, <1>9, <2>9, <3>1
      <3>3. ZerosFrom(Here, x)
        BY <1>2, <1>3, <1>4, <2>4, <2>5, <3>1, ZerosJoin
      <3>4. x = reg.ucbits + BitsPerWord * (q + 1) /\ q + 1 \in Nat
        <4>1. BitsPerWord * (q + 1) = BitsPerWord * q + BitsPerWord
          BY <1>4
        <4> QED
          BY <1>4, <2>6, <2>7, <4>1
      <3>5. WordEnd(reg.cwords + 1) = Here + x
        BY <1>2, <1>4, <1>7
      <3> HIDE DEF x
      <3>6. /\ reg' \in RiceRegs /\ reg'.pc = "nextWord" /\ reg'.x = x
            /\ reg'.cwords = reg.cwords + 1 /\ reg'.ucbits = reg.ucbits
        BY <1>5, <3>2 DEF RiceRegs
      <3>7. RegPlace(reg', Here)
        BY <2>1, <3>3, <3>4, <3>5, <3>6 DEF RegPlace
      <3>8. TailPlace(reg', Here, Position)
        BY <3>6 DEF TailPlace
      <3> QED
        BY <1>1, <1>2, <1>9, <3>6, <3>7, <3>8, InRegisters
    <2> QED
      BY <2>8, <2>9
  <1> QED
    BY <1>6, <1>8, <1>9

\* The value that is read is complete, and the function is behind it.
LEMMA ValueRead ==
    ASSUME RiceInv, UNCHANGED <<stream, args, start>>,
           NEW m \in Nat, NEW bits \in Seq(Binary), Len(bits) = parameter,
           UnaryAt(Here, m),
           \A i \in 1..parameter : bits[i] = StreamBit(Here + m + i),
           Emit(m, bits)
    PROVE  /\ ValuesInv' /\ vals' \in Seq(Values)
           /\ Here' = Here + m + 1 + parameter
  <1> DEFINE v == [msbs |-> m, lsbs |-> bits]
  <1>1. v \in Values /\ v.msbs = m /\ v.lsbs = bits
    BY DEF Values
  <1>2. vals' = Append(vals, v)
    BY DEF Emit
  <1> HIDE DEF v
  <1>3. ValueAt(v, Here)
    BY <1>1 DEF ValueAt
  <1> QED
    BY <1>1, <1>2, <1>3, Known, ValueIsAdded

LEMMA FrontOfBits ==
    ASSUME NEW b \in BinaryWords, NEW n \in 0..BitsPerWord
    PROVE  /\ SubSeq(b, 1, n) \in Seq(Binary) /\ Len(SubSeq(b, 1, n)) = n
           /\ \A k \in 1..n : SubSeq(b, 1, n)[k] = b[k]
  <1>1. BitsPerWord \in Nat
    BY Sizes
  <1>2. b \in Seq(Binary) /\ Len(b) = BitsPerWord
    BY <1>1 DEF BinaryWords
  <1>3. Len(SubSeq(b, 1, n)) = n
    BY <1>1, <1>2
  <1>4. \A k \in 1..n : SubSeq(b, 1, n)[k] = b[1 + k - 1] /\ 1 + k - 1 = k
    BY <1>1, <1>2
  <1>5. SubSeq(b, 1, n) \in Seq(Binary)
    BY <1>1, <1>2
  <1> QED
    BY <1>3, <1>4, <1>5

\* The binary part is all in the word that is held.
LEMMA LsbsHere ==
    ASSUME RiceInv, reg.pc = "lsbs", parameter <= reg.ucbits,
           UNCHANGED <<stream, fed, br, args, start>>,
           Emit(reg.msbs, SubSeq(reg.b, 1, parameter)),
           reg' = [reg EXCEPT !.pc = "msbs", !.ucbits = @ - parameter,
                              !.b = Shifted(@, parameter)]
    PROVE  RiceInv'
  <1>1. /\ Holds(reg.b, reg.cwords, reg.ucbits) /\ UnaryAt(Here, reg.msbs)
        /\ WordEnd(reg.cwords) = Here + reg.msbs + 1 + reg.ucbits
    BY DEF RiceInv, PlaceInv, RegPlace
  <1>2. /\ BitsPerWord \in Nat \ {0} /\ reg \in RiceRegs /\ reg.cwords \in Nat
        /\ reg.ucbits \in 0..BitsPerWord /\ reg.b \in BitWords /\ reg.msbs \in Nat
        /\ parameter \in Nat /\ Here \in Nat /\ SourceTypes /\ BufferInv
    BY Known, RiceSizes
  <1>3. parameter \in 0..BitsPerWord /\ parameter \in 0..reg.ucbits
    BY <1>2
  <1> DEFINE bits == SubSeq(reg.b, 1, parameter)
             from == WordEnd(reg.cwords) - reg.ucbits
             b == Shifted(reg.b, parameter)
             left == reg.ucbits - parameter
  <1>4. /\ reg.b \in BinaryWords /\ from = Here + reg.msbs + 1
        /\ \A k \in 1..reg.ucbits : reg.b[k] = StreamBit(from + k - 1)
    BY <1>1, <1>2, HeldBits
  <1>5. /\ bits \in Seq(Binary) /\ Len(bits) = parameter
        /\ \A k \in 1..parameter : bits[k] = reg.b[k]
    BY <1>3, <1>4, FrontOfBits
  <1>6. b \in BitWords /\ left \in 0..BitsPerWord /\ Holds(b, reg.cwords, left)
    BY <1>1, <1>2, <1>3, HeldIsShifted
  <1> HIDE DEF from, bits
  <1>7. \A i \in 1..parameter : bits[i] = StreamBit(Here + reg.msbs + i)
    <2> SUFFICES ASSUME NEW i \in 1..parameter PROVE bits[i] = StreamBit(Here + reg.msbs + i)
      OBVIOUS
    <2>1. i \in 1..reg.ucbits /\ from + i - 1 = Here + reg.msbs + i
      BY <1>2, <1>3, <1>4
    <2> QED
      BY <1>4, <1>5, <2>1
  <1>8. /\ ValuesInv' /\ vals' \in Seq(Values)
        /\ Here' = Here + reg.msbs + 1 + parameter
    BY <1>1, <1>2, <1>5, <1>7, ValueRead DEF bits
  <1>9. WordEnd(reg.cwords) = Here' + left
    BY <1>1, <1>2, <1>3, <1>8
  <1> HIDE DEF b, left
  <1>10. /\ reg' \in RiceRegs /\ reg'.pc = "msbs" /\ reg'.ucbits = left /\ reg'.b = b
         /\ reg'.cwords = reg.cwords
    <2>1. reg' = [reg EXCEPT !.pc = "msbs", !.ucbits = left, !.b = b]
      BY <1>2 DEF b, left, RiceRegs
    <2> QED
      BY <1>2, <1>6, <2>1 DEF RiceRegs
  <1>11. RegPlace(reg', Here') /\ TailPlace(reg', Here', Position)
    BY <1>6, <1>9, <1>10 DEF RegPlace, TailPlace
  <1> QED
    BY <1>8, <1>10, <1>11, InRegisters

\* It ends in the next word.
LEMMA LsbsThere ==
    ASSUME RiceInv, reg.pc = "lsbs", ~(parameter <= reg.ucbits),
           UNCHANGED <<stream, fed, br, args, start>>,
           ~(reg.cwords + 1 >= br.words),
           NEW r, r = [reg EXCEPT !.cwords = @ + 1],
           NEW w, w = Word(br, reg.cwords + 1),
           NEW there, there = parameter - reg.ucbits,
           Emit(reg.msbs, SubSeq(reg.b, 1, reg.ucbits) \o SubSeq(w, 1, there)),
           reg' = [r EXCEPT !.pc = "msbs", !.ucbits = BitsPerWord - there,
                            !.b = Shifted(w, there)]
    PROVE  RiceInv'
  <1>1. /\ Holds(reg.b, reg.cwords, reg.ucbits) /\ UnaryAt(Here, reg.msbs)
        /\ WordEnd(reg.cwords) = Here + reg.msbs + 1 + reg.ucbits
        /\ reg.cwords < br.words
    BY DEF RiceInv, PlaceInv, RegPlace, Holds
  <1>2. /\ BitsPerWord \in Nat \ {0} /\ reg \in RiceRegs /\ reg.cwords \in Nat
        /\ reg.ucbits \in 0..BitsPerWord /\ reg.b \in BitWords /\ reg.msbs \in Nat
        /\ parameter \in 0..(BitsPerWord - 1) /\ Here \in Nat /\ SourceTypes /\ BufferInv
        /\ br.words \in Nat
    BY Known, RiceSizes DEF SourceTypes, Readers
  <1>3. /\ there \in 1..(BitsPerWord - 1) /\ reg.cwords + 1 \in Nat
        /\ reg.cwords + 1 < br.words /\ parameter = reg.ucbits + there
    BY <1>2
  <1> DEFINE here == SubSeq(reg.b, 1, reg.ucbits)
             rest == SubSeq(w, 1, there)
             bits == here \o rest
             from == WordEnd(reg.cwords) - reg.ucbits
             next == WordEnd(reg.cwords + 1)
             b == Shifted(w, there)
             left == BitsPerWord - there
  <1>4. /\ reg.b \in BinaryWords /\ from = Here + reg.msbs + 1
        /\ \A k \in 1..reg.ucbits : reg.b[k] = StreamBit(from + k - 1)
    BY <1>1, <1>2, HeldBits
  <1>5. /\ here \in Seq(Binary) /\ Len(here) = reg.ucbits
        /\ \A k \in 1..reg.ucbits : here[k] = reg.b[k]
    BY <1>2, <1>4, FrontOfBits
  <1>6. /\ w \in BinaryWords /\ w \in BitWords /\ Holds(w, reg.cwords + 1, BitsPerWord)
        /\ BitsPerWord \in 0..BitsPerWord
    BY <1>2, <1>3, WordIsHeld
  <1>7. next = WordEnd(reg.cwords) + BitsPerWord /\ next \in Nat
    BY <1>1, <1>2, <1>3, WordIsHeld
  <1>8. \A k \in 1..BitsPerWord : w[k] = StreamBit(next - BitsPerWord + k - 1)
    BY <1>2, <1>3, <1>6, HeldBits
  <1>9. /\ rest \in Seq(Binary) /\ Len(rest) = there
        /\ \A k \in 1..there : rest[k] = w[k]
    <2>1. there \in 0..BitsPerWord
      BY <1>2, <1>3
    <2> QED
      BY <1>6, <2>1, FrontOfBits
  <1> HIDE DEF here, rest
  <1>10. /\ bits \in Seq(Binary) /\ Len(bits) = parameter
         /\ \A i \in 1..parameter :
               bits[i] = IF i <= reg.ucbits THEN here[i] ELSE rest[i - reg.ucbits]
    <2>1. bits \in Seq(Binary) /\ Len(bits) = Len(here) + Len(rest)
      BY <1>5, <1>9, ConcatProperties
    <2>2. Len(bits) = reg.ucbits + there
      BY <1>5, <1>9, <2>1
    <2>3. \A i \in 1..(Len(here) + Len(rest)) :
             bits[i] = IF i <= Len(here) THEN here[i] ELSE rest[i - Len(here)]
      BY <1>5, <1>9, ConcatProperties
    <2> QED
      BY <1>3, <1>5, <1>9, <2>1, <2>2, <2>3
  <1>11. b \in BitWords /\ left \in 0..BitsPerWord /\ Holds(b, reg.cwords + 1, left)
    <2>1. there \in 0..BitsPerWord
      BY <1>2, <1>3
    <2> QED
      BY <1>2, <1>3, <1>6, <2>1, HeldIsShifted
  <1> HIDE DEF from, bits, next
  <1>12. ASSUME NEW i \in 1..parameter PROVE bits[i] = StreamBit(Here + reg.msbs + i)
    <2>1. CASE i <= reg.ucbits
      <3>1. i \in 1..reg.ucbits /\ from + i - 1 = Here + reg.msbs + i
        BY <1>2, <1>4, <2>1
      <3> QED
        BY <1>4, <1>5, <1>10, <2>1, <3>1
    <2>2. CASE ~(i <= reg.ucbits)
      <3> DEFINE k == i - reg.ucbits
      <3>1. /\ k \in 1..there /\ k \in 1..BitsPerWord
            /\ next - BitsPerWord + k - 1 = Here + reg.msbs + i
        BY <1>1, <1>2, <1>3, <1>7, <2>2
      <3>2. bits[i] = rest[k]
        BY <1>10, <2>2
      <3> HIDE DEF k
      <3> QED
        BY <1>8, <1>9, <3>1, <3>2
    <2> QED
      BY <2>1, <2>2
  <1>13. /\ ValuesInv' /\ vals' \in Seq(Values)
         /\ Here' = Here + reg.msbs + 1 + parameter
    <2>1. Emit(reg.msbs, bits)
      BY DEF bits, here, rest
    <2> QED
      BY <1>1, <1>2, <1>10, <1>12, <2>1, ValueRead
  <1>14. next = Here' + left
    <2>1. next = Here + reg.msbs + 1 + reg.ucbits + BitsPerWord
      BY <1>1, <1>7
    <2>2. Here' = Here + reg.msbs + 1 + (reg.ucbits + there)
      BY <1>3, <1>13
    <2> QED
      BY <1>2, <1>3, <2>1, <2>2
  <1> HIDE DEF b, left
  <1>15. /\ reg' \in RiceRegs /\ reg'.pc = "msbs" /\ reg'.ucbits = left /\ reg'.b = b
         /\ reg'.cwords = reg.cwords + 1
    <2>1. reg' = [r EXCEPT !.pc = "msbs", !.ucbits = left, !.b = b]
      BY DEF b, left
    <2>2. r \in RiceRegs /\ r.cwords = reg.cwords + 1
      BY <1>2, <1>3 DEF RiceRegs
    <2> QED
      BY <1>11, <2>1, <2>2 DEF RiceRegs
  <1>16. RegPlace(reg', Here') /\ TailPlace(reg', Here', Position)
    BY <1>11, <1>14, <1>15 DEF RegPlace, TailPlace, next
  <1> QED
    BY <1>13, <1>15, <1>16, InRegisters

\* It ends behind the whole words.
LEMMA LsbsAtTail ==
    ASSUME RiceInv, reg.pc = "lsbs", ~(parameter <= reg.ucbits),
           UNCHANGED <<stream, fed, args, vals, start>>,
           reg.cwords + 1 >= br.words,
           NEW r, r = [reg EXCEPT !.cwords = @ + 1],
           reg' = [r EXCEPT !.pc = "tailLsbs", !.bits = SubSeq(reg.b, 1, reg.ucbits)],
           br' = ToReader(r)
    PROVE  RiceInv'
  <1>1. /\ Holds(reg.b, reg.cwords, reg.ucbits) /\ UnaryAt(Here, reg.msbs)
        /\ WordEnd(reg.cwords) = Here + reg.msbs + 1 + reg.ucbits
        /\ reg.cwords < br.words
    BY DEF RiceInv, PlaceInv, RegPlace, Holds
  <1>2. /\ BitsPerWord \in Nat \ {0} /\ reg \in RiceRegs /\ reg.cwords \in Nat
        /\ reg.ucbits \in 0..BitsPerWord /\ reg.b \in BitWords /\ reg.msbs \in Nat
        /\ parameter \in Nat /\ Here \in Nat /\ SourceTypes /\ BufferInv
        /\ br.words \in Nat
    BY Known, RiceSizes DEF SourceTypes, Readers
  <1> DEFINE bits == SubSeq(reg.b, 1, reg.ucbits)
             from == WordEnd(reg.cwords) - reg.ucbits
  <1>3. r \in RiceRegs /\ r.cwords = reg.cwords + 1 /\ r.msbs = reg.msbs
    BY <1>2 DEF RiceRegs
  <1>4. br.words = reg.cwords + 1
    BY <1>1, <1>2
  <1>5. /\ SourceTypes' /\ BufferInv'
        /\ Position' = Base + br.words * BitsPerWord
    BY <1>2, <1>3, <1>4, PutBack
  <1>6. Position' = WordEnd(reg.cwords)
    <2>1. /\ (reg.cwords + 1) * BitsPerWord = reg.cwords * BitsPerWord + BitsPerWord
          /\ reg.cwords * BitsPerWord \in Nat /\ Base \in Nat
      BY <1>1, <1>2, WordOfStream, SourceBase
    <2> QED
      BY <1>2, <1>4, <1>5, <2>1 DEF WordEnd
  <1>7. /\ reg.b \in BinaryWords /\ from = Here + reg.msbs + 1
        /\ \A k \in 1..reg.ucbits : reg.b[k] = StreamBit(from + k - 1)
    BY <1>1, <1>2, HeldBits
  <1>8. /\ bits \in Seq(Binary) /\ Len(bits) = reg.ucbits
        /\ \A k \in 1..reg.ucbits : bits[k] = reg.b[k]
    BY <1>2, <1>7, FrontOfBits
  <1> HIDE DEF bits, from
  <1>9. /\ reg' \in RiceRegs /\ reg'.pc = "tailLsbs" /\ reg'.msbs = reg.msbs
        /\ reg'.bits = bits
    <2>1. reg' = [r EXCEPT !.pc = "tailLsbs", !.bits = bits]
      BY DEF bits
    <2> QED
      BY <1>3, <1>8, <2>1 DEF RiceRegs
  <1>10. ValuesInv' /\ Here' = Here /\ vals' \in Seq(Values)
    BY Known, ValuesStay DEF SameValues
  <1>11. \A i \in 1..Len(bits) : bits[i] = StreamBit(Here + reg.msbs + i)
    <2> SUFFICES ASSUME NEW i \in 1..reg.ucbits PROVE bits[i] = StreamBit(Here + reg.msbs + i)
      BY <1>8
    <2>1. from + i - 1 = Here + reg.msbs + i
      BY <1>2, <1>7
    <2> QED
      BY <1>7, <1>8, <2>1
  <1>12. Len(bits) <= parameter
    BY <1>2, <1>8
  <1>13. TailPlace(reg', Here', Position')
    BY <1>1, <1>2, <1>6, <1>8, <1>9, <1>10, <1>11, <1>12 DEF TailPlace
  <1> QED
    BY <1>5, <1>9, <1>10, <1>13, AtTheTail

LEMMA LsbsKeeps ==
    ASSUME RiceInv, Lsbs
    PROVE  RiceInv'
  <1> DEFINE r == [reg EXCEPT !.cwords = @ + 1]
             w == Word(br, reg.cwords + 1)
             there == parameter - reg.ucbits
  <1>1. reg.pc = "lsbs" /\ UNCHANGED <<stream, fed, args, start>>
    BY DEF Lsbs
  <1>2. r.cwords = reg.cwords + 1
    BY Known DEF RiceRegs
  <1>3. CASE parameter <= reg.ucbits
    <2>1. /\ Emit(reg.msbs, SubSeq(reg.b, 1, parameter))
          /\ reg' = [reg EXCEPT !.pc = "msbs", !.ucbits = @ - parameter,
                                !.b = Shifted(@, parameter)]
          /\ UNCHANGED br
      BY <1>3 DEF Lsbs
    <2> QED
      BY <1>1, <1>3, <2>1, LsbsHere
  <1>4. CASE ~(parameter <= reg.ucbits) /\ reg.cwords + 1 >= br.words
    <2>1. /\ reg' = [r EXCEPT !.pc = "tailLsbs", !.bits = SubSeq(reg.b, 1, reg.ucbits)]
          /\ br' = ToReader(r) /\ UNCHANGED vals
      BY <1>2, <1>4 DEF Lsbs
    <2> HIDE DEF r
    <2>2. r = [reg EXCEPT !.cwords = @ + 1]
      BY DEF r
    <2> QED
      BY <1>1, <1>4, <2>1, <2>2, LsbsAtTail
  <1>5. CASE ~(parameter <= reg.ucbits) /\ ~(reg.cwords + 1 >= br.words)
    <2>1. /\ Emit(reg.msbs, SubSeq(reg.b, 1, reg.ucbits) \o SubSeq(w, 1, there))
          /\ reg' = [r EXCEPT !.pc = "msbs", !.ucbits = BitsPerWord - there,
                              !.b = Shifted(w, there)]
          /\ UNCHANGED br
      BY <1>2, <1>5 DEF Lsbs
    <2>2. /\ r = [reg EXCEPT !.cwords = @ + 1]
          /\ w = Word(br, reg.cwords + 1) /\ there = parameter - reg.ucbits
      OBVIOUS
    <2> HIDE DEF r, w, there
    <2> QED
      BY <1>1, <1>5, <2>1, <2>2, LsbsThere
  <1> QED
    BY <1>3, <1>4, <1>5

LEMMA TailUnaryKeeps ==
    ASSUME RiceInv, TailUnary
    PROVE  RiceInv'
  <1> DEFINE all == Unconsumed(br)
             ones == {n \in 1..all : NextBits(br, n)[n] = 1}
             n == CHOOSE m \in ones : \A k \in ones : m <= k
  <1>1. /\ reg.pc = "tailMsbs" /\ all > 0
        /\ UNCHANGED <<stream, fed, args, vals, start>>
    BY DEF TailUnary
  <1>2. /\ ValuesInv' /\ Here' = Here /\ vals' \in Seq(Values) /\ Here \in Nat
        /\ SourceTypes /\ BufferInv
    BY <1>1, Known, ValuesStay DEF SameValues
  <1>3. Position = Here + reg.x /\ ZerosFrom(Here, reg.x)
    BY <1>1 DEF RiceInv, PlaceInv, TailPlace
  <1>4. reg \in RiceRegs /\ reg.x \in Nat /\ all \in Nat
    <2>1. all \in Int
      BY <1>2, SourcePosition
    <2> QED
      BY <1>1, <2>1, Known, RiceSizes
  <1>5. ASSUME NEW i \in 0..(all - 1)
        PROVE  /\ NextBits(br, i + 1)[i + 1] = StreamBit(Position + i)
               /\ StreamBit(Position + i) \in {0, 1}
    <2>1. i + 1 \in Nat /\ i + 1 <= all /\ i + 1 \in 1..(i + 1)
      BY <1>4
    <2>2. Position + (i + 1) - 1 = Position + i
      BY <1>2, <1>3, <1>4
    <2>3. NextBits(br, i + 1)[i + 1] = StreamBit(Position + (i + 1) - 1)
      BY <1>2, <2>1, SourceBits
    <2>4. NextBits(br, i + 1)[i + 1] \in {0, 1}
      <3>1. /\ NextBits(br, i + 1) \in Seq({0, 1}) /\ Len(NextBits(br, i + 1)) = i + 1
        BY <1>2, <2>1, SourceBits
      <3> QED
        BY <2>1, <3>1
    <2> QED
      BY <2>2, <2>3, <2>4
  <1>6. /\ ones = {} => reg' = [reg EXCEPT !.x = @ + all] /\ br' = Consume(br, all)
        /\ ones # {} =>
              /\ reg' = [reg EXCEPT !.pc = "tailLsbs", !.x = 0, !.bits = <<>>,
                                    !.msbs = reg.x + n - 1]
              /\ br' = Consume(br, n)
    BY DEF TailUnary
  <1>7. ones \in SUBSET Nat
    BY <1>4
  <1>8. \A m \in 1..all : m \in ones <=> StreamBit(Position + (m - 1)) = 1
    <2> SUFFICES ASSUME NEW m \in 1..all
                 PROVE  m \in ones <=> StreamBit(Position + (m - 1)) = 1
      OBVIOUS
    <2>1. m - 1 \in 0..(all - 1) /\ (m - 1) + 1 = m
      BY <1>4
    <2>2. NextBits(br, (m - 1) + 1)[(m - 1) + 1] = StreamBit(Position + (m - 1))
      BY <1>5, <2>1
    <2>3. NextBits(br, m)[m] = StreamBit(Position + (m - 1))
      BY <2>1, <2>2
    <2> QED
      BY <2>3
  <1>9. ones # {} => n \in ones /\ \A k \in ones : n <= k
    BY <1>7, LeastMember
  <1>10. ones \subseteq 1..all
    OBVIOUS
  <1> HIDE DEF ones, n
  <1>11. ASSUME NEW m \in Nat, m <= all, \A k \in 1..m : k \notin ones
         PROVE  ZerosFrom(Position, m)
    <2>1. ASSUME NEW i \in 0..(m - 1) PROVE StreamBit(Position + i) = 0
      <3>1. i \in 0..(all - 1) /\ i + 1 \in 1..all /\ i + 1 \in 1..m /\ (i + 1) - 1 = i
        BY <1>4, <1>11
      <3>2. ~(StreamBit(Position + ((i + 1) - 1)) = 1)
        BY <1>8, <1>11, <3>1
      <3> QED
        BY <1>5, <3>1, <3>2
    <2> QED
      BY <2>1 DEF ZerosFrom
  <1>12. ASSUME NEW m \in Nat, m <= all, br' = Consume(br, m)
         PROVE  SourceTypes' /\ BufferInv' /\ Position' = Position + m
    <2>1. Moves(m)
      BY <1>2, <1>12, SourceConsuming
    <2> QED
      BY <1>1, <1>2, <2>1, MovedSource
  <1> HIDE DEF all
  <1>13. CASE ones = {}
    <2> DEFINE x == reg.x + all
    <2>1. reg' = [reg EXCEPT !.x = x] /\ x \in Nat
      BY <1>4, <1>6, <1>13
    <2>2. SourceTypes' /\ BufferInv' /\ Position' = Position + all
      <3>1. all <= all
        BY <1>4
      <3> QED
        BY <1>4, <1>6, <1>12, <1>13, <3>1
    <2>3. ZerosFrom(Position, all)
      <3>1. all <= all
        BY <1>4
      <3> QED
        BY <1>4, <1>11, <1>13, <3>1
    <2>4. ZerosFrom(Here, x) /\ Position' = Here + x
      BY <1>2, <1>3, <1>4, <2>2, <2>3, ZerosJoin
    <2> HIDE DEF x
    <2>5. reg' \in RiceRegs /\ reg'.pc = "tailMsbs" /\ reg'.x = x
      BY <1>1, <1>4, <2>1 DEF RiceRegs
    <2>6. TailPlace(reg', Here', Position')
      BY <1>2, <2>4, <2>5 DEF TailPlace
    <2> QED
      BY <1>1, <1>2, <2>2, <2>5, <2>6, AtTheTail
  <1>14. CASE ones # {}
    <2> DEFINE m == reg.x + n - 1
    <2>1. n \in 1..all /\ n \in ones /\ \A k \in ones : n <= k
      BY <1>9, <1>10, <1>14
    <2>2. n \in Nat /\ n - 1 \in Nat /\ n <= all /\ n - 1 <= all /\ m \in Nat
      BY <1>4, <2>1
    <2>3. SourceTypes' /\ BufferInv' /\ Position' = Position + n
      BY <1>6, <1>12, <1>14, <2>2
    <2>4. ZerosFrom(Position, n - 1)
      <3>1. \A k \in 1..(n - 1) : k \notin ones
        BY <2>1, <2>2
      <3> QED
        BY <1>11, <2>2, <3>1
    <2>5. UnaryAt(Here, m)
      <3>1. ZerosFrom(Here, reg.x + (n - 1))
        BY <1>2, <1>3, <1>4, <2>2, <2>4, ZerosJoin
      <3>2. reg.x + (n - 1) = m /\ Here + m = Position + (n - 1)
        BY <1>2, <1>3, <1>4, <2>2
      <3>3. StreamBit(Position + (n - 1)) = 1
        BY <1>8, <2>1
      <3> QED
        BY <3>1, <3>2, <3>3 DEF UnaryAt
    <2>6. Position' = Here + m + 1 + 0
      BY <1>2, <1>3, <1>4, <2>2, <2>3, SMTT(30)
    <2>7. reg' = [reg EXCEPT !.pc = "tailLsbs", !.x = 0, !.bits = <<>>, !.msbs = m]
      BY <1>6, <1>14
    <2> HIDE DEF m
    <2>8. <<>> \in Seq(Binary) /\ 0 \in Nat /\ Len(<<>>) = 0
      OBVIOUS
    <2>9. /\ reg' \in RiceRegs /\ reg'.pc = "tailLsbs" /\ reg'.msbs = m
          /\ reg'.bits = <<>>
      BY <1>4, <2>2, <2>7, <2>8 DEF RiceRegs
    <2>10. 0 <= parameter /\ \A i \in 1..0 : FALSE
      BY Known, RiceSizes
    <2>11. TailPlace(reg', Here', Position')
      BY <1>2, <2>5, <2>6, <2>8, <2>9, <2>10 DEF TailPlace
    <2> QED
      BY <1>1, <1>2, <2>3, <2>9, <2>11, AtTheTail
  <1> QED
    BY <1>13, <1>14

LEMMA TailBitsKeeps ==
    ASSUME RiceInv, TailBits
    PROVE  RiceInv'
  <1> DEFINE n == parameter - Len(reg.bits)
             next == NextBits(br, n)
             bits == reg.bits \o next
  <1>1. /\ reg.pc = "tailLsbs" /\ Unconsumed(br) >= n /\ Emit(reg.msbs, bits)
        /\ br' = Consume(br, n) /\ reg' = [reg EXCEPT !.pc = "reload"]
        /\ UNCHANGED <<stream, fed, args, start>>
    BY DEF TailBits
  <1>2. /\ Position = Here + reg.msbs + 1 + Len(reg.bits) /\ UnaryAt(Here, reg.msbs)
        /\ Len(reg.bits) <= parameter
        /\ \A i \in 1..Len(reg.bits) : reg.bits[i] = StreamBit(Here + reg.msbs + i)
    BY <1>1 DEF RiceInv, PlaceInv, TailPlace
  <1>3. /\ reg \in RiceRegs /\ reg.bits \in Seq(Binary) /\ Len(reg.bits) \in Nat
        /\ reg.msbs \in Nat /\ parameter \in Nat /\ Here \in Nat
        /\ SourceTypes /\ BufferInv /\ Unconsumed(br) \in Int
    BY Known, RiceSizes, SourcePosition
  <1>4. n \in Nat /\ n <= Unconsumed(br)
    BY <1>1, <1>2, <1>3
  <1> HIDE DEF n
  <1>5. /\ next \in Seq(Binary) /\ Len(next) = n
        /\ \A k \in 1..n : next[k] = StreamBit(Position + k - 1)
    BY <1>3, <1>4, SourceBits DEF Binary
  <1> HIDE DEF next
  <1>6. /\ bits \in Seq(Binary) /\ Len(bits) = Len(reg.bits) + Len(next)
        /\ \A i \in 1..(Len(reg.bits) + Len(next)) :
              bits[i] = IF i <= Len(reg.bits) THEN reg.bits[i]
                        ELSE next[i - Len(reg.bits)]
    BY <1>3, <1>5, ConcatProperties
  <1>7. Len(bits) = parameter
    BY <1>3, <1>5, <1>6 DEF n
  <1> HIDE DEF bits
  <1>8. ASSUME NEW i \in 1..parameter PROVE bits[i] = StreamBit(Here + reg.msbs + i)
    <2>1. i \in 1..(Len(reg.bits) + Len(next))
      BY <1>6, <1>7
    <2>2. CASE i <= Len(reg.bits)
      <3>1. i \in 1..Len(reg.bits)
        BY <1>3, <2>2
      <3> QED
        BY <1>2, <1>6, <2>1, <2>2, <3>1
    <2>3. CASE ~(i <= Len(reg.bits))
      <3> DEFINE k == i - Len(reg.bits)
      <3>1. k \in 1..n
        BY <1>3, <1>5, <2>1, <2>3
      <3>4. Position + k - 1 = Here + reg.msbs + i
        <4>1. Position = Here + reg.msbs + 1 + Len(reg.bits)
          BY <1>2
        <4> QED
          BY <1>3, <4>1, SMTT(30)
      <3>2. bits[i] = next[k]
        BY <1>6, <2>1, <2>3
      <3> HIDE DEF k
      <3> QED
        BY <1>5, <3>1, <3>2, <3>4
    <2> QED
      BY <2>2, <2>3
  <1>9. /\ ValuesInv' /\ vals' \in Seq(Values)
        /\ Here' = Here + reg.msbs + 1 + parameter
    BY <1>1, <1>2, <1>3, <1>6, <1>7, <1>8, ValueRead
  <1>10. SourceTypes' /\ BufferInv' /\ Position' = Position + n
    <2>1. Moves(n)
      BY <1>1, <1>3, <1>4, SourceConsuming
    <2> QED
      BY <1>1, <1>3, <1>4, <2>1, MovedSource
  <1>11. Position' = Here'
    <2>1. /\ Position' = Position + (parameter - Len(reg.bits))
          /\ Position = Here + reg.msbs + 1 + Len(reg.bits)
          /\ Here' = Here + reg.msbs + 1 + parameter
      BY <1>2, <1>9, <1>10 DEF n
    <2>2. /\ Here \in Nat /\ reg.msbs \in Nat /\ parameter \in Nat
          /\ Len(reg.bits) \in Nat
      BY <1>3
    <2>3. Position' = Here + reg.msbs + 1 + Len(reg.bits) + (parameter - Len(reg.bits))
      BY <2>1
    <2>4. Position' = Here + reg.msbs + 1 + parameter
      BY <2>2, <2>3
    <2> QED
      BY <2>1, <2>4
  <1>12. reg' \in RiceRegs /\ reg'.pc = "reload"
    BY <1>1, <1>3, RegKeepsFields
  <1>13. TailPlace(reg', Here', Position')
    BY <1>11, <1>12 DEF TailPlace
  <1> QED
    BY <1>1, <1>9, <1>10, <1>12, <1>13, AtTheTail

LEMMA TailRefillKeeps ==
    ASSUME RiceInv, TailRefill
    PROVE  RiceInv'
  <1>1. reg.pc \in {"tailMsbs", "tailLsbs"}
    BY DEF TailRefill
  <1>2. ASSUME NEW n \in 1..(Capacity * BytesPerWord), Deliver(n) PROVE RiceInv'
    <2>1. /\ SourceTypes' /\ BufferInv' /\ Position' = Position
          /\ UNCHANGED <<stream, reg, args, vals, start>>
      BY <1>2, DeliveringKeepsPlace
    <2>2. ValuesInv' /\ Here' = Here /\ vals' \in Seq(Values) /\ reg' = reg
      BY <2>1, Known, ValuesStay DEF SameValues
    <2>3. TailPlace(reg', Here', Position')
      BY <2>1, <2>2 DEF RiceInv, PlaceInv
    <2>4. reg' \in RiceRegs
      BY <2>2, Known
    <2> QED
      BY <1>1, <2>1, <2>2, <2>3, <2>4, AtTheTail
  <1>3. ASSUME reg' = [reg EXCEPT !.pc = "failed"],
               UNCHANGED <<stream, fed, br, args, vals, start>>
        PROVE  RiceInv'
    <2>1. reg' \in RiceRegs /\ reg'.pc = "failed"
      BY <1>3, Known, RegKeepsFields
    <2>2. ValuesInv' /\ vals' \in Seq(Values)
      BY <1>3, Known, ValuesStay DEF SameValues
    <2>3. RegPlace(reg', Here') /\ TailPlace(reg', Here', Position)
      BY <2>1 DEF RegPlace, TailPlace
    <2> QED
      BY <1>3, <2>1, <2>2, <2>3, InRegisters
  <1> QED
    BY <1>2, <1>3 DEF TailRefill

\* The registers go back to the reader behind the last value.
LEMMA FinishKeeps ==
    ASSUME RiceInv, Finish
    PROVE  RiceInv'
  <1> DEFINE r == NextHead(reg)
             w == r.cwords
             p == BitsPerWord - r.ucbits
             b == [br EXCEPT !.consumed_words = w, !.consumed_bits = p]
  <1>1. /\ reg.pc \in {"msbs", "finish"} /\ UNCHANGED <<stream, fed, args, vals, start>>
        /\ reg' = [r EXCEPT !.pc = "done"] /\ br' = b
    BY DEF Finish
  <1>2. /\ ValuesInv' /\ Here' = Here /\ vals' \in Seq(Values) /\ Here \in Nat
        /\ SourceTypes /\ BufferInv
    BY <1>1, Known, ValuesStay DEF SameValues
  <1>3. /\ BitsPerWord \in Nat \ {0} /\ reg \in RiceRegs /\ reg.cwords \in Nat
        /\ reg.ucbits \in 0..BitsPerWord /\ br \in Readers(Byte) /\ Sane(br)
        /\ br.words \in Nat /\ br.consumed_words \in Nat /\ br.consumed_bits \in Nat
        /\ br.consumed_bits < BitsPerWord
    <2>1. br \in Readers(Byte) /\ Sane(br)
      BY <1>2 DEF SourceTypes, BufferInv
    <2> QED
      BY <2>1, Known, RiceSizes DEF Readers, Sane
  <1>4. /\ r \in RiceRegs
        /\ IF reg.ucbits = 0 /\ reg.cwords < br.words
           THEN w = reg.cwords + 1 /\ r.ucbits = BitsPerWord
           ELSE w = reg.cwords /\ r.ucbits = reg.ucbits
    <2>1. CASE reg.ucbits = 0 /\ reg.cwords < br.words
      <3>1. r = [reg EXCEPT !.cwords = @ + 1, !.ucbits = BitsPerWord]
        BY <2>1 DEF NextHead
      <3>2. reg.cwords + 1 \in Nat /\ BitsPerWord \in 0..BitsPerWord
        BY <1>3
      <3> HIDE DEF r
      <3> QED
        BY <1>3, <2>1, <3>1, <3>2 DEF RiceRegs
    <2>2. CASE ~(reg.ucbits = 0 /\ reg.cwords < br.words)
      BY <1>3, <2>2 DEF NextHead
    <2> QED
      BY <2>1, <2>2
  <1> HIDE DEF r
  <1>5. \* the new place, as the reader measures it
        /\ w \in Nat /\ p \in Nat /\ p < BitsPerWord
        /\ w * BitsPerWord \in Nat /\ w * BitsPerWord + p <= Available(br) * BitsPerByte
        /\ Base + (w * BitsPerWord + p) = Here
    <2>1. /\ Base \in Nat /\ Available(br) * BitsPerByte \in Nat
          /\ Position = Base + Consumed(br) /\ Consumed(br) \in Nat
      BY <1>2, SourceBase
    <2>2. CASE reg.pc = "msbs"
      <3>1. reg.cwords < br.words /\ WordEnd(reg.cwords) = Here + reg.ucbits
        BY <2>2 DEF RiceInv, PlaceInv, RegPlace, Holds
      <3>2. /\ reg.cwords * BitsPerWord \in Nat
            /\ (reg.cwords + 1) * BitsPerWord = reg.cwords * BitsPerWord + BitsPerWord
            /\ (reg.cwords + 1) * BitsPerWord <= Available(br) * BitsPerByte
        BY <1>2, <1>3, <3>1, WordOfStream
      <3>3. Base + reg.cwords * BitsPerWord + BitsPerWord = Here + reg.ucbits
        BY <3>1 DEF WordEnd
      <3>4. CASE reg.ucbits = 0
        <4>1. w = reg.cwords + 1 /\ p = 0
          BY <1>3, <1>4, <3>1, <3>4
        <4>2. w * BitsPerWord = reg.cwords * BitsPerWord + BitsPerWord
          BY <3>2, <4>1
        <4> HIDE DEF w, p
        <4>3. w * BitsPerWord <= Available(br) * BitsPerByte
          BY <3>2, <4>2
        <4>4. w \in Nat /\ w * BitsPerWord \in Nat
          BY <1>3, <3>2, <4>1, <4>2
        <4>5. w * BitsPerWord + p = w * BitsPerWord
          BY <4>1, <4>4
        <4>6. Base + w * BitsPerWord = Here
          BY <1>2, <1>3, <2>1, <3>2, <3>3, <3>4, <4>2
        <4>7. p \in Nat /\ p < BitsPerWord
          BY <1>3, <4>1
        <4> QED
          BY <4>3, <4>4, <4>5, <4>6, <4>7
      <3>5. CASE reg.ucbits # 0
        <4>1. w = reg.cwords /\ p = BitsPerWord - reg.ucbits
          BY <1>4, <3>5
        <4> HIDE DEF w, p
        <4>2. p \in Nat /\ p < BitsPerWord /\ w \in Nat
          BY <1>3, <3>5, <4>1
        <4>3. w * BitsPerWord = reg.cwords * BitsPerWord
          BY <4>1
        <4> DEFINE at == reg.cwords * BitsPerWord
        <4>4. at \in Nat /\ w * BitsPerWord = at
          BY <3>2, <4>3
        <4>5. Base + at + BitsPerWord = Here + reg.ucbits
          BY <3>3
        <4>6. at + BitsPerWord <= Available(br) * BitsPerByte
          BY <3>2
        <4> HIDE DEF at
        <4>7. Base + (at + p) = Here
          <5>1. BitsPerWord \in Nat /\ reg.ucbits \in Nat /\ Base \in Nat /\ Here \in Nat
            BY <1>2, <1>3, <2>1
          <5>2. at \in Nat /\ p = BitsPerWord - reg.ucbits
            BY <4>1, <4>4
          <5>3. \A base, here, left, word, j \in Nat :
                   base + j + word = here + left => base + (j + (word - left)) = here
            OBVIOUS
          <5>4. Base + (at + (BitsPerWord - reg.ucbits)) = Here
            <6>1. PICK base \in Nat, here \in Nat, left \in Nat, word \in Nat, j \in Nat :
                     /\ base = Base /\ here = Here /\ left = reg.ucbits
                     /\ word = BitsPerWord /\ j = at
              BY <5>1, <5>2
            <6>2. base + j + word = here + left
              BY <4>5, <6>1
            <6>3. base + (j + (word - left)) = here
              BY <6>2
            <6> QED
              BY <6>1, <6>3
          <5> QED
            BY <5>2, <5>4
        <4>8. at + p <= Available(br) * BitsPerByte
          <5>1. PICK room \in Nat : room = Available(br) * BitsPerByte
            BY <2>1
          <5>2. p <= BitsPerWord /\ BitsPerWord \in Nat
            BY <1>3, <4>2
          <5> QED
            BY <4>2, <4>4, <4>6, <5>1, <5>2
        <4> QED
          BY <4>2, <4>4, <4>7, <4>8
      <3> QED
        BY <3>4, <3>5
    <2>3. CASE reg.pc = "finish"
      <3>1. /\ Position = Here /\ reg.cwords = br.consumed_words
            /\ reg.ucbits = BitsPerWord - br.consumed_bits
        BY <2>3 DEF RiceInv, PlaceInv, TailPlace
      <3>2. reg.ucbits # 0
        BY <1>3, <3>1
      <3>3. w = br.consumed_words /\ p = br.consumed_bits
        BY <1>3, <1>4, <3>1, <3>2
      <3>4. Consumed(br) = w * BitsPerWord + p
        BY <3>3 DEF Consumed
      <3>5. Consumed(br) <= Available(br) * BitsPerByte
        BY <1>3 DEF Sane
      <3> HIDE DEF w, p
      <3>6. w * BitsPerWord \in Nat
        BY <1>3, <3>3
      <3> QED
        BY <1>3, <2>1, <3>1, <3>3, <3>4, <3>5, <3>6
    <2> QED
      BY <1>1, <2>2, <2>3
  <1> HIDE DEF w, p
  <1>6. /\ b \in Readers(Byte) /\ b.buffer = br.buffer /\ b.words = br.words
        /\ b.bytes = br.bytes /\ b.consumed_words = w /\ b.consumed_bits = p
    BY <1>3, <1>5 DEF Readers
  <1> HIDE DEF b
  <1>7. Available(b) = Available(br) /\ Consumed(b) = w * BitsPerWord + p
    BY <1>6 DEF Available, Consumed
  <1>8. Sane(b)
    BY <1>3, <1>5, <1>6, <1>7 DEF Sane
  <1>9. SourceTypes' /\ BufferInv'
    BY <1>1, <1>2, <1>6, <1>7, <1>8 DEF SourceTypes, BufferInv
  <1>10. Position' = Here'
    <2>1. Position' = fed * BitsPerByte - Unconsumed(b)
      BY <1>1 DEF Position
    <2>2. Unconsumed(b) = Available(br) * BitsPerByte - (w * BitsPerWord + p)
      BY <1>6, <1>7, Places
    <2>3. /\ Base \in Nat /\ Available(br) * BitsPerByte \in Nat
          /\ Base + Available(br) * BitsPerByte = fed * BitsPerByte
      BY <1>2, SourceBase
    <2> QED
      BY <1>2, <1>5, <2>1, <2>2, <2>3
  <1>11. reg' \in RiceRegs /\ reg'.pc = "done"
    BY <1>1, <1>4, RegKeepsFields
  <1>12. TailPlace(reg', Here', Position')
    BY <1>10, <1>11 DEF TailPlace
  <1> QED
    BY <1>1, <1>2, <1>9, <1>11, <1>12, AtTheTail

LEMMA RiceStarts ==
    ASSUME RiceInit
    PROVE  RiceInv
  <1>1. /\ stream \in Streams /\ fed = 0 /\ br = NewReader /\ vals = <<>> /\ start = 0
        /\ parameter \in Parameters
        /\ reg = [pc |-> "before", cwords |-> 0, ucbits |-> 0, b |-> NoBits,
                  x |-> 0, msbs |-> 0, bits |-> <<>>]
    BY DEF RiceInit
  <1>2. SourceTypes /\ BufferInv
    BY <1>1, NewSource
  <1>3. reg \in RiceRegs /\ reg.pc = "before"
    <2>1. NoBits \in BitWords /\ 0 \in 0..BitsPerWord /\ <<>> \in Seq(Binary)
      BY Sizes DEF NoBits, BitWords, Bit
    <2> QED
      BY <1>1, <2>1 DEF RiceRegs
  <1>4. RiceTypes
    BY <1>1, <1>2, <1>3 DEF RiceTypes
  <1>5. ValuesInv
    <2>1. parameter \in Nat
      BY <1>4, RiceSizes
    <2>2. /\ \E f : AreStarts(f, start, vals, parameter)
          /\ \A f : AreStarts(f, start, vals, parameter) => f[1] = start
      BY <1>1, <2>1, StartsOfNothing
    <2>3. AreStarts(Starts, start, vals, parameter)
      BY <2>2, StartsAreChosen DEF ChosenStarts
    <2>4. Len(vals) = 0 /\ Len(vals) + 1 = 1
      BY <1>1
    <2>5. Here = 0
      BY <1>1, <2>2, <2>3, <2>4 DEF Here
    <2>6. \A k \in 1..Len(vals) : FALSE
      BY <2>4
    <2> QED
      BY <2>3, <2>5, <2>6 DEF ValuesInv
  <1>6. PlaceInv
    BY <1>1, <1>3 DEF PlaceInv, RegPlace, TailPlace
  <1> QED
    BY <1>2, <1>4, <1>5, <1>6 DEF RiceInv

LEMMA NothingKeeps ==
    ASSUME RiceInv, UNCHANGED riceVars
    PROVE  RiceInv'
  <1>1. /\ UNCHANGED <<stream, fed, br, args, vals, start>> /\ reg' = reg
        /\ vals' = vals /\ start' = start /\ stream' = stream /\ fed' = fed /\ br' = br
        /\ parameter' = parameter
    BY DEF riceVars, args
  <1>2. ValuesInv' /\ Here' = Here
    BY <1>1, Known, ValuesStay DEF SameValues
  <1>3. SourceTypes' /\ BufferInv' /\ Position' = Position /\ Base' = Base
    BY <1>1 DEF RiceInv, RiceTypes, SourceTypes, BufferInv, Position, Base
  <1>4. RiceTypes'
    BY <1>1, <1>3 DEF RiceInv, RiceTypes
  <1>5. RegPlace(reg, Here)' /\ TailPlace(reg, Here, Position)'
    BY <1>1, <1>2, <1>3 DEF RiceInv, PlaceInv, RegPlace, TailPlace, Holds, WordEnd,
       ZerosFrom, UnaryAt, StreamBit
  <1>6. PlaceInv'
    BY <1>1, <1>3, <1>5 DEF RiceInv, PlaceInv
  <1> QED
    BY <1>2, <1>3, <1>4, <1>6 DEF RiceInv

LEMMA RiceStep ==
    ASSUME RiceInv, [RiceNext]_riceVars
    PROVE  RiceInv'
  <1>1. ASSUME NEW n \in 0..(Capacity * BitsPerWord), Before(n) PROVE RiceInv'
    BY <1>1, BeforeKeeps
  <1>2. CASE Enter
    BY <1>2, EnterKeeps
  <1>3. CASE Msbs
    BY <1>3, MsbsKeeps
  <1>4. CASE NextWord
    BY <1>4, NextWordKeeps
  <1>5. CASE Lsbs
    BY <1>5, LsbsKeeps
  <1>6. CASE TailUnary
    BY <1>6, TailUnaryKeeps
  <1>7. CASE TailBits
    BY <1>7, TailBitsKeeps
  <1>8. CASE TailRefill
    BY <1>8, TailRefillKeeps
  <1>9. CASE Reload
    BY <1>9, ReloadKeeps
  <1>10. CASE Finish
    BY <1>10, FinishKeeps
  <1>11. CASE Returned
    BY <1>11, NothingKeeps DEF Returned
  <1>12. CASE UNCHANGED riceVars
    BY <1>12, NothingKeeps
  <1> QED
    BY <1>1, <1>2, <1>3, <1>4, <1>5, <1>6, <1>7, <1>8, <1>9, <1>10, <1>11, <1>12
       DEF RiceNext, Step

LEMMA RiceInvMeans ==
    RiceInv => ValuesAreTheStream /\ ReaderStandsBehindBlock
  <1> SUFFICES ASSUME RiceInv PROVE ValuesAreTheStream /\ ReaderStandsBehindBlock
    OBVIOUS
  <1>1. ValuesAreTheStream
    BY DEF RiceInv, ValuesInv, ValueAt, UnaryAt, ZerosFrom, ValuesAreTheStream
  <1>2. reg.pc = "done" => Position = Starts[Len(vals) + 1]
    BY DEF RiceInv, PlaceInv, TailPlace, Here
  <1>3. br.consumed_words <= br.words /\ br.consumed_bits < BitsPerWord
    <2>1. br \in Readers(Byte) /\ Sane(br)
      BY Known DEF SourceTypes, BufferInv
    <2> QED
      BY <2>1, SaneWords DEF Sane
  <1> QED
    BY <1>1, <1>2, <1>3 DEF ReaderStandsBehindBlock

LEMMA RiceInvHolds == RiceSpec => []RiceInv
  <1>1. RiceInit => RiceInv
    BY RiceStarts
  <1>2. RiceInv /\ [RiceNext]_riceVars => RiceInv'
    BY RiceStep
  <1> QED
    BY <1>1, <1>2, PTL DEF RiceSpec

\* Whatever the client delivers and wherever words and buffer end, the values of a block
\* are those the stream has from where the block begins, one behind the other.
THEOREM BlockIsAlwaysTheStream == RiceSpec => []ValuesAreTheStream
  BY RiceInvHolds, RiceInvMeans, PTL

\* When the function returns with a block the reader stands right behind its last value,
\* with a head word that has a bit left.
THEOREM ReaderAlwaysBehindBlock == RiceSpec => []ReaderStandsBehindBlock
  BY RiceInvHolds, RiceInvMeans, PTL
===============================================================================
