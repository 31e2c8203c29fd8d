---------------------------- MODULE BitReaderLemmas ----------------------------
(***************************************************************************)
(* What the operators of BitReader do to the buffer and to the place in    *)
(* it, for every size of words and buffer: consuming bits, shifting the    *)
(* consumed words out, taking bytes from the client in memory order, and   *)
(* rewinding to a sync.                                                    *)
(***************************************************************************)
EXTENDS BitReader, TLAPS, SequenceTheorems

-------------------------------------------------------------------------------
(* Division *)

LEMMA Division ==
    ASSUME NEW a \in Nat, NEW d \in Nat \ {0}
    PROVE  a \div d \in Nat /\ a % d \in 0..(d - 1) /\ a = d * (a \div d) + (a % d)
  <1>1. a \div d \in Nat
    OBVIOUS
  <1>2. a % d \in 0..(d - 1)
    OBVIOUS
  <1>3. a = d * (a \div d) + (a % d)
    OBVIOUS
  <1> QED
    BY <1>1, <1>2, <1>3

LEMMA DivisionIsUnique ==
    ASSUME NEW d \in Nat \ {0}, NEW q \in Nat, NEW r \in 0..(d - 1)
    PROVE  (d * q + r) \div d = q /\ (d * q + r) % d = r
  <1>1. (d * q + r) \div d = q
    OBVIOUS
  <1>2. (d * q + r) % d = r
    OBVIOUS
  <1> QED
    BY <1>1, <1>2

LEMMA DivisionIsMonotonic ==
    ASSUME NEW d \in Nat \ {0}, NEW a \in Nat, NEW k \in Nat
    PROVE  a < k * d <=> a \div d < k
  <1>1. /\ a \div d \in Nat /\ a % d \in 0..(d - 1) /\ a = d * (a \div d) + (a % d)
    BY Division
  <1> DEFINE q == a \div d
  <1>2. ASSUME q < k PROVE a < k * d
    <2>1. q + 1 <= k
      BY <1>1, <1>2
    <2>2. (q + 1) * d <= k * d
      BY <1>1, <2>1
    <2>3. (q + 1) * d = d * q + d
      BY <1>1
    <2> QED
      BY <1>1, <2>2, <2>3
  <1>3. ASSUME ~(q < k) PROVE ~(a < k * d)
    <2>1. k * d <= q * d
      BY <1>1, <1>3
    <2> QED
      BY <1>1, <2>1
  <1> QED
    BY <1>2, <1>3

-------------------------------------------------------------------------------
(* Readers *)

BufferBytes == Capacity * BytesPerWord

\* A reader of a buffer of Bytes
Readers(Bytes) ==
    [buffer : [Addr -> Bytes],
     words : Nat, bytes : Nat, consumed_words : Nat, consumed_bits : Nat,
     read_crc16 : Seq(Bytes), crc16_offset : Nat, crc16_align : Nat,
     read_limit_set : BOOLEAN, read_limit : Int, last_seen_framesync : Nat]

\* The odd bytes are no word, the buffer is not over full, and no more is consumed than
\* there is.
Sane(br) ==
    /\ br.bytes < BytesPerWord
    /\ Available(br) <= BufferBytes
    /\ br.consumed_bits < BitsPerWord
    /\ Consumed(br) <= Available(br) * BitsPerByte

LEMMA Sizes ==
    /\ BitsPerWord \in Nat \ {0} /\ BufferBytes \in Nat \ {0}
    /\ BitsPerWord = BytesPerWord * BitsPerByte
    /\ Addr = 0..(BufferBytes - 1)
  <1>1. \A m, n \in Nat \ {0} : m * n \in Nat \ {0}
    OBVIOUS
  <1> QED
    BY <1>1, ReaderAssumption DEF BitsPerWord, BufferBytes, Addr

LEMMA Places ==
    ASSUME NEW Bytes, NEW br \in Readers(Bytes)
    PROVE  /\ Available(br) \in Nat /\ Consumed(br) \in Nat
           /\ Unconsumed(br) = Available(br) * BitsPerByte - Consumed(br)
           /\ Unconsumed(br) \in Int
           /\ SpaceLeft(br) = BufferBytes - Available(br)
  <1>1. /\ br.words \in Nat /\ br.bytes \in Nat
        /\ br.consumed_words \in Nat /\ br.consumed_bits \in Nat
    BY DEF Readers
  <1>2. Available(br) \in Nat /\ Consumed(br) \in Nat
    <2>1. \A m, n \in Nat : m * n \in Nat
      OBVIOUS
    <2>2. br.words * BytesPerWord \in Nat /\ br.consumed_words * BitsPerWord \in Nat
      BY <1>1, <2>1, Sizes, ReaderAssumption
    <2> QED
      BY <1>1, <2>2 DEF Available, Consumed
  <1>3. (br.words - br.consumed_words) * (BytesPerWord * BitsPerByte)
            + br.bytes * BitsPerByte - br.consumed_bits
        = (br.words * BytesPerWord + br.bytes) * BitsPerByte
            - (br.consumed_words * (BytesPerWord * BitsPerByte) + br.consumed_bits)
    BY <1>1, ReaderAssumption
  <1>4. Unconsumed(br) = Available(br) * BitsPerByte - Consumed(br)
    BY <1>3 DEF Unconsumed, Available, Consumed, BitsPerWord
  <1>5. Available(br) * BitsPerByte \in Int
    BY <1>2, ReaderAssumption
  <1>6. SpaceLeft(br) = BufferBytes - Available(br)
    <2>1. (Capacity - br.words) * BytesPerWord - br.bytes
          = Capacity * BytesPerWord - (br.words * BytesPerWord + br.bytes)
      BY <1>1, ReaderAssumption
    <2> QED
      BY <2>1 DEF SpaceLeft, BufferBytes, Available
  <1> QED
    BY <1>2, <1>4, <1>5, <1>6

\* Words of a sane reader
LEMMA SaneWords ==
    ASSUME NEW Bytes, NEW br \in Readers(Bytes), Sane(br)
    PROVE  /\ br.words <= Capacity /\ br.consumed_words <= br.words
           /\ br.words = Capacity => br.bytes = 0
           /\ br.consumed_words * BytesPerWord <= Available(br)
  <1>1. /\ br.words \in Nat /\ br.bytes \in Nat
        /\ br.consumed_words \in Nat /\ br.consumed_bits \in Nat
    BY DEF Readers
  <1>2. br.words * BytesPerWord + br.bytes <= Capacity * BytesPerWord
    BY DEF Sane, Available, BufferBytes
  <1>3. br.words <= Capacity
    <2> SUFFICES ASSUME Capacity + 1 <= br.words PROVE FALSE
      BY <1>1, ReaderAssumption
    <2>1. (Capacity + 1) * BytesPerWord <= br.words * BytesPerWord
      BY <1>1, ReaderAssumption
    <2> QED
      BY <1>1, <1>2, <2>1, ReaderAssumption
  <1>4. br.words = Capacity => br.bytes = 0
    BY <1>1, <1>2, ReaderAssumption
  <1>5. br.consumed_words * BitsPerWord + br.consumed_bits
            <= (br.words * BytesPerWord + br.bytes) * BitsPerByte
    BY DEF Sane, Available, Consumed
  <1>6. (br.words * BytesPerWord + br.bytes) * BitsPerByte
            = br.words * BitsPerWord + br.bytes * BitsPerByte
    BY <1>1, ReaderAssumption DEF BitsPerWord
  <1>7. br.bytes * BitsPerByte < BitsPerWord
    BY <1>1, ReaderAssumption DEF Sane, BitsPerWord
  <1>8. br.consumed_words <= br.words
    <2> SUFFICES ASSUME br.words + 1 <= br.consumed_words PROVE FALSE
      BY <1>1
    <2>1. /\ \A j, k \in Nat : j + 1 <= k => (j + 1) * BitsPerWord <= k * BitsPerWord
          /\ \A j \in Nat : (j + 1) * BitsPerWord = j * BitsPerWord + BitsPerWord
      <3>1. BitsPerWord \in Nat
        BY Sizes
      <3> QED
        BY <3>1
    <2>2. br.words * BitsPerWord + BitsPerWord <= br.consumed_words * BitsPerWord
      BY <1>1, <2>1
    <2> DEFINE there == br.words * BitsPerWord
               taken == br.consumed_words * BitsPerWord
               odd == br.bytes * BitsPerByte
    <2>3. there \in Int /\ taken \in Int /\ odd \in Int /\ BitsPerWord \in Int
      BY <1>1, Sizes, ReaderAssumption
    <2>4. /\ taken + br.consumed_bits <= there + odd /\ odd < BitsPerWord
          /\ there + BitsPerWord <= taken
      BY <1>5, <1>6, <1>7, <2>2
    <2> HIDE DEF there, taken, odd
    <2> QED
      BY <1>1, <2>3, <2>4
  <1>9. br.consumed_words * BytesPerWord <= br.words * BytesPerWord
    BY <1>1, <1>8, ReaderAssumption
  <1> QED
    BY <1>1, <1>3, <1>4, <1>8, <1>9, ReaderAssumption DEF Available

-------------------------------------------------------------------------------
(* Operators that leave the place alone *)

SamePlace(b, br) ==
    /\ b.buffer = br.buffer
    /\ b.words = br.words /\ b.bytes = br.bytes
    /\ b.consumed_words = br.consumed_words /\ b.consumed_bits = br.consumed_bits

SameLimit(b, br) ==
    b.read_limit_set = br.read_limit_set /\ b.read_limit = br.read_limit

\* What is said of the place is said of every reader that stands there.
LEMMA SamePlaceSameMeasures ==
    ASSUME NEW b, NEW br, SamePlace(b, br)
    PROVE  /\ Available(b) = Available(br) /\ Consumed(b) = Consumed(br)
           /\ Unconsumed(b) = Unconsumed(br) /\ SpaceLeft(b) = SpaceLeft(br)
           /\ Sane(b) = Sane(br)
  BY DEF SamePlace, Available, Consumed, Unconsumed, SpaceLeft, Sane

LEMMA BytesAreThere ==
    ASSUME NEW Bytes, NEW br \in Readers(Bytes), NEW from \in Nat, NEW to \in Nat,
           to <= BufferBytes
    PROVE  BytesOf(br, from, to) \in Seq(Bytes)
  <1>1. br.buffer \in [Addr -> Bytes]
    BY DEF Readers
  <1>2. \A i \in 1..(to - from) : br.buffer[from + i - 1] \in Bytes
    <2> SUFFICES ASSUME NEW i \in 1..(to - from) PROVE from + i - 1 \in Addr
      BY <1>1
    <2> QED
      BY Sizes
  <1>3. CASE to >= from
    BY <1>2, <1>3 DEF BytesOf
  <1>4. CASE to < from
    <2>1. 1..(to - from) = 1..0
      BY <1>4
    <2>2. BytesOf(br, from, to) = [i \in 1..0 |-> br.buffer[from + i - 1]]
      BY <2>1 DEF BytesOf
    <2>3. [i \in 1..0 |-> br.buffer[from + i - 1]] \in [1..0 -> Bytes]
      OBVIOUS
    <2> QED
      BY <2>2, <2>3
  <1> QED
    BY <1>3, <1>4

LEMMA CrcUpdateKeepsPlace ==
    ASSUME NEW Bytes, NEW br \in Readers(Bytes), Sane(br)
    PROVE  LET b == Crc16UpdateBlock(br) IN
           /\ b \in Readers(Bytes) /\ SamePlace(b, br) /\ SameLimit(b, br)
           /\ b.last_seen_framesync = br.last_seen_framesync
  <1> DEFINE from == br.crc16_offset * BytesPerWord + (br.crc16_align \div BitsPerByte)
             to == br.consumed_words * BytesPerWord
             added == br.read_crc16 \o BytesOf(br, from, to)
  <1>1. /\ br.crc16_offset \in Nat /\ br.crc16_align \in Nat
        /\ br.consumed_words \in Nat /\ br.read_crc16 \in Seq(Bytes)
    BY DEF Readers
  <1>2. \A m, n \in Nat : m * n \in Nat
    OBVIOUS
  <1>3. from \in Nat /\ to \in Nat
    <2>1. br.crc16_align \div BitsPerByte \in Nat
      BY <1>1, Division, ReaderAssumption
    <2>2. br.crc16_offset * BytesPerWord \in Nat
      BY <1>1, <1>2, ReaderAssumption
    <2>3. to \in Nat
      BY <1>1, <1>2, ReaderAssumption
    <2> QED
      BY <2>1, <2>2, <2>3
  <1>4. to <= BufferBytes
    BY <1>3, SaneWords, Places, Sizes DEF Sane
  <1>5. BytesOf(br, from, to) \in Seq(Bytes)
    BY <1>3, <1>4, BytesAreThere
  <1>6. added \in Seq(Bytes)
    BY <1>1, <1>5
  <1> HIDE DEF added, from, to
  <1>7. CASE br.consumed_words > br.crc16_offset
    <2>1. Crc16UpdateBlock(br) =
            [br EXCEPT !.read_crc16 = added, !.crc16_offset = 0, !.crc16_align = 0]
      BY <1>7 DEF Crc16UpdateBlock, added, from, to
    <2>2. LET b == [br EXCEPT !.read_crc16 = added, !.crc16_offset = 0, !.crc16_align = 0]
          IN /\ b \in Readers(Bytes) /\ SamePlace(b, br) /\ SameLimit(b, br)
             /\ b.last_seen_framesync = br.last_seen_framesync
      BY <1>6 DEF Readers, SamePlace, SameLimit
    <2> QED
      BY <2>1, <2>2
  <1>8. CASE ~(br.consumed_words > br.crc16_offset)
    <2>1. Crc16UpdateBlock(br) = [br EXCEPT !.crc16_offset = 0]
      BY <1>8 DEF Crc16UpdateBlock
    <2>2. LET b == [br EXCEPT !.crc16_offset = 0]
          IN /\ b \in Readers(Bytes) /\ SamePlace(b, br) /\ SameLimit(b, br)
             /\ b.last_seen_framesync = br.last_seen_framesync
      BY DEF Readers, SamePlace, SameLimit
    <2> QED
      BY <2>1, <2>2
  <1> QED
    BY <1>7, <1>8

LEMMA GetCrcKeepsPlace ==
    ASSUME NEW Bytes, NEW br \in Readers(Bytes), Sane(br)
    PROVE  LET b == GetReadCrc16(br) IN
           /\ b \in Readers(Bytes) /\ SamePlace(b, br) /\ SameLimit(b, br)
           /\ b.last_seen_framesync = br.last_seen_framesync
  <1> DEFINE c == Crc16UpdateBlock(br)
             word == c.consumed_words * BytesPerWord
             from == word + (c.crc16_align \div BitsPerByte)
             to == word + (c.consumed_bits \div BitsPerByte)
             added == c.read_crc16 \o BytesOf(c, from, to)
             align == IF c.crc16_align < c.consumed_bits THEN c.consumed_bits
                      ELSE c.crc16_align
  <1>1. /\ c \in Readers(Bytes) /\ SamePlace(c, br) /\ SameLimit(c, br)
        /\ c.last_seen_framesync = br.last_seen_framesync
    BY CrcUpdateKeepsPlace
  <1>2. Sane(c)
    BY <1>1, SamePlaceSameMeasures
  <1> HIDE DEF c
  <1>3. /\ c.crc16_align \in Nat /\ c.consumed_words \in Nat
        /\ c.consumed_bits \in Nat /\ c.read_crc16 \in Seq(Bytes)
    BY <1>1 DEF Readers
  <1>4. /\ c.crc16_align \div BitsPerByte \in Nat
        /\ c.consumed_bits \div BitsPerByte \in Nat
    BY <1>3, Division, ReaderAssumption
  <1>5. \A m, n \in Nat : m * n \in Nat
    OBVIOUS
  <1>6. word \in Nat /\ from \in Nat /\ to \in Nat
    <2>1. word \in Nat
      BY <1>3, <1>5, ReaderAssumption
    <2> QED
      BY <1>4, <2>1
  <1>7. to <= BufferBytes
    <2>1. c.consumed_words * BitsPerWord = word * BitsPerByte
      BY <1>3, ReaderAssumption DEF BitsPerWord
    <2>2. word * BitsPerByte + c.consumed_bits <= Available(c) * BitsPerByte
      BY <1>2, <2>1 DEF Sane, Consumed
    <2>3. c.consumed_bits >= BitsPerByte * (c.consumed_bits \div BitsPerByte)
      <3>1. /\ c.consumed_bits % BitsPerByte \in 0..(BitsPerByte - 1)
            /\ c.consumed_bits = BitsPerByte * (c.consumed_bits \div BitsPerByte)
                                    + (c.consumed_bits % BitsPerByte)
        BY <1>3, Division, ReaderAssumption
      <3>2. BitsPerByte * (c.consumed_bits \div BitsPerByte) \in Nat
        BY <1>4, <1>5, ReaderAssumption
      <3> QED
        BY <1>3, <3>1, <3>2, ReaderAssumption
    <2>4. to * BitsPerByte <= Available(c) * BitsPerByte
      <3> DEFINE full == c.consumed_bits \div BitsPerByte
      <3>1. full \in Nat
        BY <1>4
      <3>2. Available(c) * BitsPerByte \in Int
        BY <1>1, Places, ReaderAssumption
      <3>3. (word + full) * BitsPerByte = word * BitsPerByte + BitsPerByte * full
        BY <1>6, <3>1, ReaderAssumption
      <3>4. word * BitsPerByte \in Int /\ BitsPerByte * full \in Int
        BY <1>6, <3>1, ReaderAssumption
      <3> QED
        BY <1>3, <2>2, <2>3, <3>2, <3>3, <3>4
    <2>5. \A m, n \in Nat : m * BitsPerByte <= n * BitsPerByte => m <= n
      BY ReaderAssumption
    <2>6. to <= Available(c)
      BY <1>1, <1>6, <2>4, <2>5, Places
    <2> QED
      BY <1>1, <1>2, <1>6, <2>6, Places, Sizes DEF Sane
  <1>8. BytesOf(c, from, to) \in Seq(Bytes)
    BY <1>1, <1>6, <1>7, BytesAreThere
  <1>9. added \in Seq(Bytes) /\ align \in Nat
    BY <1>3, <1>8
  <1> HIDE DEF added, align, from, to, word
  <1>10. GetReadCrc16(br) = [c EXCEPT !.read_crc16 = added, !.crc16_align = align]
    BY DEF GetReadCrc16, c, added, align, from, to, word
  <1>11. LET b == [c EXCEPT !.read_crc16 = added, !.crc16_align = align] IN
           /\ b \in Readers(Bytes) /\ SamePlace(b, c) /\ SameLimit(b, c)
           /\ b.last_seen_framesync = c.last_seen_framesync
    BY <1>1, <1>9 DEF Readers, SamePlace, SameLimit
  <1> QED
    BY <1>1, <1>10, <1>11 DEF SamePlace, SameLimit

-------------------------------------------------------------------------------
(* Consuming bits *)

LEMMA WordDivision ==
    ASSUME NEW p \in Nat
    PROVE  /\ p \div BitsPerWord \in Nat /\ p % BitsPerWord \in 0..(BitsPerWord - 1)
           /\ p = BitsPerWord * (p \div BitsPerWord) + (p % BitsPerWord)
  <1>1. BitsPerWord \in Nat \ {0}
    BY Sizes
  <1> QED
    BY <1>1, Division

\* A word and an odd place in it, with n more: the carry into the words is right.
LEMMA Carry ==
    ASSUME NEW word \in Nat, NEW p \in Nat
    PROVE  (word + (p \div BitsPerWord)) * BitsPerWord + (p % BitsPerWord)
               = word * BitsPerWord + p
  <1> DEFINE q == p \div BitsPerWord
             r == p % BitsPerWord
  <1>1. q \in Nat /\ r \in Int /\ p = BitsPerWord * q + r
    BY WordDivision
  <1> HIDE DEF q, r
  <1>2. (word + q) * BitsPerWord = word * BitsPerWord + BitsPerWord * q
    BY <1>1, Sizes
  <1>3. word * BitsPerWord \in Int /\ BitsPerWord * q \in Int
    BY <1>1, Sizes
  <1>4. (word + q) * BitsPerWord + r = word * BitsPerWord + p
    BY <1>1, <1>2, <1>3
  <1> QED
    BY <1>4 DEF q, r

LEMMA Consuming ==
    ASSUME NEW Bytes, NEW br \in Readers(Bytes), Sane(br),
           NEW n \in Nat, n <= Unconsumed(br)
    PROVE  LET b == Consume(br, n) IN
           /\ b \in Readers(Bytes) /\ Sane(b) /\ SameLimit(b, br)
           /\ b.buffer = br.buffer /\ b.words = br.words /\ b.bytes = br.bytes
           /\ b.last_seen_framesync = br.last_seen_framesync
           /\ Available(b) = Available(br) /\ Consumed(b) = Consumed(br) + n
           /\ Unconsumed(b) = Unconsumed(br) - n
  <1> DEFINE p == br.consumed_bits + n
             q == p \div BitsPerWord
             r == p % BitsPerWord
             w == br.consumed_words + q
             b == [br EXCEPT !.consumed_words = w, !.consumed_bits = r]
  <1>1. br.consumed_words \in Nat /\ br.consumed_bits \in Nat
    BY DEF Readers
  <1>2. p \in Nat /\ q \in Nat /\ r \in 0..(BitsPerWord - 1)
    <2>1. p \in Nat
      BY <1>1
    <2> QED
      BY <2>1, WordDivision
  <1> HIDE DEF r, q
  <1>3. w \in Nat /\ r \in Nat /\ r < BitsPerWord
    BY <1>1, <1>2, Sizes
  <1>4. w * BitsPerWord + r = br.consumed_words * BitsPerWord + p
    BY <1>1, <1>2, Carry DEF q, r
  <1>5. Consume(br, n) = b
    BY DEF Consume, q, r
  <1> HIDE DEF w
  <1>6. /\ b \in Readers(Bytes) /\ SameLimit(b, br)
        /\ b.buffer = br.buffer /\ b.words = br.words /\ b.bytes = br.bytes
        /\ b.consumed_words = w /\ b.consumed_bits = r
        /\ b.last_seen_framesync = br.last_seen_framesync
    BY <1>3 DEF Readers, SameLimit
  <1> HIDE DEF b
  <1>7. Available(b) = Available(br)
    BY <1>6 DEF Available
  <1>8. Consumed(b) = Consumed(br) + n
    <2>1. br.consumed_words * BitsPerWord \in Int
      BY <1>1, Sizes
    <2> QED
      BY <1>1, <1>4, <1>6, <2>1 DEF Consumed
  <1>9. Unconsumed(b) = Unconsumed(br) - n
    <2>1. Available(br) * BitsPerByte \in Int
      BY Places, ReaderAssumption
    <2>2. /\ Unconsumed(b) = Available(br) * BitsPerByte - (Consumed(br) + n)
          /\ Unconsumed(br) = Available(br) * BitsPerByte - Consumed(br)
      BY <1>6, <1>7, <1>8, Places
    <2> QED
      BY <2>1, <2>2, Places
  <1>10. Sane(b)
    <2>1. Available(br) * BitsPerByte \in Int
      BY Places, ReaderAssumption
    <2>2. Consumed(br) + n <= Available(br) * BitsPerByte
      BY <2>1, Places
    <2> QED
      BY <1>3, <1>6, <1>7, <1>8, <2>2 DEF Sane
  <1> QED
    BY <1>5, <1>6, <1>7, <1>8, <1>9, <1>10

-------------------------------------------------------------------------------
(* Shifting the consumed words out *)

LEMMA Shifting ==
    ASSUME NEW Bytes, NEW br \in Readers(Bytes), Sane(br)
    PROVE  LET b == BeforeRead(br)
               gone == br.consumed_words * BytesPerWord
           IN
           /\ b \in Readers(Bytes) /\ Sane(b) /\ SameLimit(b, br)
           /\ gone \in Nat /\ gone <= Available(br)
           /\ Available(b) = Available(br) - gone
           /\ Consumed(b) = Consumed(br) - gone * BitsPerByte
           /\ Unconsumed(b) = Unconsumed(br)
           /\ b.consumed_words = 0 /\ b.consumed_bits = br.consumed_bits
           /\ b.bytes = br.bytes /\ b.words = br.words - br.consumed_words
           /\ \A a \in 0..(Available(b) - 1) : b.buffer[a] = br.buffer[a + gone]
           /\ b.last_seen_framesync = None
  <1> DEFINE c == Crc16UpdateBlock(br)
             start == br.consumed_words
             end == br.words + (IF br.bytes > 0 THEN 1 ELSE 0)
             gone == start * BytesPerWord
             moved == (end - start) * BytesPerWord
             left == br.words - start
             shifted == [a \in Addr |-> IF a < moved THEN br.buffer[a + gone]
                                        ELSE br.buffer[a]]
             b == BeforeRead(br)
  <1>1. /\ br.buffer \in [Addr -> Bytes] /\ start \in Nat
        /\ br.words \in Nat /\ br.bytes \in Nat /\ br.consumed_bits \in Nat
    BY DEF Readers
  <1>2. /\ c \in Readers(Bytes) /\ SamePlace(c, br) /\ SameLimit(c, br)
    BY CrcUpdateKeepsPlace
  <1>3. /\ br.words <= Capacity /\ start <= br.words
        /\ br.words = Capacity => br.bytes = 0
        /\ gone <= Available(br)
    BY SaneWords
  <1>4. gone \in Nat /\ left \in Nat /\ None \in Nat
    <2>1. \A m, n \in Nat : m * n \in Nat
      OBVIOUS
    <2>2. gone \in Nat
      BY <1>1, <2>1, ReaderAssumption
    <2> QED
      BY <1>1, <1>3, <2>2, ReaderAssumption DEF None
  <1>5. shifted \in [Addr -> Bytes]
    <2> SUFFICES ASSUME NEW a \in Addr, a < moved PROVE a + gone \in Addr
      BY <1>1
    <2>1. end <= Capacity /\ end \in Nat
      <3>1. CASE br.bytes > 0
        <4>1. end = br.words + 1
          BY <3>1
        <4>2. br.words # Capacity
          BY <1>1, <1>3, <3>1
        <4> QED
          BY <1>1, <1>3, <4>1, <4>2, ReaderAssumption
      <3>2. CASE ~(br.bytes > 0)
        <4>1. end = br.words
          BY <1>1, <3>2
        <4> QED
          BY <1>1, <1>3, <4>1
      <3> QED
        BY <3>1, <3>2
    <2>2. end * BytesPerWord <= BufferBytes
      BY <2>1, ReaderAssumption DEF BufferBytes
    <2>3. moved = end * BytesPerWord - gone
      BY <1>1, <2>1, ReaderAssumption
    <2>4. end * BytesPerWord \in Int
      BY <2>1, ReaderAssumption
    <2> HIDE DEF end, moved, gone
    <2> QED
      BY <1>4, <2>2, <2>3, <2>4, Sizes
  <1>6. \A a \in 0..(Available(br) - gone - 1) :
            /\ a \in Addr
            /\ shifted[a] = br.buffer[a + gone]
    <2> SUFFICES ASSUME NEW a \in 0..(Available(br) - gone - 1)
                 PROVE  a \in Addr /\ a < moved
      OBVIOUS
    <2>1. a \in Addr
      BY <1>4, Places, Sizes DEF Sane
    <2>2. moved >= Available(br) - gone
      <3>1. CASE br.bytes = 0
        <4>1. moved = br.words * BytesPerWord - gone
          BY <1>1, <3>1, ReaderAssumption
        <4> QED
          BY <1>1, <3>1, <4>1, ReaderAssumption DEF Available
      <3>2. CASE br.bytes > 0
        <4>1. moved = br.words * BytesPerWord + BytesPerWord - gone
          <5>1. end = br.words + 1
            BY <3>2
          <5>2. \A j, k \in Nat : ((j + 1) - k) * BytesPerWord
                     = j * BytesPerWord + BytesPerWord - k * BytesPerWord
            <6>1. BytesPerWord \in Nat
              BY ReaderAssumption
            <6> QED
              BY <6>1
          <5>3. moved = ((br.words + 1) - br.consumed_words) * BytesPerWord
            BY <5>1
          <5> QED
            BY <1>1, <5>2, <5>3
        <4>2. br.words * BytesPerWord \in Int
          BY <1>1, ReaderAssumption
        <4> HIDE DEF gone, moved
        <4> QED
          BY <1>1, <1>4, <4>1, <4>2, ReaderAssumption DEF Available, Sane
      <3> QED
        BY <1>1, <3>1, <3>2
    <2>3. moved \in Int
      BY <1>1, ReaderAssumption
    <2> HIDE DEF moved, gone
    <2> QED
      BY <1>4, <2>1, <2>2, <2>3, Places
  <1> HIDE DEF c, shifted, moved, end
  <1>7. /\ b \in Readers(Bytes) /\ SameLimit(b, br)
        /\ b.words = left /\ b.bytes = br.bytes
        /\ b.consumed_words = 0 /\ b.consumed_bits = br.consumed_bits
        /\ b.buffer = IF start = 0 THEN br.buffer ELSE shifted
        /\ b.last_seen_framesync = None
    <2>1. CASE start = 0
      <3>1. ShiftToFront(br) = br
        BY <2>1 DEF ShiftToFront
      <3>2. b = [br EXCEPT !.last_seen_framesync = None]
        BY <3>1 DEF BeforeRead
      <3>3. LET d == [br EXCEPT !.last_seen_framesync = None]
            IN /\ d \in Readers(Bytes) /\ SameLimit(d, br) /\ SamePlace(d, br)
               /\ d.last_seen_framesync = None
        BY <1>4 DEF Readers, SameLimit, SamePlace
      <3>4. /\ b \in Readers(Bytes) /\ SameLimit(b, br) /\ SamePlace(b, br)
            /\ b.last_seen_framesync = None
        BY <3>2, <3>3
      <3>5. left = br.words
        BY <1>1, <2>1
      <3> QED
        BY <2>1, <3>4, <3>5 DEF SamePlace
    <2>2. CASE start # 0
      <3> DEFINE s == [c EXCEPT !.buffer = shifted, !.words = left,
                                !.consumed_words = 0]
                 d == [s EXCEPT !.last_seen_framesync = None]
      <3>1. c.words - start = left
        BY <1>2 DEF SamePlace
      <3>2. ShiftToFront(br) = s
        BY <2>2, <3>1 DEF ShiftToFront, c, shifted, moved, end
      <3>3. b = d
        BY <3>2 DEF BeforeRead
      <3>4. s \in Readers(Bytes) /\ SameLimit(s, br)
        BY <1>2, <1>4, <1>5 DEF Readers, SameLimit
      <3>5. /\ s.words = left /\ s.bytes = c.bytes /\ s.buffer = shifted
            /\ s.consumed_words = 0 /\ s.consumed_bits = c.consumed_bits
        BY <1>2 DEF Readers
      <3> HIDE DEF s
      <3>6. /\ d \in Readers(Bytes) /\ SamePlace(d, s) /\ SameLimit(d, s)
            /\ d.last_seen_framesync = None
        BY <1>4, <3>4 DEF Readers, SamePlace, SameLimit
      <3> QED
        BY <1>2, <2>2, <3>3, <3>4, <3>5, <3>6 DEF SamePlace, SameLimit
    <2> QED
      BY <2>1, <2>2
  <1> HIDE DEF b
  <1>8. Available(b) = Available(br) - gone
    <2>1. left * BytesPerWord = br.words * BytesPerWord - gone
      BY <1>1, ReaderAssumption
    <2>2. br.words * BytesPerWord \in Int
      BY <1>1, ReaderAssumption
    <2> HIDE DEF gone, left
    <2> QED
      BY <1>1, <1>4, <1>7, <2>1, <2>2 DEF Available
  <1>9. Unconsumed(b) = Unconsumed(br)
    <2>1. left - 0 = left
      BY <1>4
    <2> QED
      BY <1>7, <2>1 DEF Unconsumed
  <1>10. Consumed(b) = Consumed(br) - gone * BitsPerByte
    <2>1. gone * BitsPerByte = start * BitsPerWord
      BY <1>1, ReaderAssumption DEF BitsPerWord
    <2>2. start * BitsPerWord \in Int /\ 0 * BitsPerWord = 0
      BY <1>1, Sizes
    <2> HIDE DEF gone
    <2> QED
      BY <1>1, <1>7, <2>1, <2>2 DEF Consumed
  <1>11. Sane(b)
    <2>1. Unconsumed(br) >= 0
      <3>1. Available(br) * BitsPerByte \in Int
        BY Places, ReaderAssumption
      <3> QED
        BY <3>1, Places DEF Sane
    <2>2. Available(b) * BitsPerByte \in Int
      BY <1>7, Places, ReaderAssumption
    <2>3. Consumed(b) <= Available(b) * BitsPerByte
      BY <1>7, <1>9, <2>1, <2>2, Places
    <2>4. Available(b) <= BufferBytes
      BY <1>4, <1>8, Places, Sizes DEF Sane
    <2> QED
      BY <1>7, <2>3, <2>4 DEF Sane
  <1>12. \A a \in 0..(Available(b) - 1) : b.buffer[a] = br.buffer[a + gone]
    <2>1. CASE start = 0
      <3>1. gone = 0
        BY <2>1, ReaderAssumption
      <3>2. \A a \in 0..(Available(b) - 1) : a + gone = a
        BY <3>1
      <3> QED
        BY <1>7, <2>1, <3>2
    <2>2. CASE start # 0
      BY <1>6, <1>7, <1>8, <2>2
    <2> QED
      BY <2>1, <2>2
  <1> QED
    BY <1>3, <1>4, <1>7, <1>8, <1>9, <1>10, <1>11, <1>12 DEF b

-------------------------------------------------------------------------------
(* Taking bytes from the client *)

LEMMA PlaceInWord ==
    ASSUME NEW w \in Nat, NEW o \in 0..(BytesPerWord - 1)
    PROVE  /\ (w * BytesPerWord + o) \div BytesPerWord = w
           /\ (w * BytesPerWord + o) % BytesPerWord = o
  <1>1. w * BytesPerWord = BytesPerWord * w
    BY ReaderAssumption
  <1> QED
    BY <1>1, DivisionIsUnique, ReaderAssumption

LEMMA WordOfAddress ==
    ASSUME NEW a \in Nat, NEW k \in Nat
    PROVE  /\ a \div BytesPerWord \in Nat
           /\ a < k * BytesPerWord <=> a \div BytesPerWord < k
  <1>1. a \div BytesPerWord \in Nat
    BY Division, ReaderAssumption
  <1>2. a < k * BytesPerWord <=> a \div BytesPerWord < k
    BY DivisionIsMonotonic, ReaderAssumption
  <1> QED
    BY <1>1, <1>2

\* No byte of a sane reader lies behind its odd word.
LEMMA BytesAreInWords ==
    ASSUME NEW Bytes, NEW br \in Readers(Bytes), Sane(br),
           NEW a \in 0..(Available(br) - 1)
    PROVE  a \in Nat /\ a \div BytesPerWord \in Nat /\ a \div BytesPerWord <= br.words
  <1>1. br.words \in Nat /\ br.words + 1 \in Nat /\ br.bytes \in Nat
    BY DEF Readers
  <1>2. a \in Nat /\ Available(br) \in Nat
    BY Places
  <1>3. (br.words + 1) * BytesPerWord = br.words * BytesPerWord + BytesPerWord
    BY <1>1, ReaderAssumption
  <1>4. br.words * BytesPerWord \in Int
    BY <1>1, ReaderAssumption
  <1>5. Available(br) < (br.words + 1) * BytesPerWord
    BY <1>1, <1>3, <1>4, ReaderAssumption DEF Available, Sane
  <1>6. a < (br.words + 1) * BytesPerWord
    BY <1>2, <1>3, <1>4, <1>5, ReaderAssumption
  <1>7. a \div BytesPerWord \in Nat /\ a \div BytesPerWord < br.words + 1
    BY <1>1, <1>2, <1>6, WordOfAddress
  <1> QED
    BY <1>1, <1>2, <1>7

\* Memory order turns each word around, and twice is once around.
LEMMA MemoryOrderTurnsWords ==
    ASSUME NEW a \in Nat
    PROVE  /\ MemoryOrder(a) \in Nat
           /\ MemoryOrder(a) \div BytesPerWord = a \div BytesPerWord
           /\ MemoryOrder(MemoryOrder(a)) = a
  <1> DEFINE w == a \div BytesPerWord
             o == a % BytesPerWord
             turned == BytesPerWord - 1 - o
             m == MemoryOrder(a)
  <1>1. w \in Nat /\ o \in 0..(BytesPerWord - 1) /\ a = BytesPerWord * w + o
    BY Division, ReaderAssumption
  <1>2. m = w * BytesPerWord + BytesPerWord - 1 - o
    BY DEF MemoryOrder
  <1> HIDE DEF w, o
  <1>3. turned \in 0..(BytesPerWord - 1)
    BY <1>1, ReaderAssumption
  <1>4. w * BytesPerWord \in Nat /\ w * BytesPerWord = BytesPerWord * w
    BY <1>1, ReaderAssumption
  <1>5. m = w * BytesPerWord + turned
    BY <1>1, <1>2, <1>4, ReaderAssumption
  <1> HIDE DEF turned, m
  <1>6. m \in Nat
    BY <1>3, <1>4, <1>5
  <1>7. m \div BytesPerWord = w /\ m % BytesPerWord = turned
    BY <1>1, <1>3, <1>5, PlaceInWord
  <1>8. MemoryOrder(m) = w * BytesPerWord + BytesPerWord - 1 - turned
    BY <1>7 DEF MemoryOrder
  <1>9. MemoryOrder(m) = a
    BY <1>1, <1>4, <1>8, ReaderAssumption DEF turned
  <1> QED
    BY <1>6, <1>7, <1>9 DEF m, w

LEMMA AddressIsInWord ==
    ASSUME NEW a \in Nat
    PROVE  a \in Addr <=> a \div BytesPerWord < Capacity
  <1>1. a < Capacity * BytesPerWord <=> a \div BytesPerWord < Capacity
    BY DivisionIsMonotonic, ReaderAssumption
  <1>2. a \in Addr <=> a < BufferBytes
    BY Sizes
  <1> QED
    BY <1>1, <1>2 DEF BufferBytes

LEMMA MemoryOrderStaysInBuffer ==
    ASSUME NEW a \in Addr
    PROVE  MemoryOrder(a) \in Addr
  <1>1. a \in Nat
    BY Sizes
  <1> QED
    BY <1>1, MemoryOrderTurnsWords, AddressIsInWord

LEMMA SwapTurnsWords ==
    ASSUME NEW Bytes, NEW buffer \in [Addr -> Bytes], NEW first, NEW last
    PROVE  SwapWords(buffer, first, last) \in [Addr -> Bytes]
  BY MemoryOrderStaysInBuffer DEF SwapWords

\* Memory while the client stores: the odd tail word lies as memory holds it.
LEMMA TailIsTurned ==
    ASSUME NEW Bytes, NEW br \in Readers(Bytes)
    PROVE  /\ TailForClient(br) \in [Addr -> Bytes]
           /\ \A a \in Addr :
                 /\ a \div BytesPerWord # br.words => TailForClient(br)[a] = br.buffer[a]
                 /\ a \div BytesPerWord = br.words /\ br.bytes > 0 =>
                       TailForClient(br)[MemoryOrder(a)] = br.buffer[a]
  <1>1. br.buffer \in [Addr -> Bytes] /\ br.words \in Nat /\ br.bytes \in Nat
    BY DEF Readers
  <1>2. \A a \in Addr : a \div BytesPerWord \in Nat /\ a \in Nat
    <2> SUFFICES ASSUME NEW a \in Nat PROVE a \div BytesPerWord \in Nat
      BY Sizes
    <2> QED
      BY Division, ReaderAssumption
  <1>3. CASE br.bytes > 0
    <2>1. TailForClient(br) = SwapWords(br.buffer, br.words, br.words)
      BY <1>3 DEF TailForClient
    <2>2. \A a \in Addr : SwapWords(br.buffer, br.words, br.words)[a] =
              IF a \div BytesPerWord = br.words THEN br.buffer[MemoryOrder(a)]
              ELSE br.buffer[a]
      BY <1>1, <1>2 DEF SwapWords, InWords
    <2>3. ASSUME NEW a \in Addr, a \div BytesPerWord = br.words
          PROVE  SwapWords(br.buffer, br.words, br.words)[MemoryOrder(a)] = br.buffer[a]
      <3>1. /\ MemoryOrder(a) \in Addr /\ MemoryOrder(MemoryOrder(a)) = a
            /\ MemoryOrder(a) \div BytesPerWord = br.words
        BY <1>2, <2>3, MemoryOrderTurnsWords, MemoryOrderStaysInBuffer
      <3> QED
        BY <2>2, <3>1
    <2> QED
      BY <1>1, <2>1, <2>2, <2>3, SwapTurnsWords
  <1>4. CASE ~(br.bytes > 0)
    BY <1>1, <1>4 DEF TailForClient
  <1> QED
    BY <1>3, <1>4

\* What the client stored, byte for byte of the stream
LEMMA WhatIsStored ==
    ASSUME NEW Bytes, NEW br \in Readers(Bytes), Sane(br),
           NEW data \in Seq(Bytes), Available(br) + Len(data) <= BufferBytes
    PROVE  LET stored == StoreAt(TailForClient(br), Available(br), data) IN
           /\ stored \in [Addr -> Bytes]
           /\ \A a \in 0..(Available(br) + Len(data) - 1) :
                 /\ a \in Addr
                 /\ a \div BytesPerWord < br.words => stored[a] = br.buffer[a]
                 /\ a \div BytesPerWord >= br.words /\ a < Available(br) =>
                       stored[MemoryOrder(a)] = br.buffer[a]
                 /\ a \div BytesPerWord >= br.words /\ ~(a < Available(br)) =>
                       stored[MemoryOrder(a)] = data[a - Available(br) + 1]
  <1> DEFINE target == Available(br)
             tail == TailForClient(br)
             stored == StoreAt(tail, target, data)
  <1>1. br.words \in Nat /\ br.bytes \in Nat /\ Len(data) \in Nat
    BY DEF Readers
  <1>2. target \in Nat
    BY Places
  <1>3. /\ tail \in [Addr -> Bytes]
        /\ \A a \in Addr :
              /\ a \div BytesPerWord # br.words => tail[a] = br.buffer[a]
              /\ a \div BytesPerWord = br.words /\ br.bytes > 0 =>
                    tail[MemoryOrder(a)] = br.buffer[a]
    BY TailIsTurned
  <1>4. \A a \in Addr :
           stored[a] = IF MemoryOrder(a) \in target..(target + Len(data) - 1)
                       THEN data[MemoryOrder(a) - target + 1] ELSE tail[a]
    BY DEF StoreAt
  <1>5. \A m \in target..(target + Len(data) - 1) : data[m - target + 1] \in Bytes
    BY <1>1, <1>2
  <1>6. stored \in [Addr -> Bytes]
    <2>1. stored = [a \in Addr |-> IF MemoryOrder(a) \in target..(target + Len(data) - 1)
                       THEN data[MemoryOrder(a) - target + 1] ELSE tail[a]]
      BY DEF StoreAt
    <2> HIDE DEF target, tail, stored
    <2> QED
      BY <1>3, <1>5, <2>1
  <1>7. ASSUME NEW a \in 0..(target + Len(data) - 1)
        PROVE  /\ a \in Addr /\ a \in Nat /\ a \div BytesPerWord \in Nat
               /\ MemoryOrder(a) \in Addr /\ MemoryOrder(MemoryOrder(a)) = a
               /\ MemoryOrder(a) \in Nat
               /\ MemoryOrder(a) \div BytesPerWord = a \div BytesPerWord
    <2>1. a \in Addr /\ a \in Nat
      BY <1>1, <1>2, Sizes
    <2> QED
      BY <2>1, MemoryOrderTurnsWords, MemoryOrderStaysInBuffer, Division, ReaderAssumption
  <1>8. ASSUME NEW a \in 0..(target + Len(data) - 1), a \div BytesPerWord < br.words
        PROVE  stored[a] = br.buffer[a]
    <2>1. MemoryOrder(a) < br.words * BytesPerWord
      BY <1>1, <1>7, <1>8, DivisionIsMonotonic, ReaderAssumption
    <2>2. br.words * BytesPerWord <= target
      BY <1>1, ReaderAssumption DEF Available
    <2>3. br.words * BytesPerWord \in Int
      BY <1>1, ReaderAssumption
    <2>4. MemoryOrder(a) < target
      BY <1>2, <1>7, <2>1, <2>2, <2>3
    <2>5. ~(MemoryOrder(a) \in target..(target + Len(data) - 1))
      BY <1>1, <1>2, <1>7, <2>4
    <2>6. stored[a] = tail[a]
      BY <1>4, <1>7, <2>5
    <2>7. a \div BytesPerWord # br.words
      BY <1>1, <1>7, <1>8
    <2> QED
      BY <1>3, <1>7, <2>6, <2>7
  <1>9. ASSUME NEW a \in 0..(target + Len(data) - 1), a \div BytesPerWord >= br.words
        PROVE  stored[MemoryOrder(a)] = IF a < target THEN br.buffer[a]
                                        ELSE data[a - target + 1]
    <2>1. stored[MemoryOrder(a)] = IF a \in target..(target + Len(data) - 1)
                                   THEN data[a - target + 1] ELSE tail[MemoryOrder(a)]
      BY <1>4, <1>7
    <2>2. CASE a < target
      <3>5. a \div BytesPerWord = br.words
        <4>1. a \in 0..(target - 1)
          BY <1>2, <1>7, <2>2
        <4>2. a \div BytesPerWord <= br.words
          BY <4>1, BytesAreInWords
        <4> QED
          BY <1>1, <1>7, <1>9, <4>2
      <3>6. br.bytes > 0
        <4> SUFFICES ASSUME br.bytes = 0 PROVE FALSE
          BY <1>1
        <4>1. a < br.words * BytesPerWord
          <5>1. br.words * BytesPerWord + 0 = br.words * BytesPerWord
            BY <1>1, ReaderAssumption
          <5> QED
            BY <2>2, <5>1 DEF Available
        <4>2. a \div BytesPerWord < br.words
          BY <1>1, <1>7, <4>1, DivisionIsMonotonic, ReaderAssumption
        <4> QED
          BY <1>1, <1>7, <1>9, <4>2
      <3>7. tail[MemoryOrder(a)] = br.buffer[a]
        BY <1>3, <1>7, <3>5, <3>6
      <3>8. ~(a \in target..(target + Len(data) - 1))
        BY <1>1, <1>2, <1>7, <2>2
      <3> QED
        BY <2>1, <2>2, <3>7, <3>8
    <2>3. CASE ~(a < target)
      <3>1. a \in target..(target + Len(data) - 1)
        BY <1>1, <1>2, <2>3
      <3> QED
        BY <2>1, <2>3, <3>1
    <2> QED
      BY <2>2, <2>3
  <1> QED
    BY <1>6, <1>7, <1>8, <1>9

\* Behind what was there lies what the client delivered.
LEMMA Filling ==
    ASSUME NEW Bytes, NEW br \in Readers(Bytes), Sane(br),
           NEW data \in Seq(Bytes), Available(br) + Len(data) <= BufferBytes
    PROVE  LET b == Filled(br, data) IN
           /\ b \in Readers(Bytes) /\ Sane(b) /\ SameLimit(b, br)
           /\ b.consumed_words = br.consumed_words /\ b.consumed_bits = br.consumed_bits
           /\ b.last_seen_framesync = br.last_seen_framesync
           /\ Available(b) = Available(br) + Len(data)
           /\ Consumed(b) = Consumed(br)
           /\ \A a \in 0..(Available(b) - 1) :
                 b.buffer[a] = IF a < Available(br) THEN br.buffer[a]
                               ELSE data[a - Available(br) + 1]
  <1> DEFINE stored == StoreAt(TailForClient(br), Available(br), data)
  <1>1. /\ stored \in [Addr -> Bytes]
        /\ \A a \in 0..(Available(br) + Len(data) - 1) :
              /\ a \in Addr
              /\ a \div BytesPerWord < br.words => stored[a] = br.buffer[a]
              /\ a \div BytesPerWord >= br.words /\ a < Available(br) =>
                    stored[MemoryOrder(a)] = br.buffer[a]
              /\ a \div BytesPerWord >= br.words /\ ~(a < Available(br)) =>
                    stored[MemoryOrder(a)] = data[a - Available(br) + 1]
    BY WhatIsStored
  <1> DEFINE end == Available(br) + Len(data)
             lastWord == ((end + BytesPerWord - 1) \div BytesPerWord) - 1
             swapped == SwapWords(stored, br.words, lastWord)
             q == end \div BytesPerWord
             r == end % BytesPerWord
             b == [br EXCEPT !.buffer = swapped, !.words = q, !.bytes = r]
  <1>2. end \in Nat /\ Available(br) \in Nat /\ Len(data) \in Nat /\ br.words \in Nat
    BY Places DEF Readers
  <1>3. q \in Nat /\ r \in 0..(BytesPerWord - 1) /\ end = BytesPerWord * q + r
    BY <1>2, Division, ReaderAssumption
  <1>4. swapped \in [Addr -> Bytes]
    BY <1>1, SwapTurnsWords
  <1>5. Filled(br, data) = b
    BY DEF Filled
  <1> HIDE DEF stored, end
  <1>6. ASSUME NEW a \in 0..(Available(br) + Len(data) - 1)
        PROVE  swapped[a] = IF a < Available(br) THEN br.buffer[a]
                            ELSE data[a - Available(br) + 1]
    <2>1. /\ a \in Addr /\ a \in Nat /\ a \div BytesPerWord \in Nat
          /\ MemoryOrder(a) \in Addr
      <3>1. a \in Addr /\ a \in Nat
        BY <1>1, <1>2 DEF end
      <3> QED
        BY <3>1, Division, MemoryOrderStaysInBuffer, ReaderAssumption
    <2>2. swapped[a] = IF a \div BytesPerWord \in br.words..lastWord
                       THEN stored[MemoryOrder(a)] ELSE stored[a]
      BY <2>1 DEF SwapWords, InWords
    <2>3. CASE a \div BytesPerWord < br.words
      <3>1. ~(a \div BytesPerWord \in br.words..lastWord)
        BY <1>2, <2>1, <2>3
      <3>2. a < Available(br)
        <4>1. a < br.words * BytesPerWord
          BY <1>2, <2>1, <2>3, DivisionIsMonotonic, ReaderAssumption
        <4>2. br.words * BytesPerWord \in Int /\ br.bytes \in Nat
          BY <1>2, ReaderAssumption DEF Readers
        <4> QED
          BY <2>1, <4>1, <4>2 DEF Available
      <3> QED
        BY <1>1, <2>2, <2>3, <3>1, <3>2
    <2>4. CASE ~(a \div BytesPerWord < br.words)
      <3> DEFINE up == (end + BytesPerWord - 1) \div BytesPerWord
      <3>1. end + BytesPerWord - 1 \in Nat
        BY <1>2, ReaderAssumption
      <3>2. up \in Nat
        BY <3>1, Division, ReaderAssumption
      <3>3. a \div BytesPerWord < up
        <4>1. a < up * BytesPerWord
          <5> DEFINE rest == (end + BytesPerWord - 1) % BytesPerWord
          <5>1. /\ rest \in 0..(BytesPerWord - 1)
                /\ end + BytesPerWord - 1 = BytesPerWord * up + rest
            BY <3>1, Division, ReaderAssumption
          <5> HIDE DEF up, rest
          <5>2. BytesPerWord * up \in Int /\ BytesPerWord * up = up * BytesPerWord
            BY <3>2, ReaderAssumption
          <5>3. BytesPerWord * up >= end
            BY <1>2, <5>1, <5>2, ReaderAssumption
          <5> QED
            BY <1>2, <2>1, <5>2, <5>3 DEF end
        <4> HIDE DEF up
        <4> QED
          BY <2>1, <3>2, <4>1, DivisionIsMonotonic, ReaderAssumption
      <3>4. lastWord = up - 1
        OBVIOUS
      <3> HIDE DEF up, lastWord, swapped
      <3>5. a \div BytesPerWord \in br.words..lastWord
        BY <1>2, <2>1, <2>4, <3>2, <3>3, <3>4
      <3> QED
        BY <1>1, <1>2, <2>1, <2>2, <2>4, <3>5
    <2> QED
      BY <2>3, <2>4
  <1> HIDE DEF swapped, q, r
  <1>7. /\ b \in Readers(Bytes) /\ SameLimit(b, br)
        /\ b.consumed_words = br.consumed_words /\ b.consumed_bits = br.consumed_bits
        /\ b.last_seen_framesync = br.last_seen_framesync
        /\ b.buffer = swapped /\ b.words = q /\ b.bytes = r
    <2>1. r \in Nat
      BY <1>3, ReaderAssumption
    <2> QED
      BY <1>3, <1>4, <2>1 DEF Readers, SameLimit
  <1> HIDE DEF b
  <1>8. Available(b) = end
    <2>1. q * BytesPerWord = BytesPerWord * q
      BY <1>3, ReaderAssumption
    <2> QED
      BY <1>3, <1>7, <2>1 DEF Available
  <1>9. Consumed(b) = Consumed(br)
    BY <1>7 DEF Consumed
  <1>10. Sane(b)
    <2>1. Available(br) * BitsPerByte <= end * BitsPerByte
      BY <1>2, ReaderAssumption DEF end
    <2>2. Available(br) * BitsPerByte \in Int /\ end * BitsPerByte \in Int
      BY <1>2, ReaderAssumption
    <2>3. Consumed(br) <= end * BitsPerByte
      BY <2>1, <2>2, Places DEF Sane
    <2>4. r < BytesPerWord
      BY <1>3, ReaderAssumption
    <2>5. end <= BufferBytes
      BY DEF end
    <2> QED
      BY <1>7, <1>8, <1>9, <2>3, <2>4, <2>5 DEF Sane
  <1>11. \A a \in 0..(Available(b) - 1) :
             b.buffer[a] = IF a < Available(br) THEN br.buffer[a]
                           ELSE data[a - Available(br) + 1]
    <2> SUFFICES ASSUME NEW a \in 0..(Available(b) - 1)
                 PROVE  b.buffer[a] = IF a < Available(br) THEN br.buffer[a]
                                      ELSE data[a - Available(br) + 1]
      OBVIOUS
    <2>1. a \in 0..(Available(br) + Len(data) - 1)
      BY <1>2, <1>8 DEF end
    <2>2. swapped[a] = IF a < Available(br) THEN br.buffer[a]
                       ELSE data[a - Available(br) + 1]
      BY <1>6, <2>1
    <2> QED
      BY <1>7, <2>2
  <1> QED
    BY <1>5, <1>7, <1>8, <1>9, <1>10, <1>11 DEF end

\* Nothing that was there is lost when the client fails.
LEMMA NotFilling ==
    ASSUME NEW Bytes, NEW br \in Readers(Bytes), Sane(br),
           NEW data \in Seq(Bytes), Available(br) + Len(data) <= BufferBytes
    PROVE  LET b == NotFilled(br, data) IN
           /\ b \in Readers(Bytes) /\ Sane(b) /\ SameLimit(b, br)
           /\ b.words = br.words /\ b.bytes = br.bytes
           /\ b.consumed_words = br.consumed_words /\ b.consumed_bits = br.consumed_bits
           /\ b.last_seen_framesync = br.last_seen_framesync
           /\ Available(b) = Available(br) /\ Consumed(b) = Consumed(br)
           /\ \A a \in 0..(Available(b) - 1) : b.buffer[a] = br.buffer[a]
  <1> DEFINE stored == StoreAt(TailForClient(br), Available(br), data)
             back == [a \in Addr |-> IF InWords(a, br.words, br.words)
                                     THEN br.buffer[a] ELSE stored[a]]
             b == [br EXCEPT !.buffer = back]
  <1>1. /\ stored \in [Addr -> Bytes]
        /\ \A a \in 0..(Available(br) + Len(data) - 1) :
              a \in Addr /\ (a \div BytesPerWord < br.words => stored[a] = br.buffer[a])
    BY WhatIsStored
  <1>2. /\ br.buffer \in [Addr -> Bytes] /\ br.words \in Nat /\ br.bytes \in Nat
        /\ Available(br) \in Nat /\ Len(data) \in Nat
    BY Places DEF Readers
  <1>3. NotFilled(br, data) = b
    BY DEF NotFilled
  <1> HIDE DEF stored
  <1>4. back \in [Addr -> Bytes]
    BY <1>1, <1>2
  <1>5. ASSUME NEW a \in 0..(Available(br) - 1)
        PROVE  back[a] = br.buffer[a]
    <2>1. a \in Addr /\ a \in Nat /\ a \div BytesPerWord \in Nat
      <3>1. a \in 0..(Available(br) + Len(data) - 1)
        BY <1>2
      <3> QED
        BY <1>1, <3>1, BytesAreInWords
    <2>3. a \div BytesPerWord <= br.words
      BY BytesAreInWords
    <2>4. CASE a \div BytesPerWord = br.words
      BY <1>2, <2>1, <2>4 DEF InWords
    <2>5. CASE a \div BytesPerWord < br.words
      <3>1. ~InWords(a, br.words, br.words)
        BY <1>2, <2>1, <2>5 DEF InWords
      <3>2. a \in 0..(Available(br) + Len(data) - 1)
        BY <1>2
      <3> QED
        BY <1>1, <2>1, <2>5, <3>1, <3>2
    <2> QED
      BY <1>2, <2>1, <2>3, <2>4, <2>5
  <1> HIDE DEF back
  <1>6. /\ b \in Readers(Bytes) /\ SameLimit(b, br)
        /\ b.words = br.words /\ b.bytes = br.bytes
        /\ b.consumed_words = br.consumed_words /\ b.consumed_bits = br.consumed_bits
        /\ b.last_seen_framesync = br.last_seen_framesync /\ b.buffer = back
    BY <1>4 DEF Readers, SameLimit
  <1> HIDE DEF b
  <1>7. Available(b) = Available(br) /\ Consumed(b) = Consumed(br)
    BY <1>6 DEF Available, Consumed
  <1>8. Sane(b)
    BY <1>6, <1>7 DEF Sane
  <1> QED
    BY <1>3, <1>5, <1>6, <1>7, <1>8

-------------------------------------------------------------------------------
(* Syncs, limits and a new start *)

LEMMA Remembering ==
    ASSUME NEW Bytes, NEW br \in Readers(Bytes), Sane(br), ByteAligned(br)
    PROVE  LET b == SetFramesyncLocation(br) IN
           /\ b \in Readers(Bytes) /\ SamePlace(b, br) /\ SameLimit(b, br)
           /\ b.last_seen_framesync \in Nat
           /\ b.last_seen_framesync * BitsPerByte = Consumed(br)
           /\ b.last_seen_framesync <= Available(br)
  <1> DEFINE word == br.consumed_words * BytesPerWord
             odd == br.consumed_bits \div BitsPerByte
             at == word + odd
             b == [br EXCEPT !.last_seen_framesync = at]
  <1>1. br.consumed_words \in Nat /\ br.consumed_bits \in Nat
    BY DEF Readers
  <1>2. word \in Nat
    <2>1. \A m, n \in Nat : m * n \in Nat
      OBVIOUS
    <2> QED
      BY <1>1, <2>1, ReaderAssumption
  <1>3. odd \in Nat /\ br.consumed_bits = BitsPerByte * odd
    <2> DEFINE rest == br.consumed_bits % BitsPerByte
    <2>1. odd \in Nat /\ br.consumed_bits = BitsPerByte * odd + rest
      BY <1>1, Division, ReaderAssumption
    <2>2. rest = 0
      BY DEF ByteAligned
    <2> HIDE DEF odd, rest
    <2>3. BitsPerByte * odd \in Int
      BY <2>1, ReaderAssumption
    <2> QED
      BY <2>1, <2>2, <2>3
  <1>4. SetFramesyncLocation(br) = b
    BY DEF SetFramesyncLocation
  <1>5. at * BitsPerByte = Consumed(br)
    <2>1. word * BitsPerByte = br.consumed_words * BitsPerWord
      BY <1>1, ReaderAssumption DEF BitsPerWord
    <2> HIDE DEF word, odd
    <2>2. at * BitsPerByte = word * BitsPerByte + BitsPerByte * odd
      BY <1>2, <1>3, ReaderAssumption
    <2> QED
      BY <1>3, <2>1, <2>2 DEF Consumed
  <1> HIDE DEF word, odd
  <1>6. at \in Nat
    BY <1>2, <1>3
  <1> HIDE DEF at
  <1>7. at <= Available(br)
    <2>1. \A m, n \in Nat : m * BitsPerByte <= n * BitsPerByte => m <= n
      BY ReaderAssumption
    <2>2. at * BitsPerByte <= Available(br) * BitsPerByte
      BY <1>5 DEF Sane
    <2> QED
      BY <1>6, <2>1, <2>2, Places
  <1>8. /\ b \in Readers(Bytes) /\ SamePlace(b, br) /\ SameLimit(b, br)
        /\ b.last_seen_framesync = at
    BY <1>6 DEF Readers, SamePlace, SameLimit
  <1> QED
    BY <1>4, <1>5, <1>6, <1>7, <1>8

LEMMA Rewinding ==
    ASSUME NEW Bytes, NEW br \in Readers(Bytes), Sane(br),
           FramesyncInBuffer(br) => br.last_seen_framesync + 1 <= Available(br)
    PROVE  LET b == RewindToAfterLastSeenFramesync(br) IN
           /\ b \in Readers(Bytes) /\ Sane(b) /\ SameLimit(b, br)
           /\ b.buffer = br.buffer /\ b.words = br.words /\ b.bytes = br.bytes
           /\ b.last_seen_framesync = br.last_seen_framesync
           /\ b.consumed_bits % BitsPerByte = 0
           /\ Available(b) = Available(br)
           /\ Consumed(b) = IF FramesyncInBuffer(br)
                            THEN (br.last_seen_framesync + 1) * BitsPerByte ELSE 0
  <1> DEFINE next == br.last_seen_framesync + 1
             q == next \div BytesPerWord
             r == next % BytesPerWord
             word == IF FramesyncInBuffer(br) THEN q ELSE 0
             odd == IF FramesyncInBuffer(br) THEN r * BitsPerByte ELSE 0
             b == [br EXCEPT !.consumed_words = word, !.consumed_bits = odd]
  <1>1. /\ br.last_seen_framesync \in Nat /\ br.words \in Nat /\ br.bytes \in Nat
        /\ Available(br) \in Nat
    BY Places DEF Readers
  <1>2. next \in Nat
    BY <1>1
  <1>3. q \in Nat /\ r \in 0..(BytesPerWord - 1) /\ next = BytesPerWord * q + r
    BY <1>2, Division, ReaderAssumption
  <1>4. RewindToAfterLastSeenFramesync(br) = b
    BY DEF RewindToAfterLastSeenFramesync
  <1> HIDE DEF next, q, r
  <1>5. /\ r * BitsPerByte \in Nat /\ r * BitsPerByte < BitsPerWord
        /\ (r * BitsPerByte) % BitsPerByte = 0
    <2>1. r \in Nat /\ r + 1 <= BytesPerWord
      BY <1>3, ReaderAssumption
    <2>2. (r + 1) * BitsPerByte <= BytesPerWord * BitsPerByte
      BY <2>1, ReaderAssumption
    <2>3. (r + 1) * BitsPerByte = r * BitsPerByte + BitsPerByte
      BY <2>1, ReaderAssumption
    <2>4. r * BitsPerByte \in Nat
      BY <2>1, ReaderAssumption
    <2>5. (BitsPerByte * r + 0) % BitsPerByte = 0
      BY <2>1, DivisionIsUnique, ReaderAssumption
    <2>6. BitsPerByte * r + 0 = r * BitsPerByte
      BY <2>1, ReaderAssumption
    <2>7. r * BitsPerByte < BitsPerWord
      BY <2>2, <2>3, <2>4, ReaderAssumption, Sizes
    <2> QED
      BY <2>4, <2>5, <2>6, <2>7
  <1>6. word \in Nat /\ odd \in Nat /\ odd < BitsPerWord /\ odd % BitsPerByte = 0
    <2>1. 0 % BitsPerByte = 0
      <3>1. (BitsPerByte * 0 + 0) % BitsPerByte = 0
        BY DivisionIsUnique, ReaderAssumption
      <3>2. BitsPerByte * 0 + 0 = 0
        BY ReaderAssumption
      <3> QED
        BY <3>1, <3>2
    <2>2. CASE FramesyncInBuffer(br)
      BY <1>3, <1>5, <2>2
    <2>3. CASE ~FramesyncInBuffer(br)
      BY <2>1, <2>3, Sizes
    <2> QED
      BY <2>2, <2>3
  <1>7. word * BitsPerWord + odd = IF FramesyncInBuffer(br) THEN next * BitsPerByte ELSE 0
    <2>1. CASE FramesyncInBuffer(br)
      <3>1. r \in Nat
        BY <1>3, ReaderAssumption
      <3>2. (BytesPerWord * q + r) * BitsPerByte
                = q * (BytesPerWord * BitsPerByte) + r * BitsPerByte
        BY <1>3, <3>1, ReaderAssumption
      <3> QED
        BY <1>3, <2>1, <3>2 DEF BitsPerWord
    <2>2. CASE ~FramesyncInBuffer(br)
      BY <2>2, Sizes
    <2> QED
      BY <2>1, <2>2
  <1> HIDE DEF word, odd
  <1>8. /\ b \in Readers(Bytes) /\ SameLimit(b, br)
        /\ b.buffer = br.buffer /\ b.words = br.words /\ b.bytes = br.bytes
        /\ b.consumed_words = word /\ b.consumed_bits = odd
        /\ b.last_seen_framesync = br.last_seen_framesync
    BY <1>6 DEF Readers, SameLimit
  <1> HIDE DEF b
  <1>9. /\ Available(b) = Available(br)
        /\ Consumed(b) = IF FramesyncInBuffer(br) THEN next * BitsPerByte ELSE 0
    BY <1>7, <1>8 DEF Available, Consumed
  <1>10. Consumed(b) <= Available(br) * BitsPerByte
    <2>1. CASE FramesyncInBuffer(br)
      <3>1. next <= Available(br)
        BY <2>1 DEF next
      <3>2. next * BitsPerByte <= Available(br) * BitsPerByte
        BY <1>1, <1>2, <3>1, ReaderAssumption
      <3> QED
        BY <1>9, <2>1, <3>2
    <2>2. CASE ~FramesyncInBuffer(br)
      <3>1. 0 <= Available(br) * BitsPerByte
        BY <1>1, ReaderAssumption
      <3> QED
        BY <1>9, <2>2, <3>1
    <2> QED
      BY <2>1, <2>2
  <1>11. Sane(b)
    BY <1>6, <1>8, <1>9, <1>10 DEF Sane
  <1> QED
    BY <1>4, <1>6, <1>8, <1>9, <1>11 DEF next

LEMMA ResettingCrc ==
    ASSUME NEW Bytes, NEW br \in Readers(Bytes), NEW seed \in Seq(Bytes)
    PROVE  LET b == ResetReadCrc16(br, seed) IN
           /\ b \in Readers(Bytes) /\ SamePlace(b, br) /\ SameLimit(b, br)
           /\ b.last_seen_framesync = br.last_seen_framesync
  BY DEF ResetReadCrc16, Readers, SamePlace, SameLimit

LEMMA Limiting ==
    ASSUME NEW Bytes, NEW br \in Readers(Bytes)
    PROVE  /\ LET b == RemoveLimit(br) IN
              /\ b \in Readers(Bytes) /\ SamePlace(b, br)
              /\ b.last_seen_framesync = br.last_seen_framesync
              /\ b.read_limit_set = FALSE /\ b.read_limit = None
           /\ LET b == InvalidateLimit(br) IN
              /\ b \in Readers(Bytes) /\ SamePlace(b, br)
              /\ b.last_seen_framesync = br.last_seen_framesync
              /\ b.read_limit_set = br.read_limit_set /\ b.read_limit = None
  <1>1. None \in Int
    BY ReaderAssumption DEF None
  <1>2. LET b == RemoveLimit(br) IN
              /\ b \in Readers(Bytes) /\ SamePlace(b, br)
              /\ b.last_seen_framesync = br.last_seen_framesync
              /\ b.read_limit_set = FALSE /\ b.read_limit = None
    BY <1>1 DEF RemoveLimit, Readers, SamePlace
  <1>3. LET b == InvalidateLimit(br) IN
              /\ b \in Readers(Bytes) /\ SamePlace(b, br)
              /\ b.last_seen_framesync = br.last_seen_framesync
              /\ b.read_limit_set = br.read_limit_set /\ b.read_limit = None
    BY <1>1 DEF InvalidateLimit, Readers, SamePlace
  <1> QED
    BY <1>2, <1>3

LEMMA Clearing ==
    ASSUME NEW Bytes, NEW br \in Readers(Bytes)
    PROVE  LET b == Clear(br) IN
           /\ b \in Readers(Bytes) /\ Sane(b)
           /\ b.words = 0 /\ b.bytes = 0 /\ b.consumed_words = 0 /\ b.consumed_bits = 0
           /\ Available(b) = 0 /\ Consumed(b) = 0 /\ Unconsumed(b) = 0
           /\ b.read_limit_set = FALSE /\ b.read_limit = None
           /\ b.last_seen_framesync = None
  <1> DEFINE b == Clear(br)
  <1>1. None \in Nat
    BY ReaderAssumption DEF None
  <1>2. /\ b \in Readers(Bytes)
        /\ b.words = 0 /\ b.bytes = 0 /\ b.consumed_words = 0 /\ b.consumed_bits = 0
        /\ b.read_limit_set = FALSE /\ b.read_limit = None
        /\ b.last_seen_framesync = None
    <2> DEFINE c == [br EXCEPT !.words = 0, !.bytes = 0,
                               !.consumed_words = 0, !.consumed_bits = 0]
               d == [c EXCEPT !.read_limit_set = FALSE, !.read_limit = None]
               e == [d EXCEPT !.last_seen_framesync = None]
    <2>1. b \in Readers(Bytes)
      <3>1. c \in Readers(Bytes)
        BY DEF Readers
      <3>2. b = e
        BY DEF Clear
      <3> HIDE DEF c
      <3>3. d \in Readers(Bytes)
        <4>1. d = RemoveLimit(c)
          BY DEF RemoveLimit
        <4>2. 0 \in Int
          OBVIOUS
        <4> HIDE DEF d
        <4> QED
          BY <3>1, <4>1, <4>2, Limiting
      <3> HIDE DEF d
      <3>4. e \in Readers(Bytes)
        BY <1>1, <3>3 DEF Readers
      <3> QED
        BY <3>2, <3>4
    <2>2. /\ b.words = 0 /\ b.bytes = 0 /\ b.consumed_words = 0 /\ b.consumed_bits = 0
          /\ b.read_limit = None /\ b.last_seen_framesync = None
      BY DEF Clear, Readers
    <2>3. b.read_limit_set = FALSE
      BY DEF Clear, Readers
    <2> QED
      BY <2>1, <2>2, <2>3
  <1> HIDE DEF b
  <1>3. Available(b) = 0 /\ Consumed(b) = 0 /\ Unconsumed(b) = 0
    BY <1>2, Sizes, ReaderAssumption DEF Available, Consumed, Unconsumed
  <1>4. Sane(b)
    BY <1>2, <1>3, Sizes, ReaderAssumption DEF Sane
  <1> QED
    BY <1>2, <1>3, <1>4 DEF b

LEMMA Charging ==
    ASSUME NEW Bytes, NEW br \in Readers(Bytes), NEW n \in Int
    PROVE  LET b == Charge(br, n) IN
           /\ b \in Readers(Bytes) /\ SamePlace(b, br)
           /\ b.last_seen_framesync = br.last_seen_framesync
           /\ b.read_limit_set = br.read_limit_set
           /\ b.read_limit = IF Limited(br) THEN br.read_limit - n ELSE br.read_limit
  <1>1. br.read_limit \in Int
    BY DEF Readers
  <1>2. CASE Limited(br)
    <2> DEFINE left == br.read_limit - n
               b == [br EXCEPT !.read_limit = left]
    <2>1. left \in Int
      BY <1>1
    <2>2. Charge(br, n) = b
      BY <1>2 DEF Charge
    <2> HIDE DEF left
    <2>3. /\ b \in Readers(Bytes) /\ SamePlace(b, br)
          /\ b.last_seen_framesync = br.last_seen_framesync
          /\ b.read_limit_set = br.read_limit_set /\ b.read_limit = left
      BY <2>1 DEF Readers, SamePlace
    <2> QED
      BY <1>2, <2>2, <2>3 DEF left
  <1>3. CASE ~Limited(br)
    <2>1. Charge(br, n) = br
      BY <1>3 DEF Charge
    <2> QED
      BY <1>3, <2>1 DEF SamePlace
  <1> QED
    BY <1>2, <1>3

LEMMA ChargingAWord ==
    ASSUME NEW Bytes, NEW br \in Readers(Bytes)
    PROVE  LET b == ChargeWord(br) IN
           /\ b \in Readers(Bytes) /\ SamePlace(b, br)
           /\ b.last_seen_framesync = br.last_seen_framesync
           /\ b.read_limit_set = br.read_limit_set
           /\ br.read_limit_set /\ br.read_limit \in BitsPerWord..(Wrap - 1) =>
                 b.read_limit = br.read_limit - BitsPerWord
  <1> DEFINE limit == (br.read_limit - BitsPerWord) % Wrap
  <1>1. br.read_limit \in Int /\ br.read_limit_set \in BOOLEAN
    BY DEF Readers
  <1>2. limit \in Int
    BY <1>1, Sizes, ReaderAssumption
  <1>3. br.read_limit \in BitsPerWord..(Wrap - 1) => limit = br.read_limit - BitsPerWord
    <2> SUFFICES ASSUME br.read_limit \in BitsPerWord..(Wrap - 1)
                 PROVE  limit = br.read_limit - BitsPerWord
      OBVIOUS
    <2> DEFINE left == br.read_limit - BitsPerWord
    <2>1. left \in 0..(Wrap - 1)
      BY Sizes, ReaderAssumption
    <2> HIDE DEF left
    <2>2. (Wrap * 0 + left) % Wrap = left
      BY <2>1, DivisionIsUnique, ReaderAssumption
    <2>3. Wrap * 0 + left = left
      BY <2>1, ReaderAssumption
    <2> QED
      BY <2>2, <2>3 DEF left
  <1>4. CASE br.read_limit_set
    <2>1. ChargeWord(br) = [br EXCEPT !.read_limit = limit]
      BY <1>4 DEF ChargeWord
    <2> HIDE DEF limit
    <2>2. LET b == [br EXCEPT !.read_limit = limit] IN
           /\ b \in Readers(Bytes) /\ SamePlace(b, br)
           /\ b.last_seen_framesync = br.last_seen_framesync
           /\ b.read_limit_set = br.read_limit_set
           /\ b.read_limit = limit
      BY <1>2 DEF Readers, SamePlace
    <2> QED
      BY <1>3, <2>1, <2>2
  <1>5. CASE ~br.read_limit_set
    <2>1. ChargeWord(br) = br
      BY <1>5 DEF ChargeWord
    <2> QED
      BY <1>5, <2>1 DEF SamePlace
  <1> QED
    BY <1>4, <1>5

-------------------------------------------------------------------------------
(* The running CRC *)

\* Bytes counted in bits
LEMMA ByteSteps ==
    /\ BytesPerWord \in Nat /\ BytesPerWord * BitsPerByte = BitsPerWord
    /\ \A i \in Nat : i * BitsPerByte \in Nat
    /\ \A i \in Nat : i > 0 => i * BitsPerByte = (i - 1) * BitsPerByte + BitsPerByte
    /\ 0 * BitsPerByte = 0
  BY ReaderAssumption DEF BitsPerWord

\* The byte of the buffer that the running CRC takes next
CrcPlace(b) == b.crc16_offset * BytesPerWord + b.crc16_align \div BitsPerByte

\* It is a whole byte, of a word that counts from a byte of it on, and one that is
\* consumed.
CrcBehind(b) ==
    /\ b.crc16_align % BitsPerByte = 0 /\ b.crc16_align < BitsPerWord
    /\ CrcPlace(b) * BitsPerByte <= Consumed(b)

\* Words counted in bytes
LEMMA WordSteps ==
    /\ BitsPerWord \in Nat \ {0}
    /\ \A m \in Nat : m * BitsPerWord \in Nat
    /\ \A m \in Nat : (m + 1) * BitsPerWord = m * BitsPerWord + BitsPerWord
    /\ \A m, n \in Nat : m <= n => m * BitsPerWord <= n * BitsPerWord
  <1>1. PICK d \in Nat \ {0} : d = BitsPerWord
    BY Sizes
  <1>2. /\ \A m \in Nat : m * d \in Nat
        /\ \A m \in Nat : (m + 1) * d = m * d + d
        /\ \A m, n \in Nat : m <= n => m * d <= n * d
    OBVIOUS
  <1> QED
    BY <1>1, <1>2

\* Where the running CRC is when words are counted off
LEMMA PlaceOfCrc ==
    ASSUME NEW Bytes, NEW b \in Readers(Bytes), b.crc16_align < BitsPerWord
    PROVE  /\ b.crc16_align \div BitsPerByte \in 0..(BytesPerWord - 1)
           /\ b.crc16_offset * BytesPerWord \in Nat /\ CrcPlace(b) \in Nat
           /\ b.crc16_offset * BitsPerWord <= CrcPlace(b) * BitsPerByte
           /\ b.crc16_offset \in Nat /\ b.crc16_align \in Nat
  <1> DEFINE o == b.crc16_offset
             q == b.crc16_align \div BitsPerByte
  <1>1. o \in Nat /\ b.crc16_align \in Nat
    BY DEF Readers
  <1>2. q \in Nat /\ q < BytesPerWord
    <2>1. b.crc16_align < BytesPerWord * BitsPerByte
      BY DEF BitsPerWord
    <2> QED
      BY <1>1, <2>1, Division, DivisionIsMonotonic, ReaderAssumption
  <1>3. o * BytesPerWord \in Nat
    BY <1>1, ReaderAssumption
  <1>4. CrcPlace(b) = o * BytesPerWord + q
    BY DEF CrcPlace
  <1> HIDE DEF o, q
  <1>5. (o * BytesPerWord + q) * BitsPerByte = o * BitsPerWord + q * BitsPerByte
    BY <1>1, <1>2, ReaderAssumption DEF BitsPerWord
  <1>6. q * BitsPerByte \in Nat /\ o * BitsPerWord \in Nat
    BY <1>1, <1>2, ByteSteps, WordSteps
  <1> QED
    BY <1>1, <1>2, <1>3, <1>4, <1>5, <1>6, ReaderAssumption DEF o, q

\* What Crc16UpdateBlock takes, and where it leaves the CRC when the words that are
\* consumed are counted off
LEMMA CrcTakesWords ==
    ASSUME NEW Bytes, NEW r \in Readers(Bytes), Sane(r), CrcBehind(r)
    PROVE  LET c == Crc16UpdateBlock(r)
               gone == r.consumed_words * BytesPerWord
           IN
           /\ c.read_crc16 = r.read_crc16 \o BytesOf(r, CrcPlace(r), gone + CrcPlace(c))
           /\ gone \in Nat /\ CrcPlace(c) \in Nat /\ CrcPlace(r) <= gone + CrcPlace(c)
           /\ c.crc16_align % BitsPerByte = 0 /\ c.crc16_align < BitsPerWord
           /\ (gone + CrcPlace(c)) * BitsPerByte <= Consumed(r)
           /\ c.crc16_offset = 0
  <1> DEFINE c == Crc16UpdateBlock(r)
             w == r.consumed_words
             gone == w * BytesPerWord
             o == r.crc16_offset
             q == r.crc16_align \div BitsPerByte
             added == r.read_crc16 \o BytesOf(r, CrcPlace(r), gone)
  <1>1. /\ w \in Nat /\ o \in Nat /\ r.crc16_align \in Nat /\ r.consumed_bits \in Nat
        /\ r.consumed_bits < BitsPerWord /\ r.read_crc16 \in Seq(Bytes)
        /\ r.crc16_align % BitsPerByte = 0 /\ r.crc16_align < BitsPerWord
        /\ CrcPlace(r) * BitsPerByte <= Consumed(r)
    BY DEF Readers, Sane, CrcBehind
  <1>2. /\ q \in 0..(BytesPerWord - 1) /\ o * BytesPerWord \in Nat /\ CrcPlace(r) \in Nat
        /\ o * BitsPerWord <= CrcPlace(r) * BitsPerByte
        /\ CrcPlace(r) = o * BytesPerWord + q
    BY <1>1, PlaceOfCrc DEF CrcPlace
  <1>3. gone \in Nat /\ w * BitsPerWord \in Nat /\ gone * BitsPerByte = w * BitsPerWord
    BY <1>1, ReaderAssumption, Sizes DEF BitsPerWord
  <1>4. Consumed(r) = w * BitsPerWord + r.consumed_bits
    BY DEF Consumed
  <1> HIDE DEF q
  <1>5. CASE w > o
    <2>1. c = [r EXCEPT !.read_crc16 = added, !.crc16_offset = 0, !.crc16_align = 0]
      BY <1>5 DEF Crc16UpdateBlock, CrcPlace
    <2> HIDE DEF c, added, o, w
    <2>2. c.read_crc16 = added /\ c.crc16_offset = 0 /\ c.crc16_align = 0
      BY <2>1 DEF Readers
    <2>3. 0 % BitsPerByte = 0 /\ 0 \div BitsPerByte = 0
      <3>1. 0 \in 0..(BitsPerByte - 1) /\ BitsPerByte * 0 + 0 = 0
        BY ReaderAssumption
      <3>2. /\ (BitsPerByte * 0 + 0) % BitsPerByte = 0
            /\ (BitsPerByte * 0 + 0) \div BitsPerByte = 0
        BY <3>1, DivisionIsUnique, ReaderAssumption
      <3> QED
        BY <3>1, <3>2
    <2>4. CrcPlace(c) = 0
      BY <2>2, <2>3, ReaderAssumption DEF CrcPlace
    <2>5. CrcPlace(r) <= gone
      <3>1. (o + 1) * BytesPerWord <= w * BytesPerWord
        BY <1>1, <1>5, ReaderAssumption
      <3>2. (o + 1) * BytesPerWord = o * BytesPerWord + BytesPerWord
        BY <1>1, ReaderAssumption
      <3> HIDE DEF gone
      <3>3. o * BytesPerWord + BytesPerWord <= gone
        BY <3>1, <3>2 DEF gone
      <3> QED
        BY <1>2, <1>3, <3>3, ReaderAssumption
    <2> HIDE DEF gone
    <2>6. gone + CrcPlace(c) = gone
      BY <1>3, <2>4
    <2>7. gone * BitsPerByte <= Consumed(r)
      BY <1>1, <1>3, <1>4
    <2>8. c.read_crc16 = r.read_crc16 \o BytesOf(r, CrcPlace(r), gone + CrcPlace(c))
      BY <2>2, <2>6 DEF added
    <2> QED
      BY <1>1, <1>3, <2>2, <2>3, <2>4, <2>5, <2>6, <2>7, <2>8, Sizes DEF gone, c, w
  <1>6. CASE ~(w > o)
    <2>1. c = [r EXCEPT !.crc16_offset = 0]
      BY <1>6 DEF Crc16UpdateBlock
    <2> HIDE DEF c
    <2>2. /\ c.read_crc16 = r.read_crc16 /\ c.crc16_offset = 0
          /\ c.crc16_align = r.crc16_align
      BY <2>1 DEF Readers
    <2>3. o = w
      <3>1. o * BitsPerWord < (w + 1) * BitsPerWord
        <4>1. o * BitsPerWord \in Nat /\ CrcPlace(r) * BitsPerByte \in Nat
          BY <1>1, <1>2, ByteSteps, WordSteps
        <4>2. (w + 1) * BitsPerWord = w * BitsPerWord + BitsPerWord
          BY <1>1, WordSteps
        <4>3. w * BitsPerWord \in Nat /\ BitsPerWord \in Nat
          BY <1>1, WordSteps
        <4> DEFINE ow == o * BitsPerWord
                   ww == w * BitsPerWord
                   cp == CrcPlace(r) * BitsPerByte
        <4>4. ow <= cp /\ cp <= ww + r.consumed_bits
          BY <1>1, <1>2, <1>4
        <4>5. ow \in Nat /\ cp \in Nat /\ ww \in Nat
          BY <4>1, <4>3
        <4> HIDE DEF ow, ww, cp
        <4>6. ow < ww + BitsPerWord
          BY <1>1, <4>3, <4>4, <4>5
        <4> QED
          BY <4>2, <4>6 DEF ow, ww
      <3>2. ~(o >= w + 1)
        <4> SUFFICES ASSUME o >= w + 1 PROVE FALSE
          OBVIOUS
        <4>0. w + 1 \in Nat
          BY <1>1
        <4>1. (w + 1) * BitsPerWord <= o * BitsPerWord
          BY <1>1, <4>0, WordSteps
        <4>2. (w + 1) * BitsPerWord \in Nat /\ o * BitsPerWord \in Nat
          BY <1>1, <4>0, WordSteps
        <4> QED
          BY <3>1, <4>1, <4>2
      <3> QED
        BY <1>1, <1>6, <3>2
    <2>4. CrcPlace(c) = q
      BY <1>2, <2>2, ReaderAssumption DEF CrcPlace, q
    <2>5. gone + CrcPlace(c) = CrcPlace(r)
      BY <1>2, <1>3, <2>3, <2>4
    <2>6. BytesOf(r, CrcPlace(r), gone + CrcPlace(c)) = <<>>
      <3> DEFINE p == CrcPlace(r)
      <3>1. 1..(p - p) = 1..0
        BY <1>2
      <3>2. BytesOf(r, p, p) = [i \in 1..0 |-> r.buffer[p + i - 1]]
        BY <3>1 DEF BytesOf
      <3>3. BytesOf(r, p, p) \in Seq({}) /\ Len(BytesOf(r, p, p)) = 0
        BY <3>2
      <3>4. BytesOf(r, p, p) = <<>>
        BY <3>3, EmptySeq
      <3> QED
        BY <2>5, <3>4
    <2>7. r.read_crc16 \o <<>> = r.read_crc16
      BY <1>1
    <2>8. CrcPlace(c) \in Nat
      BY <1>2, <2>4, ReaderAssumption
    <2> HIDE DEF gone, w, o
    <2>9. CrcPlace(r) <= gone + CrcPlace(c)
      BY <1>2, <2>5
    <2>10. (gone + CrcPlace(c)) * BitsPerByte <= Consumed(r)
      BY <1>1, <2>5
    <2>11. c.read_crc16 = r.read_crc16 \o BytesOf(r, CrcPlace(r), gone + CrcPlace(c))
      BY <2>2, <2>6, <2>7
    <2> QED
      BY <1>1, <1>3, <2>2, <2>8, <2>9, <2>10, <2>11 DEF gone, w, c
  <1> QED
    BY <1>5, <1>6

\* No bytes lie between a place and itself.
LEMMA NoBytes ==
    ASSUME NEW r, NEW p \in Nat
    PROVE  BytesOf(r, p, p) = <<>>
  <1>1. 1..(p - p) = 1..0
    OBVIOUS
  <1>2. BytesOf(r, p, p) = [i \in 1..0 |-> r.buffer[p + i - 1]]
    BY <1>1 DEF BytesOf
  <1>3. BytesOf(r, p, p) \in Seq({}) /\ Len(BytesOf(r, p, p)) = 0
    BY <1>2
  <1> QED
    BY <1>3, EmptySeq

\* What shifting takes into the CRC, and where it leaves it in the shifted buffer
LEMMA CrcIsShifted ==
    ASSUME NEW Bytes, NEW r \in Readers(Bytes), Sane(r), CrcBehind(r)
    PROVE  LET b == BeforeRead(r)
               gone == r.consumed_words * BytesPerWord
           IN
           /\ b.read_crc16 = r.read_crc16 \o BytesOf(r, CrcPlace(r), gone + CrcPlace(b))
           /\ gone \in Nat /\ CrcPlace(b) \in Nat /\ CrcPlace(r) <= gone + CrcPlace(b)
           /\ (gone + CrcPlace(b)) * BitsPerByte <= Consumed(r)
           /\ CrcBehind(b)
  <1> DEFINE b == BeforeRead(r)
             c == Crc16UpdateBlock(r)
             gone == r.consumed_words * BytesPerWord
  <1>1. /\ r.consumed_words \in Nat /\ r.read_crc16 \in Seq(Bytes)
        /\ r.crc16_align % BitsPerByte = 0 /\ r.crc16_align < BitsPerWord
        /\ CrcPlace(r) * BitsPerByte <= Consumed(r) /\ CrcPlace(r) \in Nat
    BY PlaceOfCrc DEF Readers, CrcBehind
  <1>2. /\ gone \in Nat /\ Consumed(r) \in Nat
        /\ Consumed(b) = Consumed(r) - gone * BitsPerByte
    BY Shifting, Places
  <1>3. /\ b.read_crc16 = r.read_crc16 \o BytesOf(r, CrcPlace(r), gone + CrcPlace(b))
        /\ CrcPlace(b) \in Nat /\ CrcPlace(r) <= gone + CrcPlace(b)
        /\ (gone + CrcPlace(b)) * BitsPerByte <= Consumed(r)
        /\ b.crc16_align % BitsPerByte = 0 /\ b.crc16_align < BitsPerWord
    <2>1. CASE r.consumed_words = 0
      <3>1. ShiftToFront(r) = r
        BY <2>1 DEF ShiftToFront
      <3>2. /\ b.read_crc16 = r.read_crc16 /\ b.crc16_offset = r.crc16_offset
            /\ b.crc16_align = r.crc16_align
        BY <3>1 DEF BeforeRead, Readers
      <3> HIDE DEF b
      <3>3. CrcPlace(b) = CrcPlace(r)
        BY <3>2 DEF CrcPlace
      <3>4. gone = 0
        BY <2>1, ReaderAssumption
      <3>5. gone + CrcPlace(b) = CrcPlace(r)
        BY <1>1, <3>3, <3>4
      <3>6. BytesOf(r, CrcPlace(r), gone + CrcPlace(b)) = <<>>
        BY <1>1, <3>5, NoBytes
      <3>7. r.read_crc16 \o <<>> = r.read_crc16
        BY <1>1
      <3> HIDE DEF gone
      <3>8. b.read_crc16 = r.read_crc16 \o BytesOf(r, CrcPlace(r), gone + CrcPlace(b))
        BY <3>2, <3>6, <3>7
      <3>9. CrcPlace(b) \in Nat /\ CrcPlace(r) <= gone + CrcPlace(b)
        BY <1>1, <3>3, <3>5
      <3>10. (gone + CrcPlace(b)) * BitsPerByte <= Consumed(r)
        BY <1>1, <3>5
      <3>11. b.crc16_align % BitsPerByte = 0 /\ b.crc16_align < BitsPerWord
        BY <1>1, <3>2
      <3> QED
        BY <3>8, <3>9, <3>10, <3>11
    <2>2. CASE r.consumed_words # 0
      <3> DEFINE shifted == [a \in Addr |->
                     IF a < ((r.words + (IF r.bytes > 0 THEN 1 ELSE 0)) - r.consumed_words)
                                * BytesPerWord
                     THEN r.buffer[a + gone] ELSE r.buffer[a]]
                 s == [c EXCEPT !.buffer = shifted,
                                !.words = @ - r.consumed_words, !.consumed_words = 0]
      <3>1. ShiftToFront(r) = s
        BY <2>2 DEF ShiftToFront
      <3>2. c \in Readers(Bytes)
        BY CrcUpdateKeepsPlace
      <3>3. /\ c.read_crc16 = r.read_crc16 \o BytesOf(r, CrcPlace(r), gone + CrcPlace(c))
            /\ CrcPlace(c) \in Nat /\ CrcPlace(r) <= gone + CrcPlace(c)
            /\ c.crc16_align % BitsPerByte = 0 /\ c.crc16_align < BitsPerWord
            /\ (gone + CrcPlace(c)) * BitsPerByte <= Consumed(r)
        BY CrcTakesWords
      <3> HIDE DEF shifted, c
      <3>4. /\ s.read_crc16 = c.read_crc16 /\ s.crc16_offset = c.crc16_offset
            /\ s.crc16_align = c.crc16_align
            /\ DOMAIN s = DOMAIN c /\ DOMAIN c =
                 {"buffer", "words", "bytes", "consumed_words", "consumed_bits",
                  "read_crc16", "crc16_offset", "crc16_align", "read_limit_set",
                  "read_limit", "last_seen_framesync"}
        BY <3>2 DEF Readers
      <3> HIDE DEF s
      <3>5. b = [s EXCEPT !.last_seen_framesync = None]
        BY <3>1 DEF BeforeRead
      <3>6. /\ b.read_crc16 = s.read_crc16 /\ b.crc16_offset = s.crc16_offset
            /\ b.crc16_align = s.crc16_align
        BY <3>4, <3>5
      <3> HIDE DEF b
      <3>7. CrcPlace(b) = CrcPlace(c)
        BY <3>4, <3>6 DEF CrcPlace
      <3> QED
        BY <3>3, <3>4, <3>6, <3>7
    <2> QED
      BY <1>1, <2>1, <2>2
  <1> HIDE DEF b, gone
  <1>4. CrcPlace(b) * BitsPerByte <= Consumed(b)
    <2> DEFINE p == CrcPlace(b)
    <2>1. p \in Nat
      BY <1>3
    <2> HIDE DEF p
    <2>2. (gone + p) * BitsPerByte = gone * BitsPerByte + p * BitsPerByte
      BY <1>2, <2>1, ReaderAssumption
    <2>3. gone * BitsPerByte \in Nat /\ p * BitsPerByte \in Nat
      BY <1>2, <2>1, ByteSteps
    <2>4. gone * BitsPerByte + p * BitsPerByte <= Consumed(r)
      BY <1>3, <2>2 DEF p
    <2>5. p * BitsPerByte <= Consumed(b)
      BY <1>2, <2>3, <2>4
    <2> QED
      BY <2>5 DEF p
  <1>5. CrcBehind(b)
    BY <1>3, <1>4 DEF CrcBehind
  <1> QED
    BY <1>2, <1>3, <1>5 DEF b, gone

\* What the client stores is behind the running CRC.
LEMMA RefillingKeepsCrc ==
    ASSUME NEW Bytes, NEW b \in Readers(Bytes), NEW data
    PROVE  \A f \in {Filled(b, data), NotFilled(b, data)} :
              /\ f.read_crc16 = b.read_crc16
              /\ f.crc16_offset = b.crc16_offset /\ f.crc16_align = b.crc16_align
  <1>1. \A x, y, z :
          LET f == [b EXCEPT !.buffer = x, !.words = y, !.bytes = z]
              g == [b EXCEPT !.buffer = x]
          IN /\ f.read_crc16 = b.read_crc16
             /\ f.crc16_offset = b.crc16_offset /\ f.crc16_align = b.crc16_align
             /\ g.read_crc16 = b.read_crc16
             /\ g.crc16_offset = b.crc16_offset /\ g.crc16_align = b.crc16_align
    BY DEF Readers
  <1>2. LET f == Filled(b, data) IN
          /\ f.read_crc16 = b.read_crc16
          /\ f.crc16_offset = b.crc16_offset /\ f.crc16_align = b.crc16_align
    BY <1>1 DEF Filled
  <1>3. LET f == NotFilled(b, data) IN
          /\ f.read_crc16 = b.read_crc16
          /\ f.crc16_offset = b.crc16_offset /\ f.crc16_align = b.crc16_align
    BY <1>1 DEF NotFilled
  <1> QED
    BY <1>2, <1>3

\* Bytes of the buffer, read in two goes
LEMMA BytesJoin ==
    ASSUME NEW Bytes, NEW r \in Readers(Bytes), NEW i \in Nat, NEW j \in Nat, NEW k \in Nat,
           i <= j, j <= k, k <= BufferBytes
    PROVE  BytesOf(r, i, j) \o BytesOf(r, j, k) = BytesOf(r, i, k)
  <1> DEFINE x == BytesOf(r, i, j)
             y == BytesOf(r, j, k)
             z == BytesOf(r, i, k)
  <1>1. BufferBytes \in Nat
    BY Sizes
  <1>2. x \in Seq(Bytes) /\ y \in Seq(Bytes) /\ z \in Seq(Bytes)
    BY <1>1, BytesAreThere
  <1>3. /\ Len(x) = j - i /\ \A m \in 1..(j - i) : x[m] = r.buffer[i + m - 1]
        /\ Len(y) = k - j /\ \A m \in 1..(k - j) : y[m] = r.buffer[j + m - 1]
        /\ Len(z) = k - i /\ \A m \in 1..(k - i) : z[m] = r.buffer[i + m - 1]
    BY DEF BytesOf
  <1> HIDE DEF x, y, z
  <1>4. x \o y \in Seq(Bytes) /\ Len(x \o y) = k - i
    <2>1. x \o y \in Seq(Bytes) /\ Len(x \o y) = Len(x) + Len(y)
      BY <1>2
    <2>2. (j - i) + (k - j) = k - i
      OBVIOUS
    <2> QED
      BY <1>3, <2>1, <2>2
  <1>5. ASSUME NEW m \in 1..(k - i) PROVE (x \o y)[m] = z[m]
    <2>1. CASE m <= j - i
      BY <1>2, <1>3, <2>1
    <2>2. CASE ~(m <= j - i)
      <3>1. m - (j - i) \in 1..(k - j) /\ j + (m - (j - i)) - 1 = i + m - 1
        BY <2>2
      <3>2. (x \o y)[m] = y[m - (j - i)]
        BY <1>2, <1>3, <2>2
      <3> QED
        BY <1>3, <3>1, <3>2
    <2> QED
      BY <2>1, <2>2
  <1>6. x \o y = z
    BY <1>2, <1>3, <1>4, <1>5, SeqEqual
  <1> QED
    BY <1>6 DEF x, y, z

\* The CRC that is asked for takes what the running one has left out, up to the byte that
\* is read next.
LEMMA CrcTakesBytes ==
    ASSUME NEW Bytes, NEW r \in Readers(Bytes), Sane(r), CrcBehind(r), ByteAligned(r),
           NEW p \in Nat, p * BitsPerByte = Consumed(r)
    PROVE  /\ GetReadCrc16(r).read_crc16 = r.read_crc16 \o BytesOf(r, CrcPlace(r), p)
           /\ CrcPlace(r) \in Nat /\ CrcPlace(r) <= p
  <1> DEFINE c == Crc16UpdateBlock(r)
             gone == r.consumed_words * BytesPerWord
             from == gone + CrcPlace(c)
             q == r.consumed_bits \div BitsPerByte
  <1>1. /\ r.consumed_words \in Nat /\ r.consumed_bits \in Nat
        /\ r.consumed_bits % BitsPerByte = 0 /\ r.read_crc16 \in Seq(Bytes)
        /\ r.crc16_align < BitsPerWord
    BY DEF Readers, ByteAligned, CrcBehind
  <1>2. CrcPlace(r) \in Nat
    BY <1>1, PlaceOfCrc
  <1>3. gone + q = p
    <2>1. q \in Nat /\ r.consumed_bits = q * BitsPerByte
      <3>1. \A n \in Nat : n % BitsPerByte = 0 =>
                /\ n \div BitsPerByte \in Nat /\ n = (n \div BitsPerByte) * BitsPerByte
        <4> SUFFICES ASSUME NEW n \in Nat, n % BitsPerByte = 0
                     PROVE  /\ n \div BitsPerByte \in Nat
                            /\ n = (n \div BitsPerByte) * BitsPerByte
          OBVIOUS
        <4>1. /\ n \div BitsPerByte \in Nat
              /\ n = BitsPerByte * (n \div BitsPerByte) + (n % BitsPerByte)
          BY Division, ReaderAssumption
        <4>2. PICK m \in Nat : m = n \div BitsPerByte
          BY <4>1
        <4>3. n = m * BitsPerByte
          BY <4>1, <4>2, ReaderAssumption
        <4> QED
          BY <4>2, <4>3
      <3> QED
        BY <1>1, <3>1
    <2>2. gone \in Nat /\ gone * BitsPerByte = r.consumed_words * BitsPerWord
      BY <1>1, ReaderAssumption DEF BitsPerWord
    <2> HIDE DEF gone, q
    <2>3. (gone + q) * BitsPerByte = p * BitsPerByte
      BY <2>1, <2>2, ReaderAssumption DEF Consumed
    <2>4. \A j, k \in Nat : j * BitsPerByte = k * BitsPerByte => j = k
      BY ReaderAssumption
    <2> QED
      BY <2>1, <2>2, <2>3, <2>4
  <1>4. /\ c.read_crc16 = r.read_crc16 \o BytesOf(r, CrcPlace(r), from)
        /\ gone \in Nat /\ CrcPlace(c) \in Nat /\ CrcPlace(r) <= from
        /\ from * BitsPerByte <= Consumed(r)
        /\ c.crc16_offset = 0
    BY CrcTakesWords
  <1>5. c \in Readers(Bytes) /\ SamePlace(c, r)
    BY CrcUpdateKeepsPlace
  <1> HIDE DEF c
  <1>6. /\ c.buffer = r.buffer /\ c.consumed_words = r.consumed_words
        /\ c.consumed_bits = r.consumed_bits
    BY <1>5 DEF SamePlace
  <1>7. CrcPlace(c) = c.crc16_align \div BitsPerByte
    <2>1. c.crc16_align \div BitsPerByte \in Nat
      <3>1. c.crc16_align \in Nat
        BY <1>5 DEF Readers
      <3> QED
        BY <3>1, Division, ReaderAssumption
    <2> QED
      BY <1>4, <2>1, ReaderAssumption DEF CrcPlace
  <1>8. GetReadCrc16(r).read_crc16 = c.read_crc16 \o BytesOf(r, from, p)
    <2>1. \A x, y : [c EXCEPT !.read_crc16 = x, !.crc16_align = y].read_crc16 = x
      BY <1>5 DEF Readers
    <2>2. BytesOf(c, from, p) = BytesOf(r, from, p)
      BY <1>6 DEF BytesOf
    <2>3. GetReadCrc16(r).read_crc16
              = c.read_crc16 \o BytesOf(c, gone + c.crc16_align \div BitsPerByte, gone + q)
      BY <1>6, <2>1 DEF GetReadCrc16, c
    <2> QED
      BY <1>3, <1>7, <2>2, <2>3
  <1> HIDE DEF gone, q
  <1>9. from \in Nat
    BY <1>4
  <1> HIDE DEF from
  <1>10. from <= p
    <2>1. \A j, k \in Nat : j * BitsPerByte <= k * BitsPerByte => j <= k
      BY ReaderAssumption
    <2> QED
      BY <1>4, <1>9, <2>1
  <1>11. p <= BufferBytes
    <2>1. /\ Consumed(r) <= Available(r) * BitsPerByte /\ Available(r) <= BufferBytes
          /\ Available(r) \in Nat /\ BufferBytes \in Nat
      BY Places, Sizes DEF Sane
    <2>2. \A j, k \in Nat : j * BitsPerByte <= k * BitsPerByte => j <= k
      BY ReaderAssumption
    <2> QED
      BY <2>1, <2>2
  <1>12. BytesOf(r, CrcPlace(r), from) \o BytesOf(r, from, p) = BytesOf(r, CrcPlace(r), p)
    BY <1>2, <1>4, <1>9, <1>10, <1>11, BytesJoin
  <1>13. /\ BytesOf(r, CrcPlace(r), from) \in Seq(Bytes)
         /\ BytesOf(r, from, p) \in Seq(Bytes)
    <2>1. BufferBytes \in Nat
      BY Sizes
    <2>2. from <= BufferBytes
      BY <1>9, <1>10, <1>11, <2>1
    <2> QED
      BY <1>2, <1>9, <1>11, <2>2, BytesAreThere
  <1> DEFINE x == BytesOf(r, CrcPlace(r), from)
             y == BytesOf(r, from, p)
             z == r.read_crc16
  <1>14. x \in Seq(Bytes) /\ y \in Seq(Bytes) /\ z \in Seq(Bytes)
    BY <1>1, <1>13
  <1> HIDE DEF x, y, z
  <1>15. (z \o x) \o y = z \o (x \o y)
    BY <1>14
  <1>16. GetReadCrc16(r).read_crc16 = z \o BytesOf(r, CrcPlace(r), p)
    BY <1>4, <1>8, <1>12, <1>15 DEF x, y, z
  <1> QED
    BY <1>2, <1>4, <1>9, <1>10, <1>16 DEF z

===============================================================================
