------------------------------ MODULE RiceBlock -------------------------------
(***************************************************************************)
(* FLAC__bitreader_read_rice_signed_block, through which nearly all of a   *)
(* stream is read.  It keeps its place in registers (the word it is in,    *)
(* the bits left of it, the word shifted to its first unconsumed bit) as   *)
(* long as whole words are in the buffer; when they run out, in the middle *)
(* of a unary part or of a binary one, it puts its place back into the     *)
(* reader, goes on with the functions that may call the client, and        *)
(* returns to the registers when whole words are there again.              *)
(*                                                                         *)
(* A value is kept as its two parts: msbs, a number, and lsbs, bits.       *)
(***************************************************************************)
EXTENDS BitClient

CONSTANTS
    Parameters,     \* rice parameters
    BlockSizes      \* bound: numbers of values in a block

ASSUME RiceAssumption == Parameters \subseteq 0..(BitsPerWord - 1)

VARIABLES
    reg,            \* the registers of the function, and where it is
    parameter, nvals, vals,
    start           \* the bit of the stream the block begins at

args == <<parameter, nvals>>
riceVars == <<stream, fed, br, reg, args, vals, start>>

NoBits == [i \in 1..BitsPerWord |-> 0]

\* A word as its bits, from the most significant one; shifts to the left
Word(b, i) == [k \in 1..BitsPerWord |-> BitAt(b, i * BitsPerWord + k - 1)]
Shifted(w, n) ==
    [k \in 1..BitsPerWord |-> IF k + n <= BitsPerWord THEN w[k + n] ELSE 0]

\* COUNT_ZERO_MSBS2: the width of the word when it is 0
CountZeroMsbs(w) ==
    CHOOSE n \in 0..BitsPerWord :
        /\ \A k \in 1..n : w[k] = 0
        /\ n < BitsPerWord => w[n + 1] = 1

\* UINT32_MAX >> parameter
MsbsLimit == (Wrap - 1) \div 2 ^ parameter

RiceInit ==
    /\ stream \in Streams /\ fed = 0 /\ br = NewReader
    /\ reg = [pc |-> "before", cwords |-> 0, ucbits |-> 0, b |-> NoBits,
              x |-> 0, msbs |-> 0, bits |-> <<>>]
    /\ parameter \in Parameters /\ nvals \in BlockSizes /\ vals = <<>> /\ start = 0

\* The client delivers n bytes, or fails and with it the block.
Deliver(n) ==
    LET b == BeforeRead(br) IN
    /\ n \in 1..SpaceLeft(b) /\ fed + n <= Len(stream)
    /\ br' = [Filled(b, SubSeq(stream, fed + 1, fed + n)) EXCEPT !.read_crc16 = <<>>]
    /\ fed' = fed + n
    /\ UNCHANGED <<stream, reg, args, vals, start>>

\* The part of the frame before the block, of any length
Before(n) ==
    /\ reg.pc = "before"
    /\ \/ \E bytes \in 1..(Capacity * BytesPerWord) : Deliver(bytes)
       \/ /\ n \in 0..Unconsumed(br)
          /\ br' = Consume(br, n)
          /\ start' = Position + n
          /\ reg' = [reg EXCEPT !.pc = "enter"]
          /\ UNCHANGED <<stream, fed, args, vals>>

-------------------------------------------------------------------------------
(* In the registers *)

\* Mutant: the bits of the head word consumed before are not shifted out.
FromReaderUnshifted(r) ==
    [r EXCEPT !.cwords = br.consumed_words,
              !.ucbits = BitsPerWord - br.consumed_bits,
              !.b = IF br.consumed_words < Capacity
                    THEN Word(br, br.consumed_words) ELSE NoBits]

FromReader(r) ==
    [r EXCEPT !.cwords = br.consumed_words,
              !.ucbits = BitsPerWord - br.consumed_bits,
              !.b = IF br.consumed_words < Capacity
                    THEN Shifted(Word(br, br.consumed_words), br.consumed_bits)
                    ELSE NoBits]

\* Mutant: the place is put back one word too early.
ToReaderStale(r) ==
    [br EXCEPT !.consumed_words = r.cwords - 1, !.consumed_bits = 0]

\* incomplete_msbs, incomplete_lsbs: all whole words are consumed
ToReader(r) == [br EXCEPT !.consumed_words = r.cwords, !.consumed_bits = 0]

\* Where the loop goes on: in the registers when there is a whole word.
AtLoopHead(r) ==
    [FromReader(r) EXCEPT !.x = 0, !.msbs = 0, !.bits = <<>>,
        !.pc = IF parameter > 0 /\ br.consumed_words < br.words
               THEN "msbs" ELSE "tailMsbs"]

\* A block of no values that begins at the tail is read like one of one value.
Enter ==
    /\ reg.pc = "enter"
    /\ reg' = IF parameter = 0 /\ nvals = 0 THEN [reg EXCEPT !.pc = "done"]
              ELSE AtLoopHead(reg)
    /\ UNCHANGED <<stream, fed, br, args, vals, start>>

\* The stop bit is n bits into the word, the unary part x zeros long.
StopBitAt(r, n, x) ==
    [r EXCEPT !.pc = IF x > MsbsLimit THEN "failed" ELSE "lsbs",
              !.b = Shifted(r.b, n + 1), !.msbs = x,
              !.ucbits = (r.ucbits - x - 1) % BitsPerWord]

Msbs ==
    /\ reg.pc = "msbs" /\ Len(vals) < nvals
    /\ LET n == CountZeroMsbs(reg.b) IN
       reg' = IF n < BitsPerWord THEN StopBitAt(reg, n, n)
              ELSE [reg EXCEPT !.pc = "nextWord", !.x = reg.ucbits]
    /\ UNCHANGED <<stream, fed, br, args, vals, start>>

\* The unary part goes on in the next word, if that is whole.
NextWord ==
    /\ reg.pc = "nextWord"
    /\ LET r == [reg EXCEPT !.cwords = @ + 1] IN
       IF r.cwords >= br.words
       THEN reg' = [r EXCEPT !.pc = "tailMsbs"] /\ br' = ToReader(r)
       ELSE LET w == Word(br, r.cwords)
                n == CountZeroMsbs(w)
            IN /\ reg' = IF n < BitsPerWord
                         THEN StopBitAt([r EXCEPT !.b = w], n, r.x + n)
                         ELSE [r EXCEPT !.x = @ + n]
               /\ UNCHANGED br
    /\ UNCHANGED <<stream, fed, args, vals, start>>

Emit(msbs, lsbs) == vals' = Append(vals, [msbs |-> msbs, lsbs |-> lsbs])

\* The binary part is in the word, or ends in the next one, if that is whole.
Lsbs ==
    /\ reg.pc = "lsbs"
    /\ IF parameter <= reg.ucbits
       THEN /\ Emit(reg.msbs, SubSeq(reg.b, 1, parameter))
            /\ reg' = [reg EXCEPT !.pc = "msbs", !.ucbits = @ - parameter,
                                  !.b = Shifted(@, parameter)]
            /\ UNCHANGED br
       ELSE LET r == [reg EXCEPT !.cwords = @ + 1]
                here == SubSeq(reg.b, 1, reg.ucbits)
                there == parameter - reg.ucbits
            IN IF r.cwords >= br.words
               THEN /\ reg' = [r EXCEPT !.pc = "tailLsbs", !.bits = here]
                    /\ br' = ToReader(r) /\ UNCHANGED vals
               ELSE LET w == Word(br, r.cwords) IN
                    /\ Emit(reg.msbs, here \o SubSeq(w, 1, there))
                    /\ reg' = [r EXCEPT !.pc = "msbs",
                                        !.ucbits = BitsPerWord - there,
                                        !.b = Shifted(w, there)]
                    /\ UNCHANGED br
    /\ UNCHANGED <<stream, fed, args, start>>

-------------------------------------------------------------------------------
(* At the tail, and all of a block with parameter 0 *)

\* read_unary_unsigned: up to the first one bit, or all zeros there are
TailUnary ==
    /\ reg.pc = "tailMsbs" /\ Unconsumed(br) > 0
    /\ LET ones == {n \in 1..Unconsumed(br) : NextBits(br, n)[n] = 1} IN
       IF ones = {}
       THEN /\ reg' = [reg EXCEPT !.x = @ + Unconsumed(br)]
            /\ br' = Consume(br, Unconsumed(br))
       ELSE LET n == CHOOSE m \in ones : \A k \in ones : m <= k IN
            /\ reg' = [reg EXCEPT !.pc = "tailLsbs", !.x = 0, !.bits = <<>>,
                                  !.msbs = reg.x + n - 1]
            /\ br' = Consume(br, n)
    /\ UNCHANGED <<stream, fed, args, vals, start>>

\* read_raw_uint32 of the bits of the binary part that are not there yet, and
\* back to the registers when there is a whole word again.
TailBits ==
    LET n == parameter - Len(reg.bits) IN
    /\ reg.pc = "tailLsbs" /\ Unconsumed(br) >= n
    /\ Emit(reg.msbs, reg.bits \o NextBits(br, n))
    /\ br' = Consume(br, n)
    /\ reg' = [reg EXCEPT !.pc = "reload"]
    /\ UNCHANGED <<stream, fed, args, start>>

Reload ==
    /\ reg.pc = "reload"
    /\ reg' = IF Len(vals) < nvals THEN AtLoopHead(reg)
              ELSE [AtLoopHead(reg) EXCEPT !.pc = IF parameter = 0 THEN "done"
                                                 ELSE "finish"]
    /\ UNCHANGED <<stream, fed, br, args, vals, start>>

\* bitreader_read_from_client_ for either; the block fails if the client does.
TailRefill ==
    /\ \/ reg.pc = "tailMsbs" /\ Unconsumed(br) = 0
       \/ reg.pc = "tailLsbs" /\ Unconsumed(br) < parameter - Len(reg.bits)
    /\ \/ \E n \in 1..(Capacity * BytesPerWord) : Deliver(n)
       \/ /\ reg' = [reg EXCEPT !.pc = "failed"]
          /\ UNCHANGED <<stream, fed, br, args, vals, start>>

\* The head word is not left without unconsumed bits.
NextHead(r) ==
    IF r.ucbits = 0 /\ r.cwords < br.words
    THEN [r EXCEPT !.cwords = @ + 1, !.ucbits = BitsPerWord] ELSE r

Finish ==
    /\ \/ reg.pc = "msbs" /\ Len(vals) >= nvals
       \/ reg.pc = "finish"
    /\ LET r == NextHead(reg) IN
       /\ reg' = [r EXCEPT !.pc = "done"]
       /\ br' = [br EXCEPT !.consumed_words = r.cwords,
                          !.consumed_bits = BitsPerWord - r.ucbits]
    /\ UNCHANGED <<stream, fed, args, vals, start>>

Returned == reg.pc \in {"done", "failed"} /\ UNCHANGED riceVars

Step ==
    \/ Enter \/ Msbs \/ NextWord \/ Lsbs
    \/ TailUnary \/ TailBits \/ TailRefill \/ Reload \/ Finish

RiceNext == (\E n \in 0..(Capacity * BitsPerWord) : Before(n)) \/ Step \/ Returned

RiceSpec == RiceInit /\ [][RiceNext]_riceVars

-------------------------------------------------------------------------------
(* Properties *)

Length(v) == v.msbs + 1 + parameter
\* Each value begins right behind the one before; the last entry is for the next.
Starts ==
    LET at[k \in 1..(Len(vals) + 1)] ==
            IF k = 1 THEN start ELSE at[k - 1] + Length(vals[k - 1])
    IN  at

\* However the client splits the stream, and wherever the words end: the values
\* are the ones the stream has from where the block begins, each msbs zeros, a
\* one and its binary part, the next one right behind.
ValuesAreTheStream ==
    \A k \in 1..Len(vals) :
        LET at == Starts[k] IN
        /\ \A i \in 0..(vals[k].msbs - 1) : StreamBit(at + i) = 0
        /\ StreamBit(at + vals[k].msbs) = 1
        /\ Len(vals[k].lsbs) = parameter
        /\ \A i \in 1..parameter :
              vals[k].lsbs[i] = StreamBit(at + vals[k].msbs + i)

\* When the registers are put back the reader stands behind the last value, and
\* no word without unconsumed bits is its head.
ReaderStandsBehindBlock ==
    reg.pc = "done" =>
        /\ Position = Starts[Len(vals) + 1]
        /\ br.consumed_words <= br.words /\ br.consumed_bits < BitsPerWord

\* What the assertion of the caller says, that a partition may be as short as
\* the predictor and so have no residual to read: no value too many is read.
NoValueTooMany == Len(vals) <= nvals
===============================================================================
