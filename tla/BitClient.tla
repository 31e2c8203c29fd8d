------------------------------- MODULE BitClient -------------------------------
(***************************************************************************)
(* BitReader with the client that delivers a stream to it: what it has,    *)
(* how far it is, and the reader.                                          *)
(***************************************************************************)
EXTENDS BitReader

CONSTANT Streams    \* what a stream may hold: sequences of bytes

ASSUME StreamAssumption ==
    \A s \in Streams : s \in Seq([1..BitsPerByte -> {0, 1}])

VARIABLES
    stream,     \* what the client has
    fed,        \* the byte of it that the client delivers next
    br          \* the reader

\* get_decode_position: what the client delivered less what is unconsumed
Position == fed * BitsPerByte - Unconsumed(br)

StreamBit(p) == stream[(p \div BitsPerByte) + 1][(p % BitsPerByte) + 1]
===============================================================================
