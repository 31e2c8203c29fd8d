----------------------------- MODULE MCRiceBlock ------------------------------
(***************************************************************************)
(* Words of two bytes of two bits, a buffer of two words, and every stream *)
(* of four such bytes and a stop bit: every value of a register word and   *)
(* every split of a value over words and refills occurs.                   *)
(***************************************************************************)
EXTENDS RiceBlock

TwoBits == [1..2 -> {0, 1}]
MCStreams == {s \o <<<<1, 0>>>> : s \in [1..4 -> TwoBits]}
===============================================================================
