----------------------------- MODULE MCBitReader ------------------------------
(***************************************************************************)
(* Words of two bytes of two bits and a buffer of two words: streams of up *)
(* to five bytes fill it more than twice, and every split of a read over   *)
(* words, refills and the odd tail word occurs.                            *)
(***************************************************************************)
EXTENDS BitReaderUse

B(v) == <<v \div 2, v % 2>>
MCStreams == {<<B(1), B(2), B(0), B(3), B(1)>>, <<B(0), B(0), B(3), B(2)>>}
MCOneStream == {<<B(1), B(2), B(0), B(3), B(1)>>}
===============================================================================
