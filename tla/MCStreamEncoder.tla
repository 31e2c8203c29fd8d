---------------------------- MODULE MCStreamEncoder ----------------------------
(***************************************************************************)
(* Encodes for StreamEncoder, of samples of two bits.                        *)
(***************************************************************************)
EXTENDS StreamEncoder

Sample == -2..1
Corner == {<<0, 0>>, <<-2, 0>>, <<1, -2>>, <<-2, 1>>}

Encode(songs, readsizes, stereos, writemodes, rooms) ==
    [song : songs, readsize : readsizes, stereo : stereos,
     writemode : writemodes, room : rooms]
Stereos == {"independent", "loose", "full"}

\* Blocks with and without wasted bits and what follows them
Four == <<<<-2, 0>>, <<0, -2>>, <<1, 1>>, <<1, -2>>>>
Five == <<<<1, 0>>, <<-1, -2>>, <<0, 0>>, <<-2, 1>>, <<-1, -1>>>>
Nine == <<<<0, 1>>, <<-2, -2>>, <<0, 0>>, <<0, 0>>, <<1, 0>>, <<-1, 1>>, <<0, -2>>,
          <<-2, -2>>, <<1, -1>>>>
TooLarge == <<<<1, 0>>, <<0, 0>>, <<0, 1>>, <<2, 1>>>>

\* Every pair of samples; every three of some that wasted bits are sensitive to; all
\* ways to cut a song into reads; full cards; output to SRAM; more frames than keep
\* one loose assignment.
MCEncodes ==
    Encode({<<p>> : p \in Sample \X Sample}, {1}, {"full"}, {"card"}, {9})
    \cup Encode({<<p, q, r>> : p, q, r \in Corner}, {2}, Stereos, {"card"}, {30})
    \cup Encode({Five}, 1..5, Stereos, {"card"}, {30})
    \cup Encode({<<>>, Four}, {4}, {"loose"}, {"card"}, 0..11)
    \cup Encode({Four, TooLarge}, {3}, Stereos, {"sram"}, {30})
    \cup Encode({Nine}, {4}, {"loose", "independent"}, {"card"}, {30})
===============================================================================
