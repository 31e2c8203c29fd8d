--------------------------- MODULE MCStreamDecoder ----------------------------
(***************************************************************************)
(* Streams for StreamDecoder, and what may become of their files.          *)
(***************************************************************************)
EXTENDS StreamDecoder

Frame(size, body, hints) ==
    [size |-> size, body |-> body, hints |-> hints, verbatim |-> FALSE, future |-> FALSE]
Body(f, n) == [i \in 1..n |-> Byte("body", f, i)]

\* Two full frames and a short one that gives its block size.
Plain == <<Frame(4, Body(1, 2), 0), Frame(4, Body(2, 1), 0),
           Frame(3, Body(3, 1), 1)>>

\* The subframes of a frame hold a sync, or the first byte of one at their end; a
\* frame is from the future.
Syncs == <<Frame(4, <<FF, FF, Sync2, Other>>, 0), Frame(4, <<Other, FF>>, 0),
           Frame(2, Body(3, 1), 1)>>
Odd == <<Frame(4, Body(1, 1), 0), [Frame(4, <<FF, Sync2>>, 0) EXCEPT !.future = TRUE],
         Frame(4, Body(3, 1), 0)>>

\* A frame that is larger than the bit reader's buffer.
Large == <<Frame(4, Body(1, 1), 0),
           [Frame(4, Body(2, 14), 0) EXCEPT !.verbatim = TRUE]>>

\* Frames of two and of four samples, of which three can be lost.
Short == [f \in 1..5 |-> Frame(2, Body(f, 1), 0)]
Long == [f \in 1..5 |-> Frame(4, Body(f, 1), 0)]

\* Files that end anywhere in the buffer.
Ending(n) == <<Frame(4, Body(1, 1), 0), Frame(4, Body(2, n), 0)>>

Cut(s, n) == SubSeq(s, 1, n)
Drop(s, from, to) == SubSeq(s, 1, from - 1) \o SubSeq(s, to + 1, Len(s))

Damaged(s) ==
    {s}
    \cup {Cut(s, n) : n \in 0..Len(s)}
    \cup {Drop(s, i, i + k) : i \in 1..(Len(s) - 2), k \in 0..2}
    \cup {[s EXCEPT ![i] = b] : i \in 1..Len(s), b \in {FF, Other}}
    \cup {InsertAt(s, i, FF) : i \in 1..Len(s)}

Input(frames, file) == [frames |-> frames, file |-> file]

Missing(frames, lost) ==
    Metadata \o FlattenSeq([f \in 1..Len(frames) |->
                            IF f \in lost THEN <<>> ELSE Whole(frames, f)])

MCInputs ==
    UNION {{Input(frames, s) : s \in Damaged(Stream(frames))} : frames \in {Plain, Syncs, Large}}
    \cup {Input(Plain, SubSeq(Stream(Plain), Len(Metadata) + 1, Len(Stream(Plain)))),
          Input(Plain, Missing(Plain, {2})),
          Input(Plain, Tail(Stream(Plain)))}
    \cup {Input(Ending(n), Stream(Ending(n))) : n \in 1..12}
    \cup {Input(Odd, Stream(Odd))}
    \cup {Input(Short, Missing(Short, 2..4)), Input(Long, Missing(Long, 2..4)),
          Input(Long, Missing(Long, {2, 4}))}

\* A file that ends in a frame that is larger than the buffer.
EndlessInputs == {Input(Large, Cut(Stream(Large), n)) : n \in 20..Len(Stream(Large))}
===============================================================================
