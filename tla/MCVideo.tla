------------------------------ MODULE MCVideo -------------------------------
(* Lossy videos of up to five frames of two pixels and one of chroma, lossless ones  *)
(* of up to ten, with groups of any length, and videos with a frame the image codec   *)
(* misreads; blocks of one pixel.                                                     *)
EXTENDS Video

F(y1, y2, c) == [y |-> <<y1, y2>>, c |-> <<c>>]

Lossy(frames, gop) ==
  [frames |-> frames, gop |-> gop, quality |-> 1, odd |-> FALSE, misread |-> {}]

Still == <<F(3, 3, 4), F(3, 3, 4), F(3, 3, 4), F(3, 3, 4), F(3, 3, 4)>>
Moving == <<F(1, 5, 2), F(5, 1, 3), F(5, 4, 3), F(6, 2, 6), F(2, 6, 5)>>
Cut == <<F(0, 0, 0), F(7, 7, 7), F(7, 6, 7), F(6, 6, 7), F(0, 1, 0)>>
Pan == [i \in 1 .. 5 |-> F(i, i + 1, 4)]

\* Only the chroma changes, by less than half its range.
Fading == [i \in 1 .. 7 |-> F(3, 3, IF i <= 4 THEN i ELSE 9 - i)]

Exact(frames, gop, odd) ==
  [frames |-> frames, gop |-> gop, quality |-> 0, odd |-> odd, misread |-> {}]

\* Frames of one pixel and one of chroma, some of them misread
Tall == [i \in 1 .. 3 |-> [y |-> <<i>>, c |-> <<4>>]]

Misreading(n, gop, misread) ==
  [frames |-> SubSeq(Tall, 1, n), gop |-> gop, quality |-> 1, odd |-> FALSE, misread |-> misread]

Wide(v) == [y |-> [i \in 1 .. 8 |-> (i * v) % 8], c |-> <<v, v>>]

MCVideos ==
  {Lossy(Moving, 3), Lossy(Moving, 4), Lossy(Cut, 3)}
  \union {Lossy(SubSeq(f, 1, 4), g) : f \in {Still, Moving, Cut}, g \in {1, 2, 7}}
  \union {Exact(Moving \o SubSeq(Pan, 1, n), g, FALSE) : n \in 0 .. 5, g \in {0, 1, 2, 3, 4, 5, 9}}
  \union {Exact(Fading, g, FALSE) : g \in 1 .. 7}
  \union {Exact(Pan, 3, TRUE), Exact(<<>>, 0, TRUE)}
  \union {Misreading(3, 2, m) : m \in {{1}, {2}, {3}}} \union {Misreading(3, 9, {2})}
  \union {Exact([i \in 1 .. n |-> Wide(i)], 4, FALSE) : n \in {1, 2, 3}}
=============================================================================
