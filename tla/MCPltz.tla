------------------------------ MODULE MCPltz -------------------------------
(***************************************************************************)
(* Small instances of Pltz.                                                *)
(***************************************************************************)
EXTENDS Pltz

FileOf(cells) ==
  [len |-> Len(cells), cell |-> [i \in 0 .. Len(cells) - 1 |-> cells[i + 1]]]

\* Every file of up to n cells over an alphabet.
FilesUpTo(n, alphabet) ==
  UNION {{[len |-> k, cell |-> c] : c \in [0 .. k - 1 -> alphabet]} : k \in 0 .. n}

\* Cells 0, 1 and 7 are constant, 256 is a ramp, 512 and 513 are incompressible.
AllShort == FilesUpTo(4, {0, 1, 7, 256, 512, 513})

\* Constants that run linearly, with another cell among them: tracks of one cell are
\* best, and the group leaves out the index of the other cell.
Interrupted ==
  {FileOf(<<1, 2, c, 3, 4, 5, 6>>) : c \in {256, 512}} \union {FileOf(<<255, 250, 245, 240, 235, 256>>)}

\* A structured platter of two entries and a raw one of one.
TwoPlatters == FileOf(<<0, 0, 1, 1, 512, 513>>)

\* Files long enough for every kind of meta group.
Ramps == {FileOf([i \in 1 .. n |-> a + d * (i - 1)]) :
            n \in 4 .. 6, a \in {100, 250}, d \in {-20, 0, 1, 50}}

Grouped ==
  {FileOf([i \in 1 .. 5 |-> 256]),
   FileOf([i \in 1 .. 9 |-> IF i = 9 THEN 512 ELSE 256]),
   FileOf([i \in 1 .. 6 |-> 255 + i]),
   FileOf([i \in 1 .. 16 |-> IF i % 4 = 0 THEN 1 ELSE 512]),
   FileOf([i \in 1 .. 8 |-> IF i < 5 THEN 512 ELSE i % 2]),
   FileOf([i \in 1 .. 12 |-> IF i < 6 THEN 3 ELSE 512 + i])}

\* The 96 byte file of finding "second pass": a track that repeats one
\* incompressible cell and two that are half constant.
TwoHalfRaw == FileOf(<<512, 512, 512, 512, 9, 9, 513, 514, 9, 9, 515, 516>>)

MCFiles == AllShort \union {f \in Ramps : \A i \in DOMAIN f.cell : f.cell[i] >= 0}
                    \union Grouped \union Interrupted \union {TwoPlatters, TwoHalfRaw}
\* Five ramps: tracks of one cell are best, so a U16 of 4 is too small.
FiveRamps == FileOf(<<256, 257, 258, 259, 260>>)

ReanalyzedFiles == {TwoHalfRaw}
WrappedFiles == {FiveRamps}
MCCandidates == {1, 2, 4, 8, 16}
MCSecondPass == {1, 2, 4, 8}
=============================================================================
