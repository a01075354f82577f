------------------------------- MODULE Image --------------------------------
(***************************************************************************)
(* The lossy PLTI image of rust/src/image.rs: every row is fitted, rows    *)
(* with the same fit share a group, and the decoder recognizes a group by  *)
(* the first byte of its entry.                                            *)
(***************************************************************************)
EXTENDS LossyRow, FiniteSetsExt

CONSTANTS
  Images,       \* sequences of rows, a row a sequence of pixels
  Base,         \* 2^8, the range of a byte
  None

MinGroup == 4

ASSUME ImageAssumption ==
  /\ Base \in Nat \ {0, 1}
  /\ \A image \in Images : /\ image \in Seq(Seq(0 .. MaxPixel)) /\ Len(image) < U16
                           /\ \A r \in DOMAIN image : Len(image[r]) \in Nat \ {0}

-----------------------------------------------------------------------------
VARIABLES
  image,      \* the rows
  quality,
  stage,      \* Fit, Group, Decode, Done, Misread
  fitted,     \* the encodings of the rows so far
  groups,     \* the groups still to be written
  entries,    \* the file
  pos,        \* entries decoded so far
  pixels      \* the rows of the answer

vars == <<image, quality, stage, fitted, groups, entries, pos, pixels>>

Rows == DOMAIN image

Init ==
  /\ image \in Images /\ quality \in Qualities
  /\ stage = "Fit" /\ fitted = <<>> /\ groups = {} /\ entries = <<>>
  /\ pos = 0 /\ pixels = None

\* Equal rows are fitted alike.
FitRow ==
  /\ stage = "Fit" /\ Len(fitted) < Len(image)
  /\ LET row == image[Len(fitted) + 1]
         equal == {s \in DOMAIN fitted : image[s] = row}
     IN  \E enc \in IF equal = {} THEN FitRowLossy(row, quality) ELSE {fitted[s] : s \in equal} :
           fitted' = Append(fitted, enc)
  /\ UNCHANGED <<image, quality, stage, groups, entries, pos, pixels>>

\* cross_row_optimize: the groups of at least four rows with the same fit
Grouped ==
  {g \in {{r \in Rows : fitted[r] = fitted[s]} : s \in Rows} : Cardinality(g) >= MinGroup}

CrossRowOptimize ==
  /\ stage = "Fit" /\ Len(fitted) = Len(image)
  /\ groups' = Grouped
  /\ stage' = "Group"
  /\ UNCHANGED <<image, quality, fitted, entries, pos, pixels>>

\* The groups come first, in the order of a HashMap.
WriteGroup ==
  /\ stage = "Group"
  /\ \E g \in groups :
       /\ entries' = Append(entries, [first |-> Base - 1, rows |-> g,
                                      enc |-> fitted[CHOOSE r \in g : TRUE]])
       /\ groups' = groups \ {g}
  /\ UNCHANGED <<image, quality, stage, fitted, pos, pixels>>

\* Mutant of WriteRows: the high byte of the number comes first.
WriteRowsBigEndian ==
  /\ stage = "Group" /\ groups = {}
  /\ LET rest == Rows \ UNION Grouped
         nth(k) == CHOOSE r \in rest : Cardinality({s \in rest : s <= r}) = k
     IN  entries' = entries \o [k \in 1 .. Cardinality(rest) |->
                      [first |-> (nth(k) - 1) \div Base, rows |-> {nth(k)}, enc |-> fitted[nth(k)]]]
  /\ pixels' = [r \in Rows |-> [i \in DOMAIN image[r] |-> 0]]
  /\ stage' = "Decode"
  /\ UNCHANGED <<image, quality, fitted, groups, pos>>

\* The other rows, in their order; row r is numbered r - 1 and begins with the low
\* byte of its number.
WriteRows ==
  /\ stage = "Group" /\ groups = {}
  /\ LET rest == Rows \ UNION Grouped
         nth(k) == CHOOSE r \in rest : Cardinality({s \in rest : s <= r}) = k
     IN  entries' = entries \o [k \in 1 .. Cardinality(rest) |->
                      [first |-> (nth(k) - 1) % Base, rows |-> {nth(k)}, enc |-> fitted[nth(k)]]]
  /\ pixels' = [r \in Rows |-> [i \in DOMAIN image[r] |-> 0]]
  /\ stage' = "Decode"
  /\ UNCHANGED <<image, quality, fitted, groups, pos>>

\* A single row taken for a group, or parameters cut at their length field: what
\* follows is read at the wrong place.
Misleading(e) ==
  \/ e.first = Base - 1 /\ Cardinality(e.rows) = 1
  \/ e.enc.len >= U16

\* One turn of the loop of decompress_image
DecodeEntry ==
  /\ stage = "Decode" /\ pos < Len(entries)
  /\ LET e == entries[pos + 1] IN
     /\ pixels' = IF Misleading(e) THEN pixels
                  ELSE [r \in Rows |-> IF r \in e.rows THEN ReconstructRow(e.enc, Len(image[r]))
                                       ELSE pixels[r]]
     /\ stage' = IF Misleading(e) THEN "Misread" ELSE stage
  /\ pos' = pos + 1
  /\ UNCHANGED <<image, quality, fitted, groups, entries>>

Finish ==
  /\ stage = "Decode" /\ pos = Len(entries)
  /\ stage' = "Done"
  /\ UNCHANGED <<image, quality, fitted, groups, entries, pos, pixels>>

Next ==
  \/ FitRow \/ CrossRowOptimize \/ WriteGroup \/ WriteRows \/ DecodeEntry \/ Finish

Spec == Init /\ [][Next]_vars
-----------------------------------------------------------------------------
(* Properties *)

\* Every variable has its type.
ImageTypeOK ==
  /\ image \in Images /\ quality \in Qualities
  /\ stage \in {"Fit", "Group", "Decode", "Done", "Misread"}
  /\ Len(fitted) <= Len(image) /\ groups \subseteq SUBSET Rows
  /\ pos \in 0 .. Len(entries)
  /\ pixels # None => /\ DOMAIN pixels = Rows
                      /\ \A r \in Rows : pixels[r] \in [DOMAIN image[r] -> 0 .. MaxPixel]

\* image.rs:29 and its tests: every pixel of every row is decoded to within quality of
\* what it was, whatever the fits are rounded to and whichever rows share a group.
PixelsWithinQuality ==
  stage = "Done" =>
    \A r \in Rows : \A i \in DOMAIN image[r] : Distance(pixels[r][i], image[r][i]) <= quality

\* The rows that make the decoder lose its place: a row on its own whose number ends
\* in the byte that marks a group, and a raw row too long for its length field.
Unreadable ==
  {r \in Rows : \/ (r - 1) % Base = Base - 1 /\ r \notin UNION Grouped
                \/ fitted[r].len >= U16}

\* Nothing else does.
MisreadOnlyThere ==
  /\ stage = "Misread" => Unreadable # {}
  /\ stage = "Done" => Unreadable = {}
=============================================================================
