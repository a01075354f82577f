------------------------------- MODULE Video --------------------------------
(***************************************************************************)
(* The PLTV video of rust/src/video.rs.  A frame is an image of its own    *)
(* (I), or the difference from the reference frame before it (P), or from  *)
(* that one or the next I frame (B).  The encoder takes the differences    *)
(* from the original frames, the decoder adds them to decoded ones.        *)
(*                                                                         *)
(* A frame here has a luma plane y, its pixels in one row, and a chroma    *)
(* plane c (Cb and Cr are treated alike); the conversion from and to RGB   *)
(* is left out but for its reach into the chroma planes.  What the image   *)
(* codec makes of a plane of differences is any of the extremes Image      *)
(* allows it, except in the frames of `misread`: a plane of theirs has a   *)
(* row the image codec does not find again (MisreadOnlyThere of Image: row *)
(* 255, 511, ... with a fit no three others have; or, at quality 0, more   *)
(* tracks than PLTZ numbers).  Which frames these are hangs on the fits of *)
(* rows that are not in the model, so it is an input.  The u32 lengths of  *)
(* frames and planes are taken to fit.                                     *)
(***************************************************************************)
EXTENDS Integers, Sequences, FiniteSets, FiniteSetsExt

CONSTANTS
  Videos,       \* records: frames, gop, quality, odd (the width or the height is), misread
  MaxByte,      \* 2^8 - 1
  CountRange,   \* 2^16
  BlockSize,    \* 16 pixels
  SearchRange,  \* 16 pixels
  NoFrame

Middle == (MaxByte + 1) \div 2

ASSUME VideoAssumption ==
  /\ MaxByte \in Nat /\ CountRange \in Nat \ {0} /\ BlockSize \in Nat \ {0} /\ SearchRange \in Nat
  /\ NoFrame \notin [y : Seq(0 .. MaxByte), c : Seq(0 .. MaxByte)]
  /\ \A v \in Videos :
       /\ v.gop \in Nat /\ v.quality \in Nat /\ v.odd \in BOOLEAN /\ v.misread \subseteq Nat
       /\ v.frames \in Seq([y : Seq(0 .. MaxByte), c : Seq(0 .. MaxByte)])
       /\ \A f, g \in {v.frames[i] : i \in DOMAIN v.frames} :
            Len(f.y) = Len(g.y) /\ Len(f.c) = Len(g.c)

Clamp(x) == IF x < 0 THEN 0 ELSE IF x > MaxByte THEN MaxByte ELSE x

Difference(a, b) == IF a < b THEN b - a ELSE a - b

Sad(p, r) == MapThenSumSet(LAMBDA i : Difference(p[i], r[i]), DOMAIN p)

-----------------------------------------------------------------------------
(* Planes *)

\* compress_image and decompress_image (module Image), of a plane that is not misread
Compressed(plane, q) == {[i \in DOMAIN plane |-> Clamp(plane[i] + e[i])] : e \in [DOMAIN plane -> {-q, q}]}

Blocks(plane) == 1 .. (Len(plane) + BlockSize - 1) \div BlockSize

BlockOf(b, plane) == {i \in DOMAIN plane : (i - 1) \div BlockSize = b - 1}

\* find_motion_vector: the first displacement with the least difference among those
\* that keep the block in the picture; a block the edge cuts has none.
MotionVector(y, r, b) ==
  LET inside == {d \in -SearchRange .. SearchRange :
                   /\ Cardinality(BlockOf(b, y)) = BlockSize
                   /\ \A i \in BlockOf(b, y) : i + d \in DOMAIN r}
      sad(d) == MapThenSumSet(LAMBDA i : Difference(y[i], r[i + d]), BlockOf(b, y))
      best == {d \in inside : \A o \in inside : sad(d) <= sad(o)}
  IN  IF inside = {} THEN 0 ELSE Min(best)

Vectors(y, r) == [b \in Blocks(y) |-> MotionVector(y, r, b)]

\* apply_motion_compensation
Predicted(r, mvs) ==
  [i \in DOMAIN r |->
     LET from == i + mvs[(i - 1) \div BlockSize + 1]
     IN  IF from \in DOMAIN r THEN r[from] ELSE Middle]

Residual(plane, r) == [i \in DOMAIN plane |-> Clamp(plane[i] - r[i] + Middle)]

\* Mutant of Restored: the sum is not brought back into the range of a pixel.
RestoredUnclamped(d, r) == [i \in DOMAIN d |-> r[i] + d[i] - Middle]

Restored(d, r) == [i \in DOMAIN d |-> Clamp(r[i] + d[i] - Middle)]

\* encode_iframe, encode_pframe: what may be in the file
Intra(f, q) ==
  {[type |-> "I", dir |-> 0, mvs |-> <<>>, y |-> y, c |-> c] :
     y \in Compressed(f.y, q), c \in Compressed(f.c, q)}

Inter(type, dir, f, r, q) ==
  LET mvs == Vectors(f.y, r.y) IN
  {[type |-> type, dir |-> dir, mvs |-> mvs, y |-> y, c |-> c] :
     y \in Compressed(Residual(f.y, Predicted(r.y, mvs)), q), c \in Compressed(Residual(f.c, r.c), q)}

\* decode_pframe; decode_iframe only unpacks.
DecodedFrom(e, r) == [y |-> Restored(e.y, Predicted(r.y, e.mvs)), c |-> Restored(e.c, r.c)]

\* The number of vectors is cast to u16.
VectorsCut(e) == Len(e.mvs) >= CountRange

\* The frames entry e may be decoded as.  decompress_image looks for the rows after one it
\* misreads at the wrong place, and what it answers then is a plane of the right size.
Decodings(e, r, misread) ==
  IF misread THEN [y : [DOMAIN e.y -> 0 .. MaxByte], c : [DOMAIN e.c -> 0 .. MaxByte]]
  ELSE {IF e.type = "I" THEN [y |-> e.y, c |-> e.c] ELSE DecodedFrom(e, r)}

-----------------------------------------------------------------------------
VARIABLES
  video,
  step,        \* Encode, References, Bidirectional, Done, Failed (an error or a panic)
  reference,   \* of the encoder: the last frame coded as I or P
  file,
  turn,        \* frames the pass of the decoder has been through
  last,        \* of the decoder: the last I or P decoded
  decoded

videoVars == <<video, step, reference, file, turn, last, decoded>>

VideoInit ==
  /\ video \in Videos
  /\ step = "Encode" /\ reference = 0 /\ file = <<>>
  /\ turn = 0 /\ last = 0 /\ decoded = <<>>

Frames == video.frames

IsIFrame(i) == (i - 1) % video.gop = 0

\* next_ref_idx
NextIntra(i) == ((i - 1) \div video.gop + 1) * video.gop + 1

UseBFrame(i) == NextIntra(i) <= Len(Frames) /\ (i - 1) % 2 = 1

Encoding(i) == step = "Encode" /\ i <= Len(Frames) /\ video.gop > 0

EncodeI ==
  LET i == Len(file) + 1 IN
  /\ Encoding(i) /\ IsIFrame(i)
  /\ \E e \in Intra(Frames[i], video.quality) : file' = Append(file, e)
  /\ reference' = i
  /\ UNCHANGED <<video, step, turn, last, decoded>>

\* Mutant of EncodeB: the frame becomes the reference of the next P.
EncodeBReference ==
  LET i == Len(file) + 1 IN
  /\ Encoding(i) /\ ~IsIFrame(i) /\ UseBFrame(i)
  /\ LET past == Frames[reference]
         future == Frames[NextIntra(i)]
         dir == IF Sad(Frames[i].y, future.y) < Sad(Frames[i].y, past.y) THEN 1 ELSE 0
     IN  \E e \in Inter("B", dir, Frames[i], IF dir = 1 THEN future ELSE past, video.quality) :
           file' = Append(file, e)
  /\ reference' = i
  /\ UNCHANGED <<video, step, turn, last, decoded>>

EncodeB ==
  LET i == Len(file) + 1 IN
  /\ Encoding(i) /\ ~IsIFrame(i) /\ UseBFrame(i)
  /\ LET past == Frames[reference]
         future == Frames[NextIntra(i)]
         dir == IF Sad(Frames[i].y, future.y) < Sad(Frames[i].y, past.y) THEN 1 ELSE 0
     IN  \E e \in Inter("B", dir, Frames[i], IF dir = 1 THEN future ELSE past, video.quality) :
           file' = Append(file, e)
  /\ UNCHANGED <<video, step, reference, turn, last, decoded>>

EncodeP ==
  LET i == Len(file) + 1 IN
  /\ Encoding(i) /\ ~IsIFrame(i) /\ ~UseBFrame(i)
  /\ \E e \in Inter("P", 0, Frames[i], Frames[reference], video.quality) : file' = Append(file, e)
  /\ reference' = i
  /\ UNCHANGED <<video, step, turn, last, decoded>>

\* A group of no frames: the remainder by zero panics.
EncodeNoGroup ==
  /\ step = "Encode" /\ Frames # <<>> /\ video.gop = 0
  /\ step' = "Failed"
  /\ UNCHANGED <<video, reference, file, turn, last, decoded>>

\* The number of frames is cast to u16.
FramesAnnounced == Len(file) % CountRange

Scan ==
  /\ step = "Encode" /\ Len(file) = Len(Frames)
  /\ step' = "References"
  /\ decoded' = [i \in 1 .. FramesAnnounced |-> NoFrame]
  /\ UNCHANGED <<video, reference, file, turn, last>>

\* decode_iframe and decode_pframe may end in an error or a panic: the block vectors are
\* more than announced, or a plane is misread.
MayFail(i) == VectorsCut(file[i]) \/ i \in video.misread

\* One turn of the loop that decodes the I and the P frames
DecodeReference ==
  /\ step = "References" /\ turn < FramesAnnounced
  /\ LET i == turn + 1
         e == file[i]
     IN  \/ e.type # "B" /\ MayFail(i) /\ step' = "Failed" /\ UNCHANGED <<turn, last, decoded>>
         \/ e.type = "B" /\ turn' = i /\ UNCHANGED <<step, last, decoded>>
         \/ /\ e.type # "B" /\ ~VectorsCut(e)
            /\ \E f \in Decodings(e, decoded[last], i \in video.misread) :
                 decoded' = [decoded EXCEPT ![i] = f]
            /\ last' = i /\ turn' = i /\ UNCHANGED step
  /\ UNCHANGED <<video, reference, file>>

References == {j \in 1 .. FramesAnnounced : file[j].type # "B"}

PastReference(i) == Max({j \in References : j < i})

\* next_ref: the next frame that is not a B, and the last frame when there is none
FutureReference(i) ==
  IF \E j \in References : j > i THEN Min({j \in References : j > i}) ELSE FramesAnnounced

SecondPass ==
  /\ step = "References" /\ turn = FramesAnnounced
  /\ step' = "Bidirectional" /\ turn' = 0
  /\ UNCHANGED <<video, reference, file, last, decoded>>

\* Mutant of DecodeB: the decoder stops before the last frame.
DecodeBShort ==
  /\ step = "Bidirectional" /\ turn < FramesAnnounced
  /\ LET i == turn + 1
         e == file[i]
         from == IF e.dir = 1 /\ decoded[FutureReference(i)] # NoFrame
                   THEN FutureReference(i) ELSE PastReference(i)
     IN  \/ e.type = "B" /\ MayFail(i) /\ step' = "Failed" /\ UNCHANGED <<turn, decoded>>
         \/ (e.type # "B" \/ i = FramesAnnounced) /\ turn' = i /\ UNCHANGED <<step, decoded>>
         \/ /\ e.type = "B" /\ i # FramesAnnounced /\ ~VectorsCut(e)
            /\ \E f \in Decodings(e, decoded[from], i \in video.misread) :
                 decoded' = [decoded EXCEPT ![i] = f]
            /\ turn' = i /\ UNCHANGED step
  /\ UNCHANGED <<video, reference, file, last>>

\* One turn of the loop that decodes the B frames
DecodeB ==
  /\ step = "Bidirectional" /\ turn < FramesAnnounced
  /\ LET i == turn + 1
         e == file[i]
         from == IF e.dir = 1 /\ decoded[FutureReference(i)] # NoFrame
                   THEN FutureReference(i) ELSE PastReference(i)
     IN  \/ e.type = "B" /\ MayFail(i) /\ step' = "Failed" /\ UNCHANGED <<turn, decoded>>
         \/ e.type # "B" /\ turn' = i /\ UNCHANGED <<step, decoded>>
         \/ /\ e.type = "B" /\ ~VectorsCut(e)
            /\ \E f \in Decodings(e, decoded[from], i \in video.misread) :
                 decoded' = [decoded EXCEPT ![i] = f]
            /\ turn' = i /\ UNCHANGED step
  /\ UNCHANGED <<video, reference, file, last>>

\* ycbcr_to_rgb: the last row or column of an odd one has no chroma, and looking for it
\* runs past the end of the plane.
ToRgb ==
  /\ step = "Bidirectional" /\ turn = FramesAnnounced
  /\ step' = IF FramesAnnounced > 0 /\ (video.odd \/ \E i \in DOMAIN decoded : decoded[i] = NoFrame)
                THEN "Failed" ELSE "Done"
  /\ UNCHANGED <<video, reference, file, turn, last, decoded>>

VideoNext ==
  \/ EncodeI \/ EncodeB \/ EncodeP \/ EncodeNoGroup
  \/ Scan \/ DecodeReference \/ SecondPass \/ DecodeB \/ ToRgb

VideoSpec == VideoInit /\ [][VideoNext]_videoVars
-----------------------------------------------------------------------------
(* Properties *)

\* Every variable has its type.
VideoTypeOK ==
  /\ video \in Videos
  /\ step \in {"Encode", "References", "Bidirectional", "Done", "Failed"}
  /\ Len(file) <= Len(Frames) /\ reference <= Len(file) /\ turn <= Len(file) /\ last <= Len(file)
  /\ \A i \in DOMAIN decoded :
       decoded[i] # NoFrame => /\ decoded[i].y \in [DOMAIN Frames[i].y -> 0 .. MaxByte]
                               /\ decoded[i].c \in [DOMAIN Frames[i].c -> 0 .. MaxByte]

\* The frame that frame i was coded as a difference from
CodedFrom(i) ==
  IF file[i].dir = 1 THEN NextIntra(i) ELSE Max({j \in 1 .. i - 1 : file[j].type # "B"})

\* Frame i and those it was coded from, one by one.
Chain(i) ==
  LET chain[j \in 1 .. Len(file)] ==
        IF file[j].type = "I" THEN {j} ELSE {j} \union chain[CodedFrom(j)]
  IN  chain[i]

\* No difference between the originals was too large for a byte.
Representable(i) ==
  file[i].type # "I" =>
    LET r == Frames[CodedFrom(i)]
        p == Predicted(r.y, file[i].mvs)
        fits(plane, from) == \A k \in DOMAIN plane : plane[k] - from[k] + Middle \in 0 .. MaxByte
    IN  fits(Frames[i].y, p) /\ fits(Frames[i].c, r.c)

\* A B frame coded from the next I frame is decoded from a nearer P frame, or from the
\* past when that I frame is not announced.
LosesItsReference(i) ==
  /\ file[i].dir = 1
  /\ \/ \E j \in i + 1 .. NextIntra(i) - 1 : file[j].type = "P"
     \/ NextIntra(i) > FramesAnnounced

\* video.rs:14, the quality of a video: the error of a frame grows by quality with each
\* frame between it and its I frame.  There is no bound for a frame when the image codec
\* misreads it or one it was coded from, when a difference among them overflowed a byte, or
\* when the two sides take different frames for its reference.
ErrorDriftsWithTheChain ==
  step = "Done" =>
    \A i \in DOMAIN decoded :
      \/ LosesItsReference(i)
      \/ \E j \in Chain(i) : ~Representable(j) \/ j \in video.misread
      \/ /\ \A k \in DOMAIN Frames[i].y :
              Difference(decoded[i].y[k], Frames[i].y[k]) <= video.quality * Cardinality(Chain(i))
         /\ \A k \in DOMAIN Frames[i].c :
              Difference(decoded[i].c[k], Frames[i].c[k]) <= video.quality * Cardinality(Chain(i))

\* What the code cannot code, or never decodes.
OutOfReach ==
  /\ Frames # <<>>
  /\ \/ video.gop = 0
     \/ FramesAnnounced > 0 /\ video.odd
     \/ \E i \in 1 .. FramesAnnounced : VectorsCut(file[i])

\* Whatever the order of I, P and B frames, and whatever a misread plane is taken for, a
\* video is decoded to its last frame, or to the last one its header announces, and the
\* frames a B needs are there when it comes.  Decoding fails only out of reach, and may fail
\* where the image codec misreads a plane.
DecodedToTheEnd ==
  /\ step = "Failed" => OutOfReach \/ \E i \in 1 .. FramesAnnounced : i \in video.misread
  /\ step = "Done" =>
       /\ ~OutOfReach
       /\ Len(Frames) < CountRange => Len(decoded) = Len(Frames)
       /\ \A i \in DOMAIN decoded : decoded[i] # NoFrame
=============================================================================
