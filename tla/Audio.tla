------------------------------- MODULE Audio --------------------------------
(***************************************************************************)
(* The lossy PLTA sound of rust/src/audio.rs: each frame of samples is     *)
(* compressed as an image of one row, and stored behind its length.        *)
(*                                                                         *)
(* A sample of 16 bits is signed, and the image codec takes it for         *)
(* unsigned: `samples` holds what the image codec sees.  A frame holds the *)
(* samples of all channels, interleaved.                                   *)
(***************************************************************************)
EXTENDS LossyRow

CONSTANTS
  Recordings,   \* records: samples, a sequence, and frame, samples of all channels in one
  Overhead      \* 23, bytes of an image of one row but its parameters

ASSUME AudioAssumption ==
  /\ Overhead \in Nat
  /\ \A r \in Recordings : /\ r.samples \in Seq(0 .. MaxPixel)
                           /\ r.frame \in Nat \ {0}

VARIABLES
  recording,
  loss,       \* quality
  phase,      \* Encode, Decode, Done, Misread
  frames,     \* the file: the frames, each an image of one row
  heard       \* the samples decoded so far, by frame

audioVars == <<recording, loss, phase, frames, heard>>

\* num_frames, and frame k; the last may be shorter
NumFrames == (Len(recording.samples) + recording.frame - 1) \div recording.frame

Frame(k) ==
  LET end == k * recording.frame
  IN  SubSeq(recording.samples, end - recording.frame + 1,
             IF end < Len(recording.samples) THEN end ELSE Len(recording.samples))

AudioInit ==
  /\ recording \in Recordings /\ loss \in Qualities
  /\ phase = "Encode" /\ frames = <<>> /\ heard = <<>>

\* The width of the image is the length of the frame, cast to u16: samples past it are
\* not looked at.  An image of one row has no group, and row 0 begins with a zero.
EncodeFrame ==
  /\ phase = "Encode" /\ Len(frames) < NumFrames
  /\ LET frame == Frame(Len(frames) + 1)
         row == SubSeq(frame, 1, Len(frame) % U16)
     IN  \E enc \in FitRowLossy(row, loss) :
           frames' = Append(frames, [len |-> (Overhead + enc.len) % U16, enc |-> enc,
                                     width |-> Len(row), original |-> Len(frame)])
  /\ UNCHANGED <<recording, loss, phase, heard>>

CloseFile ==
  /\ phase = "Encode" /\ Len(frames) = NumFrames
  /\ phase' = "Decode"
  /\ UNCHANGED <<recording, loss, frames, heard>>

\* decompress_image, of an image of one row
Decompressed(f) ==
  LET row == ReconstructRow(f.enc, f.width)
  IN  [i \in 1 .. f.original |-> IF i <= f.width THEN row[i] ELSE 0]

\* The number of frames is cast to u16 in the header.
Announced == Len(frames) % U16

\* A frame cut by its length field is no image any more, and the next is looked for in
\* the middle of it.
DecodeFrame ==
  /\ phase = "Decode" /\ Len(heard) < Announced
  /\ LET f == frames[Len(heard) + 1] IN
     IF f.len = Overhead + f.enc.len
       THEN heard' = Append(heard, Decompressed(f)) /\ phase' = phase
       ELSE heard' = heard /\ phase' = "Misread"
  /\ UNCHANGED <<recording, loss, frames>>

AllHeard ==
  /\ phase = "Decode" /\ Len(heard) = Announced
  /\ phase' = "Done"
  /\ UNCHANGED <<recording, loss, frames, heard>>

AudioNext == EncodeFrame \/ CloseFile \/ DecodeFrame \/ AllHeard

AudioSpec == AudioInit /\ [][AudioNext]_audioVars
-----------------------------------------------------------------------------
(* Properties *)

\* Every variable has its type.
AudioTypeOK ==
  /\ recording \in Recordings /\ loss \in Qualities
  /\ phase \in {"Encode", "Decode", "Done", "Misread"}
  /\ Len(frames) <= NumFrames /\ Len(heard) <= Len(frames)
  /\ \A k \in DOMAIN heard : heard[k] \in [DOMAIN Frame(k) -> 0 .. MaxPixel]

\* The value of a sample: 16 bits are signed
Sample(u) == IF PixelBytes = 2 /\ 2 * u > MaxPixel THEN u - (MaxPixel + 1) ELSE u

\* The highest and the lowest samples are neighbours when seen as unsigned.
NearTheFold(u) == PixelBytes = 2 /\ Distance(2 * u, MaxPixel) <= 2 * loss - 1

\* Sample u may be heard as h: within quality of it or, near full scale, at the other end
\* of the range, as the codec keeps the distance of the unsigned numbers.
Kept(h, u) ==
  \/ Distance(Sample(h), Sample(u)) <= loss
  \/ NearTheFold(u) /\ Distance(Sample(h), Sample(u)) >= MaxPixel + 1 - loss

\* audio.rs:32 and test_lossy_tone, for any recording: as many frames are decoded as the
\* header announces, each of its length; a sample the image codec looked at is off by no
\* more than quality, unless its fit carried it over the fold to the other end of the range;
\* and the samples of a frame past the width of its image are heard as 0.
SamplesWithinQuality ==
  phase = "Done" =>
    /\ Len(heard) = NumFrames % U16
    /\ \A k \in DOMAIN heard :
         /\ Len(heard[k]) = Len(Frame(k))
         /\ \A i \in DOMAIN Frame(k) :
              IF i <= Len(Frame(k)) % U16 THEN Kept(heard[k][i], Frame(k)[i]) ELSE heard[k][i] = 0

\* What audio.rs:32 says of a sample: quality is the "max error per sample".
EverySampleWithinQuality ==
  phase = "Done" =>
    \A k \in DOMAIN heard : \A i \in DOMAIN Frame(k) :
      Distance(Sample(heard[k][i]), Sample(Frame(k)[i])) <= loss

\* audio.rs:82: the decoder loses its place at a raw frame that overflows its length
\* field, among the frames it is told of, and nowhere else.
FramesMisreadOnlyThere ==
  phase \in {"Done", "Misread"} =>
    (phase = "Misread" <=> \E k \in 1 .. Announced : Overhead + frames[k].enc.len >= U16)
=============================================================================
