------------------------------ MODULE MCLossy -------------------------------
(* One image or one recording, with 4-bit pixels in two bytes each and fields of     *)
(* nine values; rows of two pixels, so that four can share a group and four differ.  *)
EXTENDS Image, Audio

Flat(k, row) == [r \in 1 .. k |-> row]

MCImages ==
  {<<a, b, <<3, 3>>, d, e>> : a \in {<<0, 15>>, <<3, 3>>}, b \in {<<3, 3>>, <<15, 14>>},
                             d \in {<<3, 3>>, <<6, 9>>}, e \in {<<3, 3>>, <<3, 4>>}}
  \union {Flat(4, <<1, 2>>) \o Flat(4, <<7, 7>>), Flat(4, <<0, 9>>), <<<<0, 9, 0, 9, 0>>>>,
          Flat(3, <<7, 6>>) \o <<<<9, 12>>>> \o Flat(3, <<7, 7>>) \o <<<<2, 2>>>>}

MCRecordings ==
  {[samples |-> s, frame |-> 2] : s \in {<<7, 8>>, <<6, 9, 6>>, <<0, 15>>, <<4, 9, 15, 15>>, <<>>}}
  \union {[samples |-> [i \in 1 .. 12 |-> 5], frame |-> n] : n \in {1, 5, 9, 10}}
  \union {[samples |-> <<0, 9, 0, 9, 5>>, frame |-> 4]}

VARIABLE container

MCInit ==
  \/ /\ container = "PLTI" /\ Init
     /\ recording = [samples |-> <<>>, frame |-> 1] /\ loss = 1 /\ phase = "Encode"
     /\ frames = <<>> /\ heard = <<>>
  \/ /\ container = "PLTA" /\ AudioInit
     /\ image = <<>> /\ quality = 1 /\ stage = "Fit" /\ fitted = <<>> /\ groups = {}
     /\ entries = <<>> /\ pos = 0 /\ pixels = None

MCNext ==
  /\ UNCHANGED container
  /\ \/ container = "PLTI" /\ Next /\ UNCHANGED audioVars
     \/ container = "PLTA" /\ AudioNext /\ UNCHANGED vars

MCSpec == MCInit /\ [][MCNext]_<<container, vars, audioVars>>

\* The variables of the codec at work have their types.
TypeOK == IF container = "PLTI" THEN ImageTypeOK ELSE AudioTypeOK

\* image.rs:29, audio.rs:32: in an image that is decoded every pixel is within quality.  In a
\* recording every sample is, but for 16-bit samples near full scale, which may be heard at
\* the other end of the range, and for samples the 16-bit counts of the format leave out.
WithinQuality ==
  IF container = "PLTI" THEN PixelsWithinQuality ELSE SamplesWithinQuality

\* What image.rs:29 says of a pixel: quality is the "max allowed error per pixel", so every
\* image is decoded and within it.
EveryPixelWithinQuality ==
  container = "PLTI" => stage # "Misread" /\ PixelsWithinQuality

\* The decoders lose their place for the reasons listed in Image and Audio, and no other.
MisreadExactlyThere ==
  IF container = "PLTI" THEN MisreadOnlyThere ELSE FramesMisreadOnlyThere
=============================================================================
