---------------------------- MODULE MCCrossTrack ----------------------------
(***************************************************************************)
(* Small instances of CrossTrack.  The values are far apart and an         *)
(* arithmetic sequence, so that runs of four and five tracks occur in both *)
(* directions; the steps are one down and one up.                          *)
(***************************************************************************)
EXTENDS CrossTrack

MCValues == {1, 64, 127, 190, 253}
MCSteps == {-120, 2}
=============================================================================
