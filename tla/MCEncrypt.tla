----------------------------- MODULE MCEncrypt ------------------------------
(***************************************************************************)
(* Small instances of Encrypt: up to four tracks, enough for either stream *)
(* to outgrow its length field, and files of more tracks than U16 and of   *)
(* more bytes than U32, of which 0 or a handful are left.                  *)
(***************************************************************************)
EXTENDS Encrypt

MCPatterns == {"CONST", "LINEAR_F64", "DELTA_F64", "SPARSE"}
MCSupported == {"CONST", "LINEAR_F64", "DELTA_F64"}
MCNamed == {"CONST", "LINEAR_F64"}
MCParamSize == [p \in MCPatterns |-> IF p = "CONST" THEN 1 ELSE IF p = "SPARSE" THEN 3 ELSE 5]

MCSources ==
  UNION {[1 .. k -> MCPatterns] : k \in 0 .. 4} \union
  {[i \in 1 .. k |-> IF i = 3 THEN "SPARSE" ELSE "CONST"] : k \in (15 .. 21) \union (31 .. 36)}

MCLengthOf == [data \in MCSources |-> Len(data) * Sectors - (Len(data) % 4)]
=============================================================================
