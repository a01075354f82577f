-------------------------- MODULE LosslessChannel --------------------------
(***************************************************************************)
(* What every compress/decompress pair of the project promises.  The       *)
(* receiver gets exactly what was sent, once, and does get it; if the      *)
(* compressed file was damaged on the way it gets an error, never other    *)
(* data.  The detailed modules (Pltz, Chunked) implement this.             *)
(***************************************************************************)
CONSTANTS
  Messages,  \* what may be compressed
  Nothing,   \* no output yet
  Refused    \* the error answer

VARIABLES
  sent,      \* the data given to the encoder
  intact,    \* whether the decoder sees all that the encoder wrote
  received   \* what the decoder returned

vars == <<sent, intact, received>>

\* Every variable has its type.
TypeOK ==
  /\ sent \in Messages
  /\ intact \in BOOLEAN
  /\ received \in Messages \union {Nothing, Refused}

Init ==
  /\ sent \in Messages
  /\ intact = TRUE
  /\ received = Nothing

Damage ==
  /\ received = Nothing /\ intact
  /\ intact' = FALSE
  /\ UNCHANGED <<sent, received>>

Answer ==
  /\ received = Nothing
  /\ received' = IF intact THEN sent ELSE Refused
  /\ UNCHANGED <<sent, intact>>

Next == Damage \/ Answer

Spec == Init /\ [][Next]_vars /\ WF_vars(Answer)
=============================================================================
