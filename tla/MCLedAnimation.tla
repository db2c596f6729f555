--------------------------- MODULE MCLedAnimation ---------------------------
(* LedAnimation with the step count and the repetitions of the code.       *)
EXTENDS LedAnimation
=============================================================================
